------------------------------ MODULE WebRoutes ------------------------------
(***************************************************************************)
(* The routes of the Web application: who a session stands for, the gates, *)
(* and for each route the gate it passes, whether it validates a state     *)
(* change (origin and CSRF token) and the service call it makes.  Bodies,  *)
(* queries and page texts are left out.                                    *)
(*                                                                         *)
(* A principal is what _authenticated returns:                             *)
(* [user, actor, source, role, must_change].                               *)
(***************************************************************************)
EXTENDS IdentityDirectory

ReturnIntent == {"workbench", "safe_task_detail", "admin_center", "activation_status"}

web_return_intent_allowed(source, role, intent) ==
    intent \in CASE role = "ADMIN" -> {"workbench", "safe_task_detail", "admin_center"}
                 [] role = "OPERATOR" /\ source = "FEISHU" -> {"workbench", "safe_task_detail"}
                 [] role = "USER" /\ source = "FEISHU" -> {"safe_task_detail"}
                 [] OTHER -> {}

Capabilities(p) == admin_capabilities(p.role, p.source)

-----------------------------------------------------------------------------
\* Gates.

session_allowed_to_work(p) == ~p.must_change
workbench_session(p) == session_allowed_to_work(p) /\ p.role \in {"ADMIN", "OPERATOR"}
admin_session(p) ==
    session_allowed_to_work(p) /\ p.role = "ADMIN" /\ "view_integration_status" \in Capabilities(p)
identity_admin_session(p, capability) ==
    session_allowed_to_work(p) /\ p.role = "ADMIN" /\ capability \in Capabilities(p)
safe_task_session(p) ==
    session_allowed_to_work(p) /\ "view_safe_task" \in channel_permissions(p.role)
local_admin_session(p) == session_allowed_to_work(p) /\ p.source = "LOCAL_ADMIN"

\* _denial_reason of the configuration service.
ConfigurationAllows(p, capability) ==
    p.source = "LOCAL_ADMIN" /\ p.role = "ADMIN" /\ capability \in Capabilities(p)

-----------------------------------------------------------------------------
\* Routes.  `admits': the session gate and the service's own check; `guarded': the
\* request must carry this origin and the session's CSRF token; `calls': the operation.

Page(admits) == [admits |-> admits, guarded |-> FALSE, calls |-> Nothing]
Read(admits, calls) == [admits |-> admits, guarded |-> FALSE, calls |-> calls]
Write(admits, calls) == [admits |-> admits, guarded |-> TRUE, calls |-> calls]

shell(p) == Page(workbench_session(p))
admin_shell_route(p) == Page(admin_session(p))
detail_shell_route(p) == Page(safe_task_session(p))
login_shell_route(p) == Page(TRUE)
current_user(p) == Read(session_allowed_to_work(p), "me")
list_tasks_route(p) == Read(workbench_session(p), "list_tasks")
get_task_route(p) == Read(safe_task_session(p), "get_task")
submit_task(p) == Write(workbench_session(p), "submit_task")
change_password(p) == Write(p.source = "LOCAL_ADMIN", "change_password")
logout_route(p) == Write(TRUE, "logout")

list_admin_users(p) == Read(identity_admin_session(p, "manage_users"), "list_users")
list_admin_activations(p) == Read(identity_admin_session(p, "manage_users"), "list_pending")
list_admin_audit(p) == Read(identity_admin_session(p, "view_admin_audit"), "list_audit")
set_admin_user_status(p) == Write(identity_admin_session(p, "manage_users"), "set_status")
change_admin_user_role(p) == Write(identity_admin_session(p, "manage_users"), "change_role")
approve_admin_activation(p) == Write(identity_admin_session(p, "manage_users"), "approve")
reject_admin_activation(p) == Write(identity_admin_session(p, "manage_users"), "reject")

read_integration_status(p) == Read(admin_session(p), "integration_status")
read_ai_config(p) == Read(local_admin_session(p), "read_ai")
read_feishu_config(p) == Read(local_admin_session(p), "read_feishu")
read_resources(p) == Read(local_admin_session(p), "read_resources")
Configure(p, call) ==
    Write(session_allowed_to_work(p) /\ ConfigurationAllows(p, "manage_integrations"), call)
save_ai_config(p) == Configure(p, "save_ai")
save_feishu_config(p) == Configure(p, "save_feishu")
clear_ai_config(p) == Configure(p, "clear_ai")
clear_feishu_config(p) == Configure(p, "clear_feishu")
create_starrocks_resource(p) == Configure(p, "create_resource")
create_prometheus_resource(p) == Configure(p, "create_resource")
update_resource_route(p) == Configure(p, "update_resource")
clear_resource_secret_route(p) == Configure(p, "clear_resource_secret")
delete_resource_route(p) == Configure(p, "delete_resource")
start_oauth_test_route(p) ==
    Write(session_allowed_to_work(p) /\ ConfigurationAllows(p, "run_connection_tests"),
          "start_oauth_test")
run_provider_test(p) ==
    Write(session_allowed_to_work(p) /\ ConfigurationAllows(p, "run_connection_tests"), "probe")

Landing(p, intent) ==
    CASE intent = "workbench" -> shell(p)
      [] intent = "admin_center" -> admin_shell_route(p)
      [] intent = "safe_task_detail" -> detail_shell_route(p)
      [] OTHER -> login_shell_route(p)

\* The calls the script of a page makes when it opens, by the capabilities /me reports.
boot(p) ==
    {current_user(p), read_integration_status(p)}
    \cup (IF "manage_users" \in Capabilities(p)
          THEN {list_admin_users(p), list_admin_activations(p)} ELSE {})
    \cup (IF "view_admin_audit" \in Capabilities(p) THEN {list_admin_audit(p)} ELSE {})
    \cup (IF "manage_integrations" \in Capabilities(p)
          THEN {read_ai_config(p), read_feishu_config(p), read_resources(p)} ELSE {})
loadIdentity(p) == {current_user(p), list_tasks_route(p)}
readTask(p) == {get_task_route(p)}
PageCalls(p, intent) ==
    CASE intent = "workbench" -> loadIdentity(p)
      [] intent = "admin_center" -> boot(p)
      [] intent = "safe_task_detail" -> readTask(p)
      [] OTHER -> {}

IdentityRoute(p, command) ==
    CASE command.kind = "set_status" -> set_admin_user_status(p)
      [] command.kind = "change_role" -> change_admin_user_role(p)
      [] command.kind = "approve" -> approve_admin_activation(p)
      [] command.kind = "reject" -> reject_admin_activation(p)

ConfigReads(p) == {read_ai_config(p), read_feishu_config(p), read_resources(p)}
ConfigWrites(p) ==
    {save_ai_config(p), save_feishu_config(p), clear_ai_config(p), clear_feishu_config(p),
     create_starrocks_resource(p), create_prometheus_resource(p), update_resource_route(p),
     clear_resource_secret_route(p), delete_resource_route(p), start_oauth_test_route(p),
     run_provider_test(p)}
=============================================================================
