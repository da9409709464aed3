----------------------------- MODULE Deployment -----------------------------
(***************************************************************************)
(* A deployment: the server process reads its environment and runtime.json, *)
(* upgrades the database it names, and serves the first-run bootstrap, the  *)
(* runtime configuration and the deployment assistant, whose tool calls     *)
(* create the first administrator or rewrite runtime.json.  The file is     *)
(* read again only when the server starts.                                  *)
(*                                                                          *)
(* Left out: assistant messages, context snapshots and model call logs,     *)
(* which no decision reads (what the model proposes is any allowed tool).   *)
(***************************************************************************)
EXTENDS Upgrades

CONSTANTS
  Server,         \* the runner that is the server process
  Environments,   \* what the environment sets: driver, url, migrate
  Inputs,         \* settings an administrator sends: the same
  Names,          \* usernames
  Conversations,  \* assistant conversations, and ...
  ToolCalls,      \* ... their tool calls
  Handlers,
  UsersVersion,     \* version that creates the table users, and ...
  AssistantVersion, \* ... the tables of the assistant
  MaxRequests     \* bound: requests in a behaviour

Drivers == {"sqlite", "postgres"}
Unset == "unset"
Flags == {"on", "off"}
Sources == [driver : Drivers \cup {Unset}, url : BOOLEAN, migrate : Flags \cup {Unset}]
Bootstrap == "bootstrap"     \* scope of a conversation that no user owns
Tools == {"inspect_runtime_config", "bootstrap_create_admin", "save_runtime_config"}
CallStatuses == {"pending_confirmation", "running", "succeeded", "failed"}
Operations == {"BootstrapCreateAdmin", "Save", "CreateConversation", "SendMessage", "ConfirmToolCall"}

ASSUME DeploymentAssumption ==
  /\ Server \in Runners
  /\ Environments \subseteq Sources /\ Inputs \subseteq Sources
  /\ UsersVersion \in Versions /\ AssistantVersion \in Versions
  /\ Nothing \notin CallStatuses \cup Operations
  /\ MaxRequests \in Nat

VARIABLES
  env,       \* the server's environment
  file,      \* runtime.json: absent, unreadable, or its settings
  config,    \* the configuration the server runs with
  admins,    \* administrators of a database; was there no user when their creation was asked for?
  talks,     \* assistant_conversations: owner, or Nothing
  calls,     \* assistant_tool_calls; runs counts the times the tool ran
  handler,   \* requests under way
  asked      \* number of requests so far

servingVars == <<env, file, config, admins, talks, calls, handler, asked>>
vars == <<upgradeVars, servingVars>>

Settings == [driver : Drivers, url : BOOLEAN, migrate : Flags]
Absent == [driver |-> Unset, url |-> FALSE, migrate |-> Unset]
Emptied == [Absent EXCEPT !.migrate = "emptied"]
Garbled == [Absent EXCEPT !.migrate = "garbled"]
Down == [driver |-> Nothing, migrate |-> "off"]
Idle == [do |-> Nothing, at |-> "idle", who |-> Bootstrap, on |-> Nothing, fresh |-> FALSE]
NoCall == [in |-> Nothing, tool |-> Nothing, status |-> Nothing, runs |-> 0]

TypeOK ==
  /\ UpgradeTypeOK
  /\ env \in Environments
  /\ file \in Settings \cup {Absent, Emptied, Garbled}
  /\ config \in [driver : Drivers, migrate : Flags] \cup {Down}
  /\ runner[Server].at # "out" => config # Down /\ runner[Server].db = config.driver
  /\ admins \in [Databases -> SUBSET (Names \X BOOLEAN)]
  /\ \A d \in Databases : \A x, y \in admins[d] : x[1] = y[1] => x = y
  /\ talks \in [Databases -> [Conversations -> Names \cup {Bootstrap, Nothing}]]
  /\ calls \in [Databases -> [ToolCalls ->
       [in : Conversations \cup {Nothing}, tool : Tools \cup {Nothing},
        status : CallStatuses \cup {Nothing}, runs : 0..MaxRequests]]]
  /\ \A h \in Handlers : handler[h].do \in Operations => config # Down
  /\ asked \in 0..MaxRequests

Installed(v) == \A d \in Databases : schema[d][v] # <<>>

(* A new deployment, or one that has an administrator or a conversation.    *)
Init ==
  /\ UpgradeInit
  /\ env \in Environments
  /\ file = Absent
  /\ config = Down
  /\ \E A \in {{}, Names}, o \in Names \cup {Bootstrap, Nothing} :
       /\ A # {} => Installed(UsersVersion)
       /\ o # Nothing => Installed(AssistantVersion)
       /\ o \in Names => A # {}
       /\ admins = [d \in Databases |-> A \X {TRUE}]
       /\ talks = [d \in Databases |-> [c \in Conversations |-> o]]
  /\ calls = [d \in Databases |-> [k \in ToolCalls |-> NoCall]]
  /\ handler = [h \in Handlers |-> Idle]
  /\ asked = 0

-----------------------------------------------------------------------------
(* Configuration and start *)

Readable(x) == x \in Settings \cup {Absent}

(* The settings a file contributes: none when it cannot be decoded. *)
LoadFile(x) == IF Readable(x) THEN x ELSE Absent

Choose(first, second, default) ==
  IF first # Unset THEN first ELSE IF second # Unset THEN second ELSE default

(* config.Load: the environment, then the file, then defaults. *)
LoadConfig(e, x) ==
  LET f == LoadFile(x)
      url == e.url \/ f.url
      driver == Choose(e.driver, f.driver, IF url THEN "postgres" ELSE "sqlite")
  IN [driver |-> driver, url |-> url,
      migrate |-> Choose(e.migrate, f.migrate, IF driver = "sqlite" THEN "on" ELSE "off")]

(* The pool opens: a Postgres one needs an address. *)
CanOpen(c) == c.driver \in Databases /\ (c.driver = "postgres" => c.url)

(* The server starts; a release whose versions it does not apply by itself  *)
(* is left to the upgrade command.                                          *)
StartServer ==
  LET c == LoadConfig(env, file) IN
  /\ config = Down
  /\ CanOpen(c)
  /\ config' = [driver |-> c.driver, migrate |-> c.migrate]
  /\ IF c.migrate = "on" THEN \E f \in Releases : Up(Server, c.driver, f) ELSE UNCHANGED upgradeVars
  /\ UNCHANGED <<env, file, admins, talks, calls, handler, asked>>

(* The upgrade command, on the database of its own configuration.           *)
RunUpgradeCommand ==
  /\ CanOpen(LoadConfig(env, file))
  /\ \E r \in Runners \ {Server}, f \in Releases : Up(r, LoadConfig(env, file).driver, f)
  /\ UNCHANGED servingVars

Upgrading ==
  /\ \E r \in Runners : RunnerStep(r) \/ (r # Server /\ Exit(r))
  /\ UNCHANGED servingVars

(* The server ends: an upgrade that failed, a signal, a crash.              *)
StopServer ==
  /\ config # Down
  /\ config' = Down
  /\ handler' = [h \in Handlers |-> Idle]
  /\ IF runner[Server].at = "out" THEN UNCHANGED upgradeVars ELSE Exit(Server)
  /\ UNCHANGED <<env, file, admins, talks, calls, asked>>

(* Variant: the server listens while its upgrade still runs. *)
Listening == config # Down

Serving == config # Down /\ (config.migrate = "on" => runner[Server].at = "up")

-----------------------------------------------------------------------------
(* Requests.  The tables a call needs must be there. *)

DB == config.driver
Has(v) == schema[DB][v] # <<>>
Accounts == {x[1] : x \in admins[DB]}

Goto(h, l) == handler' = [handler EXCEPT ![h].at = l]
Finish(h) == handler' = [handler EXCEPT ![h] = Idle]

(* CountUsers, and resolving the account of an administrator. *)
NoUsers == Has(UsersVersion) /\ admins[DB] = {}
IsAdmin(u) == Has(UsersVersion) /\ u \in Accounts

Arrive(h, op, at, who, on) ==
  /\ asked' = asked + 1
  /\ handler' = [handler EXCEPT ![h] = [do |-> op, at |-> at, who |-> who, on |-> on, fresh |-> admins[DB] = {}]]
  /\ UNCHANGED <<upgradeVars, env, file, config, admins, talks, calls>>

(* POST /bootstrap/admin *)
BootstrapRequest(h) == \E n \in Names : Arrive(h, "BootstrapCreateAdmin", "count", Bootstrap, n)

(* An address is required for Postgres and dropped for SQLite.              *)
Accepted(x) == x.driver = "postgres" => x.url

NormalizeUpdate(x) ==
  LET driver == Choose(x.driver, Unset, "sqlite") IN
  [driver |-> driver, url |-> driver = "postgres",
   migrate |-> Choose(x.migrate, Unset, IF driver = "sqlite" THEN "on" ELSE "off")]

(* PUT /admin/runtime-config, once the settings are accepted. *)
PutRequest(h) ==
  \E u \in Names, x \in Inputs : IsAdmin(u) /\ Accepted(x) /\ Arrive(h, "Save", "open", u, NormalizeUpdate(x))

(* The assistant: of the bootstrap while there is no user, of an            *)
(* administrator afterwards.                                                *)
Scope(who) == IF who = Bootstrap THEN NoUsers ELSE IsAdmin(who)

AssistantRequest(h) ==
  \E u \in Names \cup {Bootstrap} :
    /\ Scope(u)
    /\ \/ \E c \in Conversations : Arrive(h, "CreateConversation", "call", u, c)
       \/ \E c \in Conversations : Arrive(h, "SendMessage", "context", u, c)
       \/ \E k \in ToolCalls : Arrive(h, "ConfirmToolCall", "call", u, k)

Request(h) ==
  /\ Serving
  /\ handler[h] = Idle
  /\ asked < MaxRequests
  /\ BootstrapRequest(h) \/ PutRequest(h) \/ AssistantRequest(h)

(* An error, a refusal, or the context of the client cancelled. *)
Fail(h) ==
  /\ handler[h] # Idle
  /\ Finish(h)
  /\ UNCHANGED <<upgradeVars, env, file, config, admins, talks, calls, asked>>

-----------------------------------------------------------------------------
(* Creating the first administrator *)

(* Variant: the users are not counted. *)
SkipCount(h) ==
  /\ handler[h].at = "count"
  /\ Goto(h, "create")
  /\ UNCHANGED <<upgradeVars, env, file, config, admins, talks, calls, asked>>

CountUsers(h) ==
  /\ handler[h].at = "count"
  /\ NoUsers
  /\ Goto(h, "create")
  /\ UNCHANGED <<upgradeVars, env, file, config, admins, talks, calls, asked>>

(* The row, unless the username is taken; then the request is over, or goes *)
(* on as the tool call it is part of.                                       *)
CreateAdmin(h) ==
  /\ handler[h].at = "create"
  /\ IF handler[h].do = "ConfirmToolCall"
     THEN \E n \in Names \ Accounts :
            /\ admins' = [admins EXCEPT ![DB] = @ \cup {<<n, handler[h].fresh>>}]
            /\ calls' = [calls EXCEPT ![DB][handler[h].on].runs = @ + 1]
            /\ Goto(h, "ran")
     ELSE /\ handler[h].on \notin Accounts
          /\ admins' = [admins EXCEPT ![DB] = @ \cup {<<handler[h].on, handler[h].fresh>>}]
          /\ Finish(h)
          /\ UNCHANGED calls
  /\ UNCHANGED <<upgradeVars, env, file, config, talks, asked>>

-----------------------------------------------------------------------------
(* runtime.json *)

(* os.WriteFile opens with truncation ...                                   *)
TruncateFile(h) ==
  /\ handler[h].at = "open"
  /\ file' = Emptied
  /\ Goto(h, "write")
  /\ UNCHANGED <<upgradeVars, env, config, admins, talks, calls, asked>>

(* ... and writes from the start: over what another save wrote meanwhile,   *)
(* the tail of a longer one stays.                                          *)
WriteFile(h, x) ==
  /\ handler[h].at = "write"
  /\ file' \in IF file \in {Emptied, x} THEN {x} ELSE {x, Garbled}
  /\ IF handler[h].do = "Save"
     THEN x = handler[h].on /\ Finish(h) /\ UNCHANGED calls
     ELSE calls' = [calls EXCEPT ![DB][handler[h].on].runs = @ + 1] /\ Goto(h, "ran")
  /\ UNCHANGED <<upgradeVars, env, config, admins, talks, asked>>

SaveConfig(h) == \E x \in Inputs : Accepted(x) /\ WriteFile(h, NormalizeUpdate(x))

-----------------------------------------------------------------------------
(* The assistant *)

AllowedTools(owner) ==
  {"inspect_runtime_config"} \cup (IF owner = Bootstrap THEN {"bootstrap_create_admin"} ELSE {"save_runtime_config"})

(* ensureConversationAccess: the scope, and the owner of an admin's.        *)
MayUse(h, c) == talks[DB][c] = handler[h].who

CreateConversation(h) ==
  LET c == handler[h].on IN
  /\ handler[h].do = "CreateConversation"
  /\ Has(AssistantVersion)
  /\ talks[DB][c] = Nothing
  /\ talks' = [talks EXCEPT ![DB][c] = handler[h].who]
  /\ Finish(h)
  /\ UNCHANGED <<upgradeVars, env, file, config, admins, calls, asked>>

(* SendMessage: the conversation and the context, for which runtime.json    *)
(* must be readable; the message is stored and an answer planned ...        *)
BuildContext(h) ==
  /\ handler[h].do = "SendMessage" /\ handler[h].at = "context"
  /\ Has(AssistantVersion) /\ Has(UsersVersion)
  /\ MayUse(h, handler[h].on)
  /\ Readable(file)
  /\ Goto(h, "plan")
  /\ UNCHANGED <<upgradeVars, env, file, config, admins, talks, calls, asked>>

(* ... which may propose one tool of the scope, to be confirmed.            *)
ProposeTool(h) ==
  LET c == handler[h].on IN
  /\ handler[h].do = "SendMessage" /\ handler[h].at = "plan"
  /\ \E k \in ToolCalls, t \in AllowedTools(talks[DB][c]) :
       /\ calls[DB][k] = NoCall
       /\ calls' = [calls EXCEPT ![DB][k] = [in |-> c, tool |-> t, status |-> "pending_confirmation", runs |-> 0]]
  /\ Finish(h)
  /\ UNCHANGED <<upgradeVars, env, file, config, admins, talks, asked>>

(* ConfirmToolCall: the call is read ... *)
ReadToolCall(h) ==
  LET k == handler[h].on IN
  /\ handler[h].do = "ConfirmToolCall" /\ handler[h].at = "call"
  /\ Has(AssistantVersion)
  /\ calls[DB][k].status = "pending_confirmation"
  /\ MayUse(h, calls[DB][k].in)
  /\ Goto(h, "confirm")
  /\ UNCHANGED <<upgradeVars, env, file, config, admins, talks, calls, asked>>

FirstOf(tool) ==
  CASE tool = "bootstrap_create_admin" -> "count"
    [] tool = "save_runtime_config" -> "open"
    [] OTHER -> "inspect"

(* Variant: the tool starts before the row says so. *)
RunFirst(h) ==
  /\ handler[h].do = "ConfirmToolCall" /\ handler[h].at = "confirm"
  /\ Goto(h, FirstOf(calls[DB][handler[h].on].tool))
  /\ UNCHANGED <<upgradeVars, env, file, config, admins, talks, calls, asked>>

(* ... marked as running, whatever it is by now, and its tool starts ...    *)
MarkRunning(h) ==
  LET k == handler[h].on IN
  /\ handler[h].do = "ConfirmToolCall" /\ handler[h].at = "confirm"
  /\ calls' = [calls EXCEPT ![DB][k].status = "running"]
  /\ Goto(h, FirstOf(calls[DB][k].tool))
  /\ UNCHANGED <<upgradeVars, env, file, config, admins, talks, asked>>

Inspect(h) ==
  /\ handler[h].at = "inspect"
  /\ Readable(file)
  /\ calls' = [calls EXCEPT ![DB][handler[h].on].runs = @ + 1]
  /\ Goto(h, "ran")
  /\ UNCHANGED <<upgradeVars, env, file, config, admins, talks, asked>>

(* ... and its outcome is stored; an error of the tool is an outcome too.   *)
StoreOutcome(h) ==
  LET k == handler[h].on IN
  /\ handler[h].do = "ConfirmToolCall"
  /\ handler[h].at \in {"count", "create", "open", "write", "inspect", "ran"}
  /\ calls' = [calls EXCEPT ![DB][k].status = IF handler[h].at = "ran" THEN "succeeded" ELSE "failed"]
  /\ Finish(h)
  /\ UNCHANGED <<upgradeVars, env, file, config, admins, talks, asked>>

-----------------------------------------------------------------------------

HandlerStep(h) ==
  \/ Request(h) \/ Fail(h) \/ CountUsers(h) \/ CreateAdmin(h) \/ TruncateFile(h) \/ SaveConfig(h)
  \/ CreateConversation(h) \/ BuildContext(h) \/ ProposeTool(h)
  \/ ReadToolCall(h) \/ MarkRunning(h) \/ Inspect(h) \/ StoreOutcome(h)

Next == StartServer \/ RunUpgradeCommand \/ Upgrading \/ StopServer \/ (\E h \in Handlers : HandlerStep(h))

Spec == Init /\ [][Next]_vars

-----------------------------------------------------------------------------
(* Properties *)

(* An administrator is made by the bootstrap only at the request of someone *)
(* who found a database without users when the request came in.             *)
NoLateAdmin == \A d \in Databases : \A x \in admins[d] : x[2]

(* A server that upgrades its own database listens only afterwards: as long *)
(* as a request is under way, the database it works on has every version of *)
(* the server's release, with the release's content, whatever the upgrade   *)
(* command does meanwhile.  Without automatic upgrades nothing is promised. *)
RequestsMeetRelease ==
  config.migrate = "on" /\ (\E h \in Handlers : handler[h] # Idle) =>
    /\ runner[Server].files \in Releases
    /\ \A v \in 1..Len(runner[Server].files) : schema[DB][v] = <<runner[Server].files[v]>>

(* While a tool call awaits its confirmation its tool has not run: not by a *)
(* request that died, a second confirmation, or a server since restarted.   *)
PendingHasNotRun ==
  \A d \in Databases, k \in ToolCalls : calls[d][k].status = "pending_confirmation" => calls[d][k].runs = 0

=============================================================================
