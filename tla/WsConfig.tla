------------------------------ MODULE WsConfig ------------------------------
(***************************************************************************)
(* What a client is made of: esp_websocket_client_init with set_uri and    *)
(* set_config, the creation of the transports in start, append_header, and *)
(* what destroy and an init that fails give back.  Any allocation may      *)
(* fail.  A call is a plan of steps; the value of an option is where it    *)
(* came from.                                                              *)
(*                                                                         *)
(* Numbers and pointers that are only copied or defaulted are left out     *)
(* (WsKeepAlive has the times); asprintf leaves NULL when it fails, which  *)
(* is what its callers test; no two calls for a client overlap, as the     *)
(* header asks.                                                            *)
(***************************************************************************)
EXTENDS Naturals, Sequences

CONSTANTS
  Givable,        \* options the application may give in its configuration
  Uris            \* what a URI may have: sets of parts

Parts   == {"scheme", "host", "path", "port", "password", "username"}
Options == Parts \cup {"uri", "subprotocol", "user_agent", "headers"}

ASSUME GivableOptions == Givable \subseteq (Options \ {"uri"}) \cup {"if_name", "ext_transport"}
\* A user without a password there may be, a password without a user not.
ASSUME UriParts ==
  \A u \in Uris : /\ u \subseteq Parts /\ {"scheme", "host"} \subseteq u
                  /\ "password" \in u => "username" \in u

VARIABLES
  client,         \* none, making, fresh (from init), ready or running
  call,           \* the call in progress: none, init, set_uri or start ...
  at,             \* ... and its step
  given,          \* what the configuration gives
  parts,          \* what the URI at hand has: of config->uri, or given to set_uri
  again,          \* that URI was given to set_uri
  cfg,            \* of each option of client->config, where it came from
  auth,           \* whose user and password client->config->auth has
  held,           \* everything else that init allocated
  lost,           \* what was allocated and can no longer be freed
  short,          \* an allocation has failed for this client
  transport,      \* client->transport: none, ext or list
  list            \* client->transport_list: none, part or whole

inputs == <<given, parts, again>>
store  == <<cfg, auth, held, lost, short>>
conn   == <<transport, list>>
vars   == <<client, call, at, given, parts, again, cfg, auth, held, lost, short,
            transport, list>>

External == "ext_transport" \in given

Nothing == [o \in Options |-> "none"]
NoAuth  == <<"none", "none">>

Init ==
  /\ client = "none" /\ call = "none" /\ at = 0
  /\ given = {} /\ parts = {} /\ again = FALSE
  /\ cfg = Nothing /\ auth = NoAuth /\ held = {} /\ lost = {} /\ short = FALSE
  /\ transport = "none" /\ list = "none"

-----------------------------------------------------------------------------
(* The calls as plans of steps                                             *)

\* esp_websocket_client_set_uri
UriPlan == <<
  <<"check", "uri">>, <<"uri", "scheme">>, <<"uri", "host">>, <<"uri", "path">>, <<"uri", "port">>,
  <<"user_info", "">>, <<"uri", "password">>, <<"uri", "username">>, <<"free", "">> >>

\* esp_websocket_client_set_config
ConfigPlan_AuthFirst == <<      \* mutant: auth before the password is known
  <<"config", "host">>, <<"config", "port">>, <<"config", "username">>, <<"auth", "">>,
  <<"config", "password">>, <<"config", "uri">>, <<"config", "path">>,
  <<"config", "subprotocol">>, <<"config", "user_agent">>, <<"config", "headers">> >>
ConfigPlan == <<
  <<"config", "host">>, <<"config", "port">>, <<"config", "username">>,
  <<"config", "password">>, <<"auth", "">>, <<"config", "uri">>, <<"config", "path">>,
  <<"config", "subprotocol">>, <<"config", "user_agent">>, <<"config", "headers">> >>

InitPlan ==
  << <<"take", "loop">>, <<"take", "if_name">>, <<"take", "lock">>, <<"take", "config">>,
     <<"config", "scheme">>, <<"check", "names">> >> \o UriPlan \o ConfigPlan \o
  << <<"default", "scheme">>, <<"take", "rx_buffer">>, <<"take", "tx_buffer">>,
     <<"take", "status_bits">> >>

\* esp_websocket_client_start: create_transport, the task, and what it does first
StartPlan == <<
  <<"list", "">>, <<"tcp", "">>, <<"ws", "">>, <<"task", "">> >>

Plan == CASE call = "init" -> InitPlan [] call = "set_uri" -> UriPlan
          [] call = "start" -> StartPlan [] OTHER -> << <<"", "">> >>

Now(kind) == call # "none" /\ Plan[at][1] = kind
What == Plan[at][2]

After == CASE call = "init" -> "fresh" [] call = "start" -> "running" [] OTHER -> "ready"

\* On to the next step, or back to the application.
Proceed ==
  IF at < Len(Plan) THEN at' = at + 1 /\ UNCHANGED <<client, call>>
  ELSE at' = 0 /\ call' = "none" /\ client' = After

\* esp_websocket_client_destroy_config.
FreedStrings_KeepsScheme ==     \* mutant: the scheme is not freed
  {"host", "uri", "path", "username", "password", "subprotocol", "user_agent", "headers"}
FreedStrings ==
  {"host", "uri", "path", "scheme", "username", "password", "subprotocol",
   "user_agent", "headers"}

Unfreed == {o \in Options \ FreedStrings : cfg[o] # "none"} \ {"port"}

\* destroy_and_free_resources.
Released ==
  {"loop", "if_name", "config", "lock", "tx_buffer", "rx_buffer", "status_bits"}

Gone ==
  /\ client' = "none" /\ call' = "none" /\ at' = 0
  /\ cfg' = Nothing /\ auth' = NoAuth
  /\ transport' = "none" /\ list' = "none"

Destroyed(leak) ==
  /\ Gone
  /\ held' = held \ Released /\ lost' = lost \cup leak \cup Unfreed

\* vSemaphoreDelete stops the program in an assertion if there is no lock; it
\* starts anew.
Restarted == Gone /\ held' = {} /\ lost' = {}

\* The error paths: init destroys the client, if there is one; the others return.
GivesUp(leak) ==
  /\ UNCHANGED inputs
  /\ IF call = "init"
     THEN IF held = {} \/ "lock" \in held THEN Destroyed(leak) ELSE Restarted
     ELSE /\ at' = 0 /\ call' = "none" /\ client' = "ready"
          /\ lost' = lost \cup leak
          /\ UNCHANGED <<cfg, auth, held, conn>>

NoMemory == short' = TRUE /\ GivesUp({})

-----------------------------------------------------------------------------
(* The steps of a plan                                                     *)

\* esp_event_loop_create, calloc, malloc, xSemaphoreCreate..., xEventGroupCreate.
Needed == What = "if_name" => "if_name" \in given

Take ==
  /\ Now("take")
  /\ held' = IF Needed THEN held \cup {What} ELSE held
  /\ Proceed /\ UNCHANGED <<inputs, cfg, auth, lost, short, conn>>

TakeFails == Now("take") /\ Needed /\ NoMemory

\* cert_common_name and skip_cert_common_name_check are both given, or not; the
\* URI cannot be parsed, or can.
Check == Now("check") /\ Proceed /\ UNCHANGED <<inputs, store, conn>>
CheckFails ==
  Now("check") /\ (What = "uri" => parts # {}) /\ GivesUp({}) /\ UNCHANGED short

\* The URI replaces an option if it has it; the configuration does, if it gives it.
Source == IF again THEN "new" ELSE "uri"

Has == \/ Now("uri") /\ What \in parts
       \/ Now("config") /\ What \in given
       \/ Now("default") /\ cfg[What] = "none"

Origin == CASE Now("uri") -> Source [] Now("config") -> "config" [] OTHER -> "default"

\* All but the host are freed before.
Leaks == IF Now("config") /\ What = "host" /\ cfg["host"] # "none" THEN {"host"} ELSE {}

SetOption ==
  /\ Has
  /\ cfg' = [cfg EXCEPT ![What] = Origin] /\ lost' = lost \cup Leaks
  /\ Proceed /\ UNCHANGED <<inputs, auth, held, short, conn>>

\* strdup or asprintf fails; a port is a number.  The copy of the user and
\* password is not freed on this path.
UserInfoLeaks == IF Now("uri") /\ What \in {"password", "username"} THEN {"user_info"} ELSE {}

OptionFails ==
  /\ Has /\ What # "port"
  /\ short' = TRUE
  /\ IF call = "init" THEN GivesUp(Leaks \cup UserInfoLeaks)
     ELSE /\ cfg' = [cfg EXCEPT ![What] = "none"]
          /\ lost' = lost \cup UserInfoLeaks
          /\ at' = 0 /\ call' = "none" /\ client' = "ready"
          /\ UNCHANGED <<inputs, auth, held, conn>>

Pass ==
  /\ Now("uri") \/ Now("config") \/ Now("default")
  /\ ~Has
  /\ Proceed /\ UNCHANGED <<inputs, store, conn>>

\* user_info is copied, split, and freed.
UserInfo ==
  /\ Now("user_info") \/ Now("free")
  /\ Proceed /\ UNCHANGED <<inputs, store, conn>>

UserInfoFails == Now("user_info") /\ "username" \in parts /\ NoMemory

\* http_auth_basic.
Credentials_Either ==           \* mutant: || for &&
  cfg["username"] # "none" \/ cfg["password"] # "none"
Credentials == cfg["username"] # "none" /\ cfg["password"] # "none"

MakeAuth ==
  /\ Now("auth")
  /\ auth' = IF Credentials THEN <<cfg["username"], cfg["password"]>> ELSE auth
  /\ Proceed /\ UNCHANGED <<inputs, cfg, held, lost, short, conn>>

AuthFails == Now("auth") /\ Credentials /\ NoMemory

\* create_transport: the list with its two transports, or none at all with an
\* external transport.
BuildList ==
  /\ Now("list") \/ Now("tcp") \/ Now("ws")
  /\ External \/ cfg["scheme"] # "none"
  /\ list' = IF External THEN list ELSE IF Now("ws") THEN "whole" ELSE "part"
  /\ Proceed /\ UNCHANGED <<inputs, store, transport>>

\* There is no scheme, or one it does not know, or no memory, or the settings
\* are refused.
BuildFails ==
  /\ ~External
  /\ \/ Now("list") /\ cfg["scheme"] = "none" /\ UNCHANGED list
     \/ Now("list") /\ cfg["scheme"] # "none" /\ list' \in {"none", "part"}
     \/ (Now("tcp") \/ Now("ws")) /\ UNCHANGED list
  /\ at' = 0 /\ call' = "none" /\ client' = "ready"
  /\ UNCHANGED <<inputs, store, transport>>

\* xTaskCreate; the task takes its transport from the list, and its default port.
BeginTask ==
  /\ Now("task")
  /\ transport' = IF External THEN "ext" ELSE "list"
  /\ cfg' = [cfg EXCEPT !["port"] = IF @ = "none" THEN "default" ELSE @]
  /\ Proceed /\ UNCHANGED <<inputs, auth, held, lost, short, list>>

TaskFails == Now("task") /\ GivesUp({}) /\ UNCHANGED short

Step ==
  \/ Take \/ TakeFails \/ Check \/ CheckFails \/ SetOption \/ OptionFails \/ Pass
  \/ UserInfo \/ UserInfoFails \/ MakeAuth \/ AuthFails \/ BuildList \/ BuildFails
  \/ BeginTask \/ TaskFails

-----------------------------------------------------------------------------
(* The application                                                         *)

Begin(name) == call' = name /\ at' = 1

CallInit ==
  /\ client = "none" /\ call = "none"
  /\ parts' \in Uris \cup {{}} /\ again' = FALSE
  /\ \E g \in SUBSET Givable : given' = g \cup IF parts' # {} THEN {"uri"} ELSE {}
  /\ client' = "making" /\ Begin("init")
  /\ lost' = {} /\ short' = FALSE /\ held' = {}
  /\ UNCHANGED <<cfg, auth, conn>>

Stopped == client \in {"fresh", "ready"} /\ call = "none"

CallSetUri ==
  /\ Stopped
  /\ parts' \in Uris /\ again' = TRUE
  /\ client' = "ready" /\ Begin("set_uri")
  /\ UNCHANGED <<given, store, conn>>

AppendHeader ==
  /\ Stopped
  /\ cfg' = [cfg EXCEPT !["headers"] = "appended"]
  /\ client' = "ready"
  /\ UNCHANGED <<call, at, inputs, auth, held, lost, short, conn>>

CallStart_KeepsTransport ==     \* mutant: the old transport is kept
  /\ Stopped
  /\ client' = "ready" /\ Begin("start")
  /\ UNCHANGED <<inputs, store, conn>>

CallStart ==
  /\ Stopped
  /\ transport' = IF External THEN "ext" ELSE "none"
  /\ client' = "ready" /\ Begin("start")
  /\ UNCHANGED <<inputs, store, list>>

Stop ==
  /\ client = "running"
  /\ client' = "ready"
  /\ UNCHANGED <<call, at, inputs, store, conn>>

Destroy ==
  /\ Stopped \/ client = "running"
  /\ Destroyed({})
  /\ UNCHANGED <<inputs, short>>

Next ==
  \/ Step
  \/ CallInit \/ CallSetUri \/ AppendHeader \/ CallStart \/ Stop \/ Destroy

Spec == Init /\ [][Next]_vars

-----------------------------------------------------------------------------
(* Properties                                                              *)

CallOK ==
  /\ client \in {"none", "making", "fresh", "ready", "running"}
  /\ call \in {"none", "init", "set_uri", "start"}
  /\ (client = "making") = (call = "init")
  /\ call \in {"set_uri", "start"} => client = "ready"
  /\ IF call = "none" THEN at = 0 ELSE at \in 1..Len(Plan)

Origins == {"uri", "new", "config", "default", "appended"}

StoreOK ==
  /\ given \subseteq Givable \cup {"uri"} /\ parts \in Uris \cup {{}} /\ again \in BOOLEAN
  /\ cfg \in [Options -> {"none"} \cup Origins]
  /\ auth \in {NoAuth} \cup Origins \X Origins
  /\ held \subseteq Released /\ lost \subseteq Options \cup {"user_info"}
  /\ short \in BOOLEAN
  /\ transport \in {"none", "ext", "list"} /\ list \in {"none", "part", "whole"}

\* Every variable has its type; a call in progress is at a step of its plan.
TypeOK == CallOK /\ StoreOK

\* Whatever fails, and wherever: a client that is gone has given back all that
\* was allocated for it, but for the host of a URI that a configured host
\* replaced (set_config does not free it) and, when memory ran out, the copy of
\* the user and password.
NothingLost ==
  /\ client = "none" => held = {}
  /\ lost \subseteq {"host", "user_info"}
  /\ "host" \in lost => "host" \in given
  /\ "user_info" \in lost => short

\* A client that init has made: a configured value wins over the URI's, but for
\* the scheme, where the URI wins and "ws" is the default; the authentication is
\* that of the user and password it ended with, not of a source it lost.  That is
\* the order of the calls in init; the header promises another (UriOverrides).
Merged ==
  client = "fresh" =>
    /\ \A o \in Options \ {"scheme"} :
         cfg[o] = CASE o \in given -> "config" [] o \in parts \ given -> "uri"
                    [] OTHER -> "none"
    /\ cfg["scheme"] = CASE "scheme" \in parts -> "uri"
                         [] "scheme" \in given \ parts -> "config" [] OTHER -> "default"
    /\ auth = IF {"username", "password"} \subseteq given \cup parts
              THEN <<cfg["username"], cfg["password"]>> ELSE NoAuth

\* What the header says of the member uri: "the information on the URI can be
\* overrides the other fields below, if any".  Of what a URI has, init takes
\* nothing from the fields.
UriOverrides == client = "fresh" => \A o \in parts : cfg[o] = "uri"

\* client->transport never points into a list that is destroyed or half made,
\* and a client that runs has a transport and an address to dial.
TransportLives ==
  /\ transport = "list" => list = "whole"
  /\ client = "running" => transport # "none" /\ cfg["port"] # "none"

=============================================================================
