---------------------------- MODULE ToolGateway ----------------------------
(***************************************************************************)
(* The tools an agent has: the MCP servers it starts with                  *)
(* (tools/manager.py), the gateway through which it adds and removes       *)
(* others (tools/gateway.py, gateway_tools.py), and the tools it writes    *)
(* itself (tools/dynamic.py, dynamic_tools.py).                            *)
(*                                                                         *)
(* The management tools are functions that langchain runs in threads; the  *)
(* gateway is made by the first call that needs it, with no lock.  Nothing *)
(* calls MCPGateway.start or get_tools: the gateway knows no static server *)
(* and what a reload loads is seen by nobody.                              *)
(***************************************************************************)
EXTENDS Integers, FiniteSets

CONSTANTS
    Manager,    \* threads that manage servers
    Static,     \* the servers of mcp_servers.py
    Dynamic,    \* names of servers that can be added
    Config,     \* their configurations
    Missing,    \* no configuration, no gateway
    Made,       \* names of tools the agent writes
    MaxChanges  \* bound: management calls begun

ASSUME GatewayAssumption == Missing \notin Manager \cup Dynamic \cup Config

VARIABLES
    registry,    \* mcp_registry.db
    gateway,     \* _gateway: the thread that made it, or Missing
    memory,      \* memory[t]: _dynamic_config of the gateway t made
    reloaded,    \* _tools of the gateway: the servers they are from
    manage,      \* manage[t]: the call of thread t and the gateway it uses
    toolFiles,   \* the tools of Made that have a file
    agentTools,  \* the servers and files whose tools the running agent has
    overlapped,  \* history: since the start, a call began that another could upset
    changes

gatewayVars == <<registry, gateway, memory, reloaded, manage, toolFiles, agentTools,
                 overlapped, changes>>

NoManage == [pc |-> "idle", name |-> Missing, config |-> Missing, uses |-> Missing,
             loads |-> {}]
Blank == [n \in Dynamic |-> Missing]
Named(config) == {n \in Dynamic : config[n] # Missing}

GatewayInit ==
    /\ registry = Blank
    /\ gateway = Missing
    /\ memory = [t \in Manager |-> Blank]
    /\ reloaded = {}
    /\ manage = [t \in Manager |-> NoManage]
    /\ toolFiles = {}
    /\ agentTools \in SUBSET Static
    /\ overlapped = FALSE
    /\ changes = 0

-----------------------------------------------------------------------------
(* Adding and removing servers.  An added server has a configuration, a      *)
(* removed one gets none.                                                    *)

\* A call begins with the gateway, or has to make it.
GetGateway(t) ==
    /\ manage[t].pc = "idle"
    /\ changes < MaxChanges
    /\ changes' = changes + 1
    /\ \E n \in Dynamic, c \in Config \cup {Missing} :
          /\ manage' = [manage EXCEPT ![t] =
                [NoManage EXCEPT !.pc = IF gateway = Missing THEN "making" ELSE "writing",
                                 !.name = n, !.config = c, !.uses = gateway]]
          /\ overlapped' = (overlapped \/ \E u \in Manager \ {t} :
                /\ manage[u].pc \in {"making", "made", "writing", "written"}
                /\ manage[u].name = n \/ manage[u].pc \in {"making", "made"})
    /\ UNCHANGED <<registry, gateway, memory, reloaded, toolFiles, agentTools>>

\* MCPGateway(): reads the registry, ...
MakeGateway(t) ==
    /\ manage[t].pc = "making"
    /\ memory' = [memory EXCEPT ![t] = registry]
    /\ manage' = [manage EXCEPT ![t].pc = "made"]
    /\ UNCHANGED <<registry, gateway, reloaded, toolFiles, agentTools, overlapped, changes>>

\* ... and becomes the gateway, in place of one that another thread made.
PutGateway(t) ==
    /\ manage[t].pc = "made"
    /\ gateway' = t
    /\ reloaded' = {}
    /\ manage' = [manage EXCEPT ![t].pc = "writing", ![t].uses = t]
    /\ UNCHANGED <<registry, memory, toolFiles, agentTools, overlapped, changes>>

\* Mutant: a removal reaches the memory only.
WriteRegistryAdds(t) ==
    LET m == manage[t] IN
    /\ m.pc = "writing"
    /\ registry' = IF m.config = Missing THEN registry
                   ELSE [registry EXCEPT ![m.name] = m.config]
    /\ manage' = [manage EXCEPT ![t].pc = "written"]
    /\ UNCHANGED <<gateway, memory, reloaded, toolFiles, agentTools, overlapped, changes>>

\* The registry is committed first, ...
WriteRegistry(t) ==
    LET m == manage[t] IN
    /\ m.pc = "writing"
    /\ registry' = [registry EXCEPT ![m.name] = m.config]
    /\ manage' = [manage EXCEPT ![t].pc = "written"]
    /\ UNCHANGED <<gateway, memory, reloaded, toolFiles, agentTools, overlapped, changes>>

\* ... then the memory of the gateway this call got.
WriteMemory(t) ==
    LET m == manage[t] IN
    /\ m.pc = "written"
    /\ memory' = [memory EXCEPT ![m.uses][m.name] = m.config]
    /\ manage' = [manage EXCEPT ![t] = NoManage]
    /\ UNCHANGED <<registry, gateway, reloaded, toolFiles, agentTools, overlapped, changes>>

-----------------------------------------------------------------------------
(* Reloading. *)

\* All servers in memory are connected; with none, nothing happens.
Reload(t) ==
    /\ manage[t].pc = "idle" /\ gateway # Missing
    /\ changes < MaxChanges
    /\ changes' = changes + 1
    /\ Named(memory[gateway]) # {}
    /\ manage' = [manage EXCEPT ![t] = [NoManage EXCEPT
                    !.pc = "loading", !.loads = Named(memory[gateway])]]
    /\ UNCHANGED <<registry, gateway, memory, reloaded, toolFiles, agentTools, overlapped>>

\* The tools of those servers, or an error and the tools as they were.
Reloaded(t) ==
    /\ manage[t].pc = "loading"
    /\ reloaded' \in {reloaded, manage[t].loads}
    /\ manage' = [manage EXCEPT ![t] = NoManage]
    /\ UNCHANGED <<registry, gateway, memory, toolFiles, agentTools, overlapped, changes>>

-----------------------------------------------------------------------------
(* Tools the agent writes, and restarts. *)

\* A tool that passes validate_code, where a sandbox is ready or not required,
\* is written to a file; the running agent does not get it.
CreateTool ==
    \E m \in Made \ toolFiles :
        /\ toolFiles' = toolFiles \cup {m}
        /\ UNCHANGED <<registry, gateway, memory, reloaded, manage, agentTools, overlapped,
                       changes>>

\* validate_code: a file that a killed process left half written may not pass it
\* again, nor one whose description ends its own header.
Valid(files) == SUBSET files

\* load_persisted_tools: without a sandbox where one is required, none is loaded.
Persisted == Valid(toolFiles) \cup {{}}

\* The process starts, and each static server loads or is skipped.
GatewayRestart ==
    /\ \E servers \in SUBSET Static, tools \in Persisted : agentTools' = servers \cup tools
    /\ gateway' = Missing
    /\ memory' = [t \in Manager |-> Blank]
    /\ reloaded' = {}
    /\ manage' = [t \in Manager |-> NoManage]
    /\ overlapped' = FALSE
    /\ UNCHANGED <<registry, toolFiles, changes>>

GatewayNext ==
    \/ \E t \in Manager :
          \/ GetGateway(t) \/ MakeGateway(t) \/ PutGateway(t)
          \/ WriteRegistry(t) \/ WriteMemory(t)
          \/ Reload(t) \/ Reloaded(t)
    \/ CreateTool
    \/ GatewayRestart

GatewaySpec == GatewayInit /\ [][GatewayNext]_gatewayVars

-----------------------------------------------------------------------------

\* The servers the gateway knows are those it will know after a restart, for
\* every name no call is about: unless two calls about one server overlapped, or
\* one came while another was still making the gateway.
MemoryIsRegistry ==
    (~overlapped /\ gateway # Missing) =>
        \A n \in Dynamic :
            (\A t \in Manager : manage[t].name # n) =>
                memory[gateway][n] = registry[n]

=============================================================================
