------------------------------ MODULE MCDaemon ------------------------------
(***************************************************************************)
(* The command line for TLC: in a behaviour either commands work on a      *)
(* workspace, or one "up" supervises its services.  The part that is not   *)
(* looked at stays as it is.                                               *)
(***************************************************************************)
EXTENDS Supervisor, Workspace

VARIABLE component

ASSUME SupervisorConstants == SupervisorAssumption

daemonVars == <<component, vars, workspaceVars>>

NoWorkspace ==
    /\ ws = [file |-> <<>>, dirs |-> {}, links |-> {}, data |-> {}]
    /\ running = <<>>
    /\ command = [n |-> 0, name |-> "none", result |-> "none", cfg |-> DefaultConfig]

\* Nothing was launched and nothing will be.
NoSupervisor ==
    /\ cfg = [enabled |-> {"relay"}, redis |-> "managed"] /\ sup = "gone"
    /\ phase = [t \in {"relay"} |-> "none"] /\ result = [t \in {"relay"} |-> "none"]
    /\ joined = {} /\ firstErr = NoTask /\ shutdown = FALSE /\ signal = "none"
    /\ listeners = {} /\ child = [c \in Children |-> "none"] /\ early = {}

DaemonInit ==
    \/ component = "workspace" /\ WorkspaceInit /\ NoSupervisor
    \/ component = "supervisor" /\ NoWorkspace /\ Init

DaemonNext ==
    /\ UNCHANGED component
    /\ \/ component = "workspace" /\ WorkspaceNext /\ UNCHANGED vars
       \/ component = "supervisor" /\ Next /\ UNCHANGED workspaceVars

DaemonSpec == DaemonInit /\ [][DaemonNext]_daemonVars /\ Fairness
-----------------------------------------------------------------------------
(* The workspaces. *)

H(indent, key) == Line(indent, key, <<>>)

MCHandWritten ==
    {<<H(0, "storage"), Line(1, "path", <<".devcloud">>),
       H(0, "services"), H(1, "redshift"), H(2, "backend"), Line(3, "externalDsn", <<"dsn">>),
       Line(3, "mode", <<"external">>), H(1, "redis"), Line(2, "dataDir", <<".devcloud", "r">>)>>,
     <<H(0, "auth"), H(1, "sqs"), Line(2, "accountId", <<"\"", "7", "\"">>), H(1, "gcs"),
       Line(2, "bearerToken", <<"token">>), H(0, "storage"), Line(1, "path", <<".", ".devcloud">>),
       H(0, "services"), H(1, "pubsub"), Line(2, "messageDataDir", <<".devcloud", "m">>)>>,
     <<H(0, "server"), Line(4, "mailHTTPPort", <<"11081">>), Line(0, "unknown", <<"7">>),
       H(0, "services"), H(1, "redis"), Line(2, "enabled", <<"T">>), Line(2, "dataDir", <<"..", "..", "..", "mine">>)>>,
     <<H(0, "services"), H(1, "pubsub"), Line(2, "messageDataDir", <<".devcloud", "m">>),
       H(1, "lambda"), Line(2, "optDir", <<"opt">>), Line(2, "idleTimeoutSeconds", <<"-7">>)>>,
     <<H(0, "storage"), Line(1, "path", <<"elsewhere">>)>>,
     <<H(0, "services"), H(1, "mail"), Line(2, "maxMessageBytes", <<"0">>)>>,
     <<H(0, "services"), H(2, "mail")>>,
     <<NotASetting>>}

MCLinkSpots == {<<".devcloud", "data">>, <<".devcloud", "m">>}
MCSelections == {{}, {"smtp", ""}, {"redis", "nothing"}}
-----------------------------------------------------------------------------
(* The daemons. *)

MCConfigurations ==
    {[enabled |-> {"relay", "mail", "redis"}, redis |-> "managed"],
     [enabled |-> {"relay", "redshift", "plain"}, redis |-> "managed"],
     [enabled |-> {"relay", "pubsub", "redis"}, redis |-> "external"],
     [enabled |-> {"relay", "redis"}, redis |-> "invalid"]}
=============================================================================
