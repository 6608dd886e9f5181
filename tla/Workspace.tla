------------------------------ MODULE Workspace ------------------------------
(***************************************************************************)
(* The workspace the command line works on (orchestrator: main.rs,         *)
(* config.rs, services/util.rs): ".devcloud/config.yaml", the directories  *)
(* the services keep their data in, and the commands init, up and reset.   *)
(*                                                                         *)
(* Reset removes directories named in a file the user writes; up starts    *)
(* services that compute their directories by themselves, with another     *)
(* copy of the rules.  The two must mean the same directories, nothing     *)
(* outside ".devcloud" may be removed, and a reset that takes the          *)
(* configuration file away with the data has to write back one that means  *)
(* the same.                                                               *)
(*                                                                         *)
(* A text is a sequence of tokens: a path its components ("/" first when   *)
(* absolute), a quoted value its quotes and what they enclose, an empty    *)
(* value the empty sequence.  Every kind of setting of the file has one or *)
(* a few representatives.                                                  *)
(***************************************************************************)
EXTENDS Integers, Sequences, SequencesExt, FiniteSets, TLC

CONSTANTS HandWritten,     \* the configuration files a user may write
          LinkSpots,       \* where a symbolic link may lie
          Selections,      \* the service names given to "up"
          KillAfter,       \* after how many operations a command may be cut short
          MaxCommands      \* bound on the commands

ASSUME WorkspaceAssumption == MaxCommands \in Nat /\ KillAfter \subseteq Nat

VARIABLES ws,       \* the file, the data, the directories and the links
          running,  \* the daemon: the directories of each service it runs
          command   \* the last command: its name, result and configuration

workspaceVars == <<ws, running, command>>
-----------------------------------------------------------------------------
(* Settings. *)

Field(path, kind, default) == [path |-> path, kind |-> kind, default |-> default]

ServerFields ==
    [mailHttpPort |-> Field(<<"server", "mailHttpPort">>, "integer", <<"11080">>)]

AuthFields ==
    [smtpPassword |-> Field(<<"auth", "smtp", "password">>, "text", <<"dev">>),
     gcsToken |-> Field(<<"auth", "gcs", "bearerToken">>, "text", <<>>),
     redisPassword |-> Field(<<"auth", "redis", "password">>, "text", <<>>),
     sqsAccount |-> Field(<<"auth", "sqs", "accountId">>, "quoted", <<"0">>)]

StoreFields ==
    [storagePath |-> Field(<<"storage", "path">>, "text", <<".devcloud", "data">>),
     mailEnabled |-> Field(<<"services", "mail", "enabled">>, "bool", <<"true">>),
     mailBytes |-> Field(<<"services", "mail", "maxMessageBytes">>, "positive", <<"7">>),
     partBytes |-> Field(<<"services", "s3", "multipart", "minPartBytes">>, "positive", <<"7">>)]

RedshiftFields ==
    [redshiftEnabled |-> Field(<<"services", "redshift", "enabled">>, "bool", <<"true">>),
     redshiftDir |-> Field(<<"services", "redshift", "dataDir">>, "text", <<"redshift">>),
     backendMode |-> Field(<<"services", "redshift", "backend", "mode">>, "text", <<"managed">>),
     backendDsn |-> Field(<<"services", "redshift", "backend", "externalDsn">>, "text", <<>>),
     backendManaged |-> Field(<<"services", "redshift", "backend", "managed">>, "bool", <<"true">>),
     tlsCert |-> Field(<<"services", "redshift", "tls", "certFile">>, "quoted", <<>>)]

QueueFields ==
    [redisEnabled |-> Field(<<"services", "redis", "enabled">>, "bool", <<"false">>),
     redisMode |-> Field(<<"services", "redis", "mode">>, "text", <<"managed">>),
     redisUrl |-> Field(<<"services", "redis", "externalUrl">>, "text", <<>>),
     redisDir |-> Field(<<"services", "redis", "dataDir">>, "text", <<"redis">>),
     sqsEnabled |-> Field(<<"services", "sqs", "enabled">>, "bool", <<"true">>),
     sqsDelay |-> Field(<<"services", "sqs", "defaultDelaySeconds">>, "natural", <<"0">>)]

LaterFields ==
    [pubsubEnabled |-> Field(<<"services", "pubsub", "enabled">>, "bool", <<"true">>),
     pubsubDir |-> Field(<<"services", "pubsub", "dataDir">>, "text", <<>>),
     messageDir |-> Field(<<"services", "pubsub", "messageDataDir">>, "text", <<>>),
     lambdaOptDir |-> Field(<<"services", "lambda", "optDir">>, "text", <<>>),
     lambdaIdle |-> Field(<<"services", "lambda", "idleTimeoutSeconds">>, "integer", <<>>)]

Fields == ServerFields @@ AuthFields @@ StoreFields @@ RedshiftFields @@ QueueFields @@ LaterFields
Names == DOMAIN Fields

\* Keys that are read and never written back by default_config_yaml.
Unprinted == {"gcsToken", "tlsCert"}

Aliases == (<<"server", "mailHTTPPort">> :> "mailHttpPort")
           @@ (<<"services", "redis", "externalURL">> :> "redisUrl")

DefaultConfig == [name \in Names |-> Fields[name].default]
-----------------------------------------------------------------------------
(* load_config: line by line, with a stack of section names. *)

Line(indent, key, value) == [indent |-> indent, key |-> key, value |-> value, colon |-> TRUE]
NotASetting == [indent |-> 0, key |-> "junk", value |-> <<>>, colon |-> FALSE]

Trues == {<<"1">>, <<"T">>, <<"true">>}
Falses == {<<"0">>, <<"F">>, <<"false">>}
Positives == {<<"1">>, <<"7">>, <<"11080">>, <<"11081">>}
Integers_ == Positives \cup {<<"0">>, <<"-7">>}

TrimQuotes(text) == SelectSeq(text, LAMBDA token : token # "\"")

Accepts(kind, text) ==
    CASE kind = "integer" -> text \in Integers_
      [] kind = "positive" -> text \in Positives
      [] kind = "natural" -> text \in Positives \cup {<<"0">>}
      [] kind = "bool" -> text \in Trues \cup Falses
      [] OTHER -> TRUE

Parsed(kind, text) ==
    CASE kind = "bool" -> IF text \in Trues THEN <<"true">> ELSE <<"false">>
      [] kind = "quoted" -> TrimQuotes(text)
      [] OTHER -> text

FieldAt(path) == {name \in Names : Fields[name].path = path}
                    \cup (IF path \in DOMAIN Aliases THEN {Aliases[path]} ELSE {})

ApplyConfigValue(state, path, text) ==
    LET names == FieldAt(path) IN
    IF names = {} THEN state                               \* an unknown key is ignored
    ELSE LET name == CHOOSE n \in names : TRUE
             kind == Fields[name].kind IN
         IF Accepts(kind, text) THEN [state EXCEPT !.cfg[name] = Parsed(kind, text)]
                                ELSE [state EXCEPT !.ok = FALSE]

WholeSection(section, indent) == section

\* The section a value line belongs to.
SectionOf(section, indent) ==
    SubSeq(section, 1, IF indent < Len(section) THEN indent ELSE Len(section))

LoadLine(state, line) ==
    CASE ~state.ok -> state
      [] state.ok /\ ~line.colon -> [state EXCEPT !.ok = FALSE]
      [] state.ok /\ line.colon /\ line.value = <<>> ->
            IF line.indent > Len(state.section) THEN [state EXCEPT !.ok = FALSE]
            ELSE [state EXCEPT !.section = Append(SubSeq(@, 1, line.indent), line.key)]
      [] OTHER -> ApplyConfigValue(state, Append(SectionOf(state.section, line.indent), line.key),
                                   line.value)

\* A missing file means the defaults.
LoadConfig(file) ==
    FoldLeft(LoadLine, [ok |-> TRUE, section |-> <<>>, cfg |-> DefaultConfig], file)
-----------------------------------------------------------------------------
(* Directories and modes. *)

DefaultString(text, fallback) == IF text = <<>> THEN fallback ELSE text
PathJoin(a, b) == IF b # <<>> /\ Head(b) = "/" THEN b ELSE a \o b

\* config.rs: the text as it is.
CleanPath(path) == path

\* services/util.rs: "." dropped and ".." resolved within the text.
CleanPathOfAdapter(path) ==
    FoldLeft(LAMBDA out, c :
                CASE c = "." -> out
                  [] c = ".." /\ out # <<>> /\ Last(out) \notin {"..", "/"} -> Front(out)
                  [] c = ".." /\ out = <<"/">> -> out
                  [] OTHER -> Append(out, c), <<>>, path)

ScopedDataDir(storage, dir, cleaned, fallback) ==
    IF dir = <<>> THEN PathJoin(storage, <<fallback>>)
    ELSE IF cleaned # <<>> /\ Head(cleaned) = ".devcloud" THEN cleaned
    ELSE PathJoin(storage, cleaned)

RedshiftDataDir(cfg) == ScopedDataDir(cfg.storagePath, cfg.redshiftDir, CleanPath(cfg.redshiftDir), "redshift")
RedisDataDir(cfg) == ScopedDataDir(cfg.storagePath, cfg.redisDir, CleanPath(cfg.redisDir), "redis")
PubsubDataDir(cfg) == DefaultString(cfg.pubsubDir, PathJoin(cfg.storagePath, <<"pubsub">>))
MessageDataDir(cfg) == DefaultString(cfg.messageDir, PathJoin(cfg.storagePath, <<"message">>))

\* What the adapters hand to the services.
AdapterDirs(cfg) ==
    [mail |-> {PathJoin(cfg.storagePath, <<"mail">>), PathJoin(cfg.storagePath, <<"blobs">>)},
     redshift |-> {ScopedDataDir(cfg.storagePath, cfg.redshiftDir, CleanPathOfAdapter(cfg.redshiftDir), "redshift")},
     redis |-> {ScopedDataDir(cfg.storagePath, cfg.redisDir, CleanPathOfAdapter(cfg.redisDir), "redis")},
     sqs |-> {PathJoin(cfg.storagePath, <<"sqs">>)},
     pubsub |-> {DefaultString(cfg.pubsubDir, PathJoin(cfg.storagePath, <<"pubsub">>)),
                 DefaultString(cfg.messageDir, PathJoin(cfg.storagePath, <<"message">>))}]

Services == {"mail", "redshift", "redis", "sqs", "pubsub"}

BackendMode(cfg) ==
    DefaultString(cfg.backendMode, IF cfg.backendDsn # <<>> THEN <<"external">> ELSE <<"managed">>)
RedisMode(cfg) ==
    DefaultString(cfg.redisMode, IF cfg.redisUrl # <<>> THEN <<"external">> ELSE <<"managed">>)
-----------------------------------------------------------------------------
(* default_config_yaml. *)

Printed(cfg, name) ==
    CASE name = "sqsAccount" -> <<"\"">> \o cfg[name] \o <<"\"">>
      [] name = "redshiftDir" -> DefaultString(cfg[name], <<"redshift">>)
      [] name = "redisDir" -> DefaultString(cfg[name], <<"redis">>)
      [] name = "pubsubDir" -> PubsubDataDir(cfg)
      [] name = "messageDir" -> MessageDataDir(cfg)
      [] name = "backendMode" -> BackendMode(cfg)
      [] name = "backendManaged" -> IF BackendMode(cfg) = <<"managed">> THEN <<"true">> ELSE <<"false">>
      [] name = "redisMode" -> RedisMode(cfg)
      [] OTHER -> cfg[name]

Setting(cfg, name) ==
    LET path == Fields[name].path IN <<Line(Len(path) - 1, Last(path), Printed(cfg, name))>>

Settings(cfg, names) == FlattenSeq([i \in 1 .. Len(names) |-> Setting(cfg, names[i])])
Header(indent, key) == <<Line(indent, key, <<>>)>>

LambdaOptionalLines(cfg) ==
    Settings(cfg, SelectSeq(<<"lambdaOptDir", "lambdaIdle">>, LAMBDA name : cfg[name] # <<>>))

ServerAndAuthYaml(cfg) ==
    Header(0, "server") \o Settings(cfg, <<"mailHttpPort">>)
    \o Header(0, "auth") \o Header(1, "smtp") \o Settings(cfg, <<"smtpPassword">>)
    \o Header(1, "redis") \o Settings(cfg, <<"redisPassword">>)
    \o Header(1, "sqs") \o Settings(cfg, <<"sqsAccount">>)
    \o Header(0, "storage") \o Settings(cfg, <<"storagePath">>)

ServicesYaml(cfg) ==
    Header(0, "services") \o Header(1, "mail") \o Settings(cfg, <<"mailEnabled", "mailBytes">>)
    \o Header(1, "s3") \o Header(2, "multipart") \o Settings(cfg, <<"partBytes">>)
    \o Header(1, "redshift") \o Settings(cfg, <<"redshiftEnabled", "redshiftDir">>)
    \o Header(2, "backend") \o Settings(cfg, <<"backendMode", "backendDsn", "backendManaged">>)
    \o Header(1, "redis") \o Settings(cfg, <<"redisEnabled", "redisMode", "redisUrl", "redisDir">>)

LaterServicesYaml(cfg) ==
    Header(1, "sqs") \o Settings(cfg, <<"sqsEnabled", "sqsDelay">>)
    \o Header(1, "pubsub") \o Settings(cfg, <<"pubsubEnabled", "pubsubDir", "messageDir">>)
    \o Header(1, "lambda") \o LambdaOptionalLines(cfg)

DefaultConfigYaml(cfg) == ServerAndAuthYaml(cfg) \o ServicesYaml(cfg) \o LaterServicesYaml(cfg)
-----------------------------------------------------------------------------
(* The file system. *)

Under(path, root) == IsPrefix(root, path)

\* Where a path leads: through a link, outside the workspace.
Place(path, links) ==
    LET clean == CleanPathOfAdapter(path) IN
    IF \E l \in links : Under(clean, l)
    THEN LET l == CHOOSE l \in links : Under(clean, l)
         IN <<"/", "linked">> \o SubSeq(clean, Len(l) + 1, Len(clean))
    ELSE clean

Inside(place) == place # <<>> /\ Head(place) = ".devcloud"
ConfigFile == <<".devcloud", "config.yaml">>

\* validate_storage_path: under ".devcloud", no "..", no link on the way.
Valid(path, links) ==
    LET parts == SelectSeq(path, LAMBDA c : c # ".") IN
    /\ parts # <<>> /\ parts[1] = ".devcloud"
    /\ ~\E i \in DOMAIN parts : parts[i] \in {"..", "/"}
    /\ ~\E l \in links : Under(parts, l)

\* The checks init and reset begin with.
Validated(cfg, links) ==
    /\ Valid(cfg.storagePath, links)
    /\ cfg.pubsubDir # <<>> => Valid(cfg.pubsubDir, links)
    /\ cfg.messageDir # <<>> => Valid(cfg.messageDir, links)
    /\ Valid(RedshiftDataDir(cfg), links)
    /\ Valid(RedisDataDir(cfg), links)

\* The remaining work, one file system operation at a time.
Op(kind, path) == [op |-> kind, path |-> path]

MakeOps(cfg) ==
    [i \in 1 .. 8 |-> Op("make", CASE i \in 1 .. 3 -> PathJoin(cfg.storagePath, <<(<<"blobs", "mail", "sqs">>)[i]>>)
                                   [] i = 4 -> RedshiftDataDir(cfg)
                                   [] i = 5 -> RedisDataDir(cfg)
                                   [] i = 6 -> PubsubDataDir(cfg)
                                   [] i = 7 -> MessageDataDir(cfg)
                                   [] i = 8 -> <<".devcloud", "logs">>)]

InitOps(cfg) == Append(MakeOps(cfg), Op("config", ConfigFile))

Removal(dir, path) == IF dir = <<>> THEN <<>> ELSE <<Op("remove", path)>>

RemoveAllButMessages(cfg) ==
    <<Op("remove", cfg.storagePath)>>
    \o Removal(cfg.redshiftDir, RedshiftDataDir(cfg)) \o Removal(cfg.redisDir, RedisDataDir(cfg))
    \o Removal(cfg.pubsubDir, PubsubDataDir(cfg))

RemoveOps(cfg) ==
    <<Op("remove", cfg.storagePath)>>
    \o Removal(cfg.redshiftDir, RedshiftDataDir(cfg)) \o Removal(cfg.redisDir, RedisDataDir(cfg))
    \o Removal(cfg.pubsubDir, PubsubDataDir(cfg)) \o Removal(cfg.messageDir, MessageDataDir(cfg))

Without(set, place) == {p \in set : ~Under(p, place)}

\* remove_all
RemoveAll(state, path) ==
    LET place == Place(path, state.links) IN
    [state EXCEPT !.data = Without(@, place), !.dirs = Without(@, place), !.links = Without(@, place),
                  !.file = IF Under(ConfigFile, place) THEN <<>> ELSE @]

\* mkdir_all and ensure_file, each with a check of its own.
Perform(cfg, state, op) ==
    CASE op.op = "remove" -> [ok |-> TRUE, ws |-> RemoveAll(state, op.path)]
      [] op.op # "remove" /\ ~Valid(op.path, state.links) -> [ok |-> FALSE, ws |-> state]
      [] op.op = "make" /\ Valid(op.path, state.links) ->
            [ok |-> TRUE, ws |-> [state EXCEPT !.dirs = @ \cup {Place(op.path, state.links)}]]
      [] OTHER -> [ok |-> TRUE, ws |-> IF state.file = <<>>
                                       THEN [state EXCEPT !.file = DefaultConfigYaml(cfg)] ELSE state]

PerformAll(cfg, state, ops) ==
    FoldLeft(LAMBDA done, op : IF done.ok THEN Perform(cfg, done.ws, op) ELSE done,
             [ok |-> TRUE, ws |-> state], ops)
-----------------------------------------------------------------------------
(* Commands. *)

\* A workspace with a file or without, unused or with the data of an earlier
\* session; the user's own files lie outside.
WorkspaceInit ==
    /\ \E links \in SUBSET LinkSpots, file \in HandWritten \cup {<<>>}, used \in BOOLEAN :
          LET loaded == LoadConfig(file)
              places == {Place(dir, links) : dir \in UNION Range(AdapterDirs(loaded.cfg))} IN
          ws = [file |-> file, dirs |-> {}, links |-> links,
                data |-> {<<"..", "mine">>, <<"/", "linked", "mine">>}
                            \cup (IF used /\ loaded.ok THEN places ELSE {})]
    /\ running = <<>>
    /\ command = [n |-> 0, name |-> "none", result |-> "none", cfg |-> DefaultConfig]

MoreToCome == command.n < MaxCommands

Ended(name, result, cfg) ==
    command' = [n |-> command.n + 1, name |-> name, result |-> result, cfg |-> cfg]

\* The operations are performed up to one that fails or at which the process
\* is killed.
Carried(name, cfg, ops) ==
    \E k \in {Len(ops)} \cup {n \in KillAfter : n < Len(ops)} :
       LET done == PerformAll(cfg, ws, SubSeq(ops, 1, k)) IN
       /\ ws' = done.ws
       /\ Ended(name, IF ~done.ok THEN "refused" ELSE IF k < Len(ops) THEN "failed" ELSE "ok", cfg)

Refused(name, cfg) == ws' = ws /\ Ended(name, "refused", cfg)

InitWorkspace ==
    /\ MoreToCome
    /\ \/ ~Validated(DefaultConfig, ws.links) /\ Refused("init", DefaultConfig)
       \/ Validated(DefaultConfig, ws.links) /\ Carried("init", DefaultConfig, InitOps(DefaultConfig))
    /\ UNCHANGED running

ResetWorkspace ==
    LET loaded == LoadConfig(ws.file) IN
    /\ MoreToCome
    /\ \/ (~loaded.ok \/ ~Validated(loaded.cfg, ws.links)) /\ Refused("reset", loaded.cfg)
       \/ /\ loaded.ok /\ Validated(loaded.cfg, ws.links)
          /\ Carried("reset", loaded.cfg, RemoveOps(loaded.cfg) \o InitOps(loaded.cfg))
    /\ UNCHANGED running

EnabledBy(cfg) ==
    {s \in Services : cfg[CASE s = "mail" -> "mailEnabled" [] s = "redshift" -> "redshiftEnabled"
                            [] s = "redis" -> "redisEnabled" [] s = "sqs" -> "sqsEnabled"
                            [] s = "pubsub" -> "pubsubEnabled"] = <<"true">>}

ServiceAliases == [mail |-> "mail", smtp |-> "mail", redis |-> "redis", pubsub |-> "pubsub",
                   sqs |-> "sqs", redshift |-> "redshift"]

\* apply_service_selection: blanks are skipped, an unknown name is an error,
\* nothing chosen leaves the configuration as it is.
Selected(cfg, selection) ==
    LET named == selection \ {""}
        chosen == {ServiceAliases[n] : n \in named \cap DOMAIN ServiceAliases} IN
    IF chosen = {} THEN EnabledBy(cfg) ELSE chosen

KnownNames(selection) == selection \ {""} \subseteq DOMAIN ServiceAliases

\* The directories are not validated here.
Up(selection) ==
    LET loaded == LoadConfig(ws.file) IN
    /\ running = <<>> /\ MoreToCome
    /\ \/ /\ loaded.ok /\ KnownNames(selection)
          /\ running' = [s \in Selected(loaded.cfg, selection) |-> AdapterDirs(loaded.cfg)[s]]
          /\ Ended("up", "ok", loaded.cfg)
       \/ /\ ~loaded.ok \/ ~KnownNames(selection)
          /\ Ended("up", "refused", loaded.cfg)
          /\ UNCHANGED running
    /\ UNCHANGED ws

\* The running services store something.
Store ==
    /\ running # <<>> /\ MoreToCome
    /\ ws' = [ws EXCEPT !.data = @ \cup {Place(dir, ws.links) : dir \in UNION Range(running)}]
    /\ UNCHANGED <<running, command>>

Down ==
    /\ running # <<>>
    /\ running' = <<>>
    /\ UNCHANGED <<ws, command>>

\* The user writes the configuration file (while there are commands to come).
Write(file) ==
    /\ MoreToCome
    /\ ~\E l \in ws.links : Under(ConfigFile, l)
    /\ ws' = [ws EXCEPT !.file = file]
    /\ UNCHANGED <<running, command>>

WorkspaceNext ==
    \/ InitWorkspace \/ ResetWorkspace \/ Store \/ Down
    \/ \E selection \in Selections : Up(selection)
    \/ \E file \in HandWritten : Write(file)

WorkspaceSpec == WorkspaceInit /\ [][WorkspaceNext]_workspaceVars
-----------------------------------------------------------------------------
(* Properties. *)

Completed(name) ==
    command' # command /\ command'.name = name /\ command'.result = "ok"

\* After a reset, every directory a service will use, as its adapter computes
\* it from the configuration, holds nothing.
ResetAnew ==
    [][Completed("reset") =>
          \A s \in Services : \A dir \in AdapterDirs(command'.cfg)[s] :
             ~\E p \in ws'.data : Under(p, Place(dir, ws'.links))]_workspaceVars

\* Data disappears only inside ".devcloud", and not at all when a service
\* would use a directory outside; directories are created only inside.
OnlyOwnRemoved ==
    [][/\ \A p \in ws'.dirs \ ws.dirs : Inside(p)
       /\ ~(ws.data \subseteq ws'.data) =>
             /\ \A p \in ws.data \ ws'.data : Inside(p)
             /\ \A dir \in UNION Range(AdapterDirs(command'.cfg)) : Inside(Place(dir, ws.links))]_workspaceVars

\* A reset removes all of the services' data and nothing else.
ResetExact == ResetAnew /\ OnlyOwnRemoved

\* The settings as the daemon will use them.
Effective(cfg) ==
    [settings |-> [name \in Names \ (Unprinted \cup {"backendManaged", "backendMode", "redisMode",
                                                     "redshiftDir", "redisDir", "pubsubDir", "messageDir"})
                      |-> cfg[name]],
     dirs |-> AdapterDirs(cfg), modes |-> <<BackendMode(cfg), RedisMode(cfg)>>]

\* Init and reset change no setting, also when reset removes the file with the
\* data and writes a new one (the keys that are never written excepted).
SettingsKept ==
    [][Completed("init") \/ Completed("reset") =>
          LET before == LoadConfig(ws.file) IN
          before.ok => /\ LoadConfig(ws'.file).ok
                       /\ Effective(LoadConfig(ws'.file).cfg) = Effective(before.cfg)]_workspaceVars
=============================================================================
