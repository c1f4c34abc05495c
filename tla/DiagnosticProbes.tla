--------------------------- MODULE DiagnosticProbes ---------------------------
(***************************************************************************)
(* The nine checks of the health diagnosis (diagnostic_probes.py, app.py)  *)
(* and the white list the report store holds their results against         *)
(* (diagnostic_store.py).  A check is a list of findings in the order the  *)
(* code looks for them; the first that holds is its result.  The wording   *)
(* of a result is abstracted to its code and its metrics to their names.   *)
(***************************************************************************)
EXTENDS Naturals, Sequences

Result(status, code, keys) == [status |-> status, code |-> code, keys |-> keys]
Passed(code, keys)  == Result("passed", code, keys)
Warning(code, keys) == Result("warning", code, keys)
Failed(code, keys)  == Result("failed", code, keys)
Skipped(code)       == Result("skipped", code, {})

If(holds, result) == [holds |-> holds, result |-> result]
Decide(findings)  ==
  findings[CHOOSE i \in DOMAIN findings :
             findings[i].holds /\ \A j \in 1 .. i - 1 : ~findings[j].holds].result

Ids == <<"environment", "project-write", "disk", "components", "task-database",
         "content-database", "credentials", "telegram", "updates">>
Threaded(id) == id \notin {"telegram", "updates"}

-----------------------------------------------------------------------------
(* What each check may find: its inputs, one record per situation.         *)
Sources == {"github", "modelscope"}
Levels  == {"critical", "low", "enough"}
EnvironmentInputs == [guarded : BOOLEAN, windows : BOOLEAN, offSystem : BOOLEAN, frozen : BOOLEAN]
WriteInputs       == [app : BOOLEAN, download : BOOLEAN]
DiskInputs        == [read : BOOLEAN, free : Levels, same : BOOLEAN, readDownload : BOOLEAN,
                      freeDownload : Levels]
(* schema: the tables and columns the program needs; meaning: its foreign    *)
(* keys and the values of its states; other: a state the counts do not know. *)
DatabaseInputs    == [file : BOOLEAN, opens : BOOLEAN, intact : BOOLEAN, readable : BOOLEAN,
                      schema : BOOLEAN, counted : BOOLEAN, meaning : BOOLEAN, other : BOOLEAN]
CredentialInputs  == [settings : BOOLEAN, present : BOOLEAN, decrypted : BOOLEAN, id : BOOLEAN]
TelegramInputs    == [reason : BOOLEAN, gateway : BOOLEAN,
                      answer : {"ok", "timeout", "expired", "network", "error"}]
UpdateInputs      == [coordinator : BOOLEAN, answer : {"ok", "timeout", "error"}, both : BOOLEAN,
                      wellFormed : BOOLEAN, status : [Sources -> {"valid", "unavailable", "invalid"}],
                      sameVersion : BOOLEAN, sameBytes : BOOLEAN]

Environment(e) ==
  LET keys == {"frozen", "windowsX64", "nonSystemVolume", "guardedPathCount"} IN
  Decide(<<If(~e.guarded, Failed("runtime-path-invalid", {})),
           If(~e.windows, Failed("runtime-unsupported", keys)),
           If(~e.offSystem /\ e.frozen, Failed("runtime-system-volume", keys)),
           If(~e.offSystem, Warning("source-system-volume", keys)),
           If(TRUE, Passed("runtime-paths-ok", keys))>>)

ProjectWrite(e) ==
  Decide(<<If(~e.app, Failed("project-write-failed", {})),
           If(~e.download, Failed("download-write-failed", {"downloadWritable"})),
           If(TRUE, Passed("project-write-ok", {"downloadWritable"}))>>)

(* A download folder on the volume of the program has the program's space. *)
Disk(e) ==
  LET program == {"totalBytes", "freeBytes", "downloadSameVolume"}
      all     == program \cup {"downloadTotalBytes", "downloadFreeBytes"}
      there   == IF e.same THEN e.free ELSE e.freeDownload IN
  Decide(<<If(~e.read, Failed("disk-unavailable", {})),
           If(~e.same /\ ~e.readDownload, Failed("download-disk-unavailable", program)),
           If(e.free = "critical", Failed("disk-space-critical", all)),
           If(there = "critical", Failed("download-disk-space-critical", all)),
           If(e.free = "low", Warning("disk-space-low", all)),
           If(there = "low", Warning("download-disk-space-low", all)),
           If(TRUE, Passed("disk-space-ok", all))>>)

Required == {"pyside6", "telethon", "qasync", "qrcode", "sqlite", "dpapi"}
Components(missing) ==
  IF missing = {} THEN Passed("components-ok", Required) ELSE Failed("component-missing", Required)

(* Both databases are opened read-only and checked in the same order: the   *)
(* file, its integrity, its schema, its relations and states, its counts.   *)
Database(e, keys, countsOther, ok) ==
  Decide(<<If(~e.file, Failed("database-missing", {})),
           If(~e.opens, Failed("database-unreadable", {})),
           If(~e.readable, Failed("database-unreadable", {})),
           If(~e.intact, Failed("database-corrupt", {})),
           If(~e.schema, Failed("database-schema-incompatible", keys \cap {"schemaVersion", "schemaCompatible"})),
           If(~e.counted, Failed("database-semantics-invalid", {})),
           If(~e.meaning \/ (countsOther /\ e.other), Failed("database-semantics-invalid",
                keys \cup (IF countsOther /\ e.other
                           THEN {"taskStatusOther", "itemStatusOther", "integrityStatusOther"} ELSE {}))),
           If(TRUE, Passed(ok, keys))>>)

Schema    == {"schemaCompatible", "foreignKeysValid", "stateValuesValid"}
TaskKeys  ==
  Schema \cup {"taskCount", "mediaCount",
    "taskStatusDraft", "taskStatusQueued", "taskStatusScanning", "taskStatusDownloading",
    "taskStatusWaitingRetry", "taskStatusPaused", "taskStatusCompleted", "taskStatusPartialFailure",
    "itemStatusQueued", "itemStatusDownloading", "itemStatusWaitingRetry", "itemStatusPaused",
    "itemStatusCompleted", "itemStatusFailed", "integrityStatusUnverified", "integrityStatusVerified",
    "integrityStatusMissing", "integrityStatusSizeMismatch", "integrityStatusHashMismatch",
    "integrityStatusReadError"}
ContentKeys ==
  Schema \cup {"schemaVersion", "accountCount", "dialogCount", "searchCount", "searchResultCount",
               "subscriptionCount", "subscriptionRunCount"}
TaskDatabase(e)    == Database(e, TaskKeys, TRUE, "task-database-ok")
ContentDatabase(e) == Database(e, ContentKeys, FALSE, "content-database-ok")

(* Mutant: a vault that cannot be decrypted is only a warning. *)
CredentialsWarn(e) ==
  LET keys == {"settingsReadable", "secretsPresent", "secretsDecryptable", "credentialsConfigured"} IN
  Decide(<<If(~e.settings, Failed("settings-unreadable", keys)),
           If(~e.present, Warning("credentials-not-configured", keys)),
           If(~e.decrypted, Warning("credentials-unreadable", keys)),
           If(~e.id, Warning("credentials-not-configured", keys)),
           If(TRUE, Passed("credentials-ok", keys))>>)

(* credential_health: without readable settings or a decrypted vault the    *)
(* credentials do not count as configured.                                  *)
Credentials(e) ==
  LET keys == {"settingsReadable", "secretsPresent", "secretsDecryptable", "credentialsConfigured"} IN
  Decide(<<If(~e.settings, Failed("settings-unreadable", keys)),
           If(~e.present, Warning("credentials-not-configured", keys)),
           If(~e.decrypted, Failed("credentials-unreadable", keys)),
           If(~e.id, Warning("credentials-not-configured", keys)),
           If(TRUE, Passed("credentials-ok", keys))>>)

Telegram(e) ==
  Decide(<<If(e.reason, Failed("telegram-session-expired", {"authorizationReason"})),
           If(~e.gateway, Skipped("telegram-not-configured")),
           If(e.answer = "timeout", Warning("telegram-network-timeout", {})),
           If(e.answer = "expired", Failed("telegram-session-expired", {"authorizationReason"})),
           If(e.answer = "network", Warning("telegram-network-unavailable", {})),
           If(e.answer = "error", Failed("telegram-check-failed", {})),
           If(TRUE, Passed("telegram-connected", {}))>>)

Updates(e) ==
  LET are(s)   == {u \in Sources : e.status[u] = s}
      versions == {IF u = "github" THEN "githubVersion" ELSE "modelscopeVersion" : u \in are("valid")}
      keys     == {"githubStatus", "githubLatencyMs", "modelscopeStatus", "modelscopeLatencyMs"} \cup versions
      conflict == are("valid") = Sources /\ e.sameVersion /\ ~e.sameBytes IN
  Decide(<<If(~e.coordinator, Skipped("update-check-unavailable")),
           If(e.answer = "timeout", Warning("update-sources-timeout", {})),
           If(e.answer = "error", Warning("update-sources-unavailable", {})),
           If(~e.both \/ ~e.wellFormed, Failed("update-source-invalid", {})),
           If(are("invalid") # {} \/ conflict, Failed("update-source-invalid", keys)),
           If(are("unavailable") = Sources, Warning("update-sources-unavailable", keys)),
           If(are("unavailable") # {}, Warning("update-source-degraded", keys)),
           If(TRUE, Passed("update-sources-ok", keys))>>)

(* Every result a check can end with, in the order of Ids. *)
Outcomes ==
  << {Environment(e) : e \in EnvironmentInputs}, {ProjectWrite(e) : e \in WriteInputs},
     {Disk(e) : e \in DiskInputs}, {Components(missing) : missing \in {{}, Required}},
     {TaskDatabase(e) : e \in DatabaseInputs}, {ContentDatabase(e) : e \in DatabaseInputs},
     {Credentials(e) : e \in CredentialInputs}, {Telegram(e) : e \in TelegramInputs},
     {Updates(e) : e \in UpdateInputs} >>

-----------------------------------------------------------------------------
(* The white list: the results a report may hold, by check.                *)
Databases == {<<"failed", "database-missing">>, <<"failed", "database-corrupt">>,
              <<"failed", "database-unreadable">>, <<"failed", "database-schema-incompatible">>,
              <<"failed", "database-semantics-invalid">>}
MachineVariants(id) ==
  CASE id = "environment" ->
         {<<"failed", "runtime-path-invalid">>, <<"failed", "runtime-unsupported">>,
          <<"failed", "runtime-system-volume">>, <<"warning", "source-system-volume">>,
          <<"passed", "runtime-paths-ok">>}
    [] id = "project-write" ->
         {<<"passed", "project-write-ok">>, <<"failed", "project-write-failed">>,
          <<"failed", "download-write-failed">>}
    [] id = "disk" ->
         {<<"failed", "disk-unavailable">>, <<"failed", "disk-space-critical">>,
          <<"warning", "disk-space-low">>, <<"failed", "download-disk-unavailable">>,
          <<"failed", "download-disk-space-critical">>, <<"warning", "download-disk-space-low">>,
          <<"passed", "disk-space-ok">>}
    [] id = "components" -> {<<"failed", "component-missing">>, <<"passed", "components-ok">>}
    [] OTHER -> {}
StoredVariants(id) ==
  CASE id = "task-database"    -> Databases \cup {<<"passed", "task-database-ok">>}
    [] id = "content-database" -> Databases \cup {<<"passed", "content-database-ok">>}
    [] id = "credentials" ->
         {<<"failed", "settings-unreadable">>, <<"warning", "credentials-not-configured">>,
          <<"failed", "credentials-unreadable">>, <<"passed", "credentials-ok">>}
    [] OTHER -> {}
OnlineVariants(id) ==
  CASE id = "telegram" ->
         {<<"skipped", "telegram-not-configured">>, <<"failed", "telegram-session-expired">>,
          <<"warning", "telegram-network-unavailable">>, <<"warning", "telegram-network-timeout">>,
          <<"failed", "telegram-check-failed">>, <<"passed", "telegram-connected">>}
    [] id = "updates" ->
         {<<"skipped", "update-check-unavailable">>, <<"warning", "update-sources-unavailable">>,
          <<"warning", "update-sources-timeout">>, <<"failed", "update-source-invalid">>,
          <<"warning", "update-source-degraded">>, <<"passed", "update-sources-ok">>}
    [] OTHER -> {}
GenericVariants == {<<"failed", "probe-failed">>, <<"cancelled", "check-cancelled">>}

AllowedMetrics(id) ==
  CASE id = "environment"   -> {"frozen", "windowsX64", "nonSystemVolume", "guardedPathCount"}
    [] id = "project-write" -> {"downloadWritable"}
    [] id = "disk" -> {"totalBytes", "freeBytes", "downloadSameVolume", "downloadTotalBytes",
                       "downloadFreeBytes"}
    [] id = "components"    -> Required
    [] id = "task-database" -> TaskKeys \cup {"taskStatusOther", "itemStatusOther", "integrityStatusOther"}
    [] id = "content-database" -> ContentKeys
    [] id = "credentials" -> {"settingsReadable", "secretsPresent", "secretsDecryptable",
                              "credentialsConfigured"}
    [] id = "telegram"    -> {"authorizationReason"}
    [] id = "updates"     -> {"githubStatus", "githubLatencyMs", "githubVersion", "modelscopeStatus",
                              "modelscopeLatencyMs", "modelscopeVersion"}

Listed(id, r) ==
  /\ <<r.status, r.code>> \in MachineVariants(id) \cup StoredVariants(id) \cup OnlineVariants(id)
                             \cup GenericVariants
  /\ r.keys \subseteq AllowedMetrics(id)
=============================================================================
