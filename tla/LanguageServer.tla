--------------------------- MODULE LanguageServer ---------------------------
(***************************************************************************)
(* The Move language server: the main loop (language_server/src/           *)
(* main_loop.rs), the in-memory file database it keeps (global_state.rs,   *)
(* inner/db.rs), the single worker thread that checks files on snapshots   *)
(* of that database (inner/analysis.rs), and the editor on the other side  *)
(* of the connection, which is external.                                   *)
(*                                                                         *)
(* Three queues meet in the loop, and select! picks any that is ready:     *)
(*   inbox        messages of the client, in the order they were sent;     *)
(*   fs_events    changes of files the loop has queued for itself;         *)
(*   resp_events  batches of diagnostics the worker has finished.          *)
(* A fourth, jobs, is the queue of the ThreadPool of size one.             *)
(*                                                                         *)
(* A file is a member of Path and its content a member of Text.  All that  *)
(* the checker tells apart about a text is whether it parses (Broken) and  *)
(* which other files it needs (Imports).                                   *)
(***************************************************************************)
EXTENDS Integers, Sequences

CONSTANTS
    Path,        \* files of the workspace
    Text,        \* contents a file may have
    NoText,      \* no file, no buffer, or no diagnostic
    BadUri,      \* a URI that is not the URI of a file
    Broken,      \* the texts that do not parse
    Imports,     \* Imports[t]: files whose modules the text t uses
    Configs,     \* settings the user may choose
    Starts,      \* the disk when the server starts, and the settings it is passed
    Editable,    \* files the user opens, edits, saves or deletes
    PromptClient,\* the client answers the registration before it sends anything else
    Budget       \* how often the client takes each kind of step, and steps in total

(***************************************************************************)
(* Settings name the files in the standard library folder, the files in    *)
(* the module folders, and the files whose path begins with the name of a  *)
(* module folder: a sibling folder /m2 of /m is among the last.            *)
(***************************************************************************)
Config == [stdlib : SUBSET Path, modules : SUBSET Path, prefixed : SUBSET Path]
Steps  == {"edits", "deletes", "saves", "settings", "faults", "exits", "total"}
File   == Text \cup {NoText}
Files  == [Path -> File]

ASSUME ConstantsAssumption ==
    /\ NoText \notin Text
    /\ BadUri \notin Path
    /\ Broken \subseteq Text
    /\ Imports \in [Text -> SUBSET Path]
    /\ Configs \subseteq Config
    /\ \A c \in Configs : c.modules \subseteq c.prefixed /\ c.stdlib \cap c.prefixed = {}
    /\ Starts \subseteq [disk : Files, config : Configs]
    /\ Editable \subseteq Path
    /\ PromptClient \in BOOLEAN
    /\ Budget \in [Steps -> Nat]

VARIABLES
    \* the client (external)
    disk,      \* content of the files on disk
    buf,       \* content of the editor's open buffers
    settings,  \* the settings the user has chosen
    asked,     \* requests of the server the client has not answered
    shown,     \* the diagnostic the editor shows for a file: the faulty text
    budget,    \* client steps that are left
    \* channels
    inbox, fs_events, resp_events, jobs,
    \* LoopState and GlobalState
    opened,                    \* opened_files
    next_request_id,
    configuration_request_id,  \* 0 is None
    db,                        \* available_files
    config,
    server,                    \* "running", "stopped" or "failed"
    \* history: the job scheduled last, and the number of the batch published last
    latest, published

clientVars == <<disk, buf, settings, asked, shown, budget>>
loopVars   == <<opened, next_request_id, configuration_request_id, db, config>>
history    == <<latest, published>>
vars == <<clientVars, inbox, fs_events, resp_events, jobs, loopVars, server, history>>

-----------------------------------------------------------------------------
(* Messages and events *)

\* What the client answers to a request of the server.
Null      == [kind |-> "null"]
ErrorBody == [kind |-> "error"]
EmptyList == [kind |-> "empty"]
Open      == [kind |-> "open"]           \* not answered yet
Body == {Null, ErrorBody, EmptyList} \cup [kind : {"settings"}, value : Configs]

Request == [id : Nat \ {0}, method : {"registerCapability", "configuration"}, body : Body \cup {Open}]

Uri == Path \cup {BadUri}
Message ==
    [kind : {"didOpen"}, uri : Uri, text : Text]
    \cup [kind : {"didChange"}, uri : Uri, texts : Seq(Text)]
    \cup [kind : {"didClose"}, uri : Uri]
    \cup [kind : {"didChangeWatchedFiles"}, uris : Seq(Uri)]
    \cup [kind : {"didChangeConfiguration", "request", "shutdown", "hangup"}]
    \cup [kind : {"response"}, id : Nat \ {0}, body : Body]

FileSystemEvent ==
    [kind : {"AddFile", "ChangeFile"}, path : Path, text : Text]
    \cup [kind : {"RemoveFile"}, path : Path]

\* FileDiagnostic: NoText stands for the empty list of diagnostics.
FileDiagnostic == [fpath : Path, diagnostic : File]
Batch == [n : Nat, diags : Seq(FileDiagnostic)]
Snapshot == [n : Nat, db : Files, config : Configs, files : SUBSET Path]
Job == [n : Nat, db : Files, config : Configs, todo : SUBSET Path, diags : Seq(FileDiagnostic)]

-----------------------------------------------------------------------------
(* The file database *)

\* initialize_new_global_state: what the folders of the settings hold on disk.
LoadFiles(c) == [f \in Path |-> IF f \in c.stdlib \cup c.modules THEN disk[f] ELSE NoText]

\* RootDatabase::apply_change
ApplyChange(files, e) ==
    [files EXCEPT ![e.path] = IF e.kind = "RemoveFile" THEN NoText ELSE e.text]

\* RootDatabase::module_files
ModuleFiles(files, c) == {f \in c.prefixed : files[f] # NoText}

(* The checker *)

\* check_file_inner: the target, the standard library as it is on disk now, and
\* the module files of the snapshot.
CompiledFiles(files, c, target) ==
    [f \in Path |-> IF f = target THEN files[f]
                    ELSE IF f \in c.stdlib THEN disk[f]
                    ELSE IF f \in c.prefixed THEN files[f]
                    ELSE NoText]

\* parse_program reports the files that do not parse and stops there; only then
\* does check_program report the files with unresolved imports.
Unparsed(s)   == {f \in Path : s[f] \in Broken}
Unresolved(s) == {f \in Path : s[f] # NoText /\ \E g \in Imports[s[f]] : s[g] = NoText}
ErrorFiles(s) == IF Unparsed(s) # {} THEN Unparsed(s) ELSE Unresolved(s)

\* The file of the first error: the target is parsed first, then the standard
\* library, then the module files in the order of a HashMap.
FirstErrorFiles(s, c, target) ==
    IF Unparsed(s) = {} THEN Unresolved(s)
    ELSE IF target \in Unparsed(s) THEN {target}
    ELSE IF Unparsed(s) \cap c.stdlib # {} THEN Unparsed(s) \cap c.stdlib
    ELSE Unparsed(s)

-----------------------------------------------------------------------------
\* register_for_file_changes, sent by run_server before the loop starts.  The loop
\* ignores an answer to it that arrives before it asks for settings itself.
Registration == [id |-> 1, method |-> "registerCapability", body |-> Open]

Init ==
    /\ \E s \in Starts : disk = s.disk /\ settings = s.config
    /\ buf = [f \in Path |-> NoText]
    /\ asked = IF PromptClient THEN {} ELSE {Registration}
    /\ shown = [f \in Path |-> NoText]
    /\ budget = Budget
    /\ inbox = <<>> /\ fs_events = <<>> /\ resp_events = <<>> /\ jobs = <<>>
    /\ opened = {}
    /\ next_request_id = 0
    /\ configuration_request_id = 0
    /\ config = settings
    /\ db = LoadFiles(config)
    /\ server = "running"
    /\ latest = [n |-> 0, db |-> db, config |-> config, files |-> {}]
    /\ published = 0

-----------------------------------------------------------------------------
(* The client *)

Spend(step) ==
    /\ budget[step] > 0 /\ budget["total"] > 0
    /\ budget' = [budget EXCEPT ![step] = @ - 1, !["total"] = @ - 1]

ServerUnchanged ==
    UNCHANGED <<fs_events, resp_events, jobs, loopVars, server, history>>

Send(m) ==
    /\ server = "running"
    /\ inbox' = Append(inbox, m)
    /\ ServerUnchanged

OpenDocument(f, t) ==
    /\ buf[f] = NoText
    /\ disk[f] # NoText => t = disk[f]
    /\ Spend("edits")
    /\ buf' = [buf EXCEPT ![f] = t]
    /\ Send([kind |-> "didOpen", uri |-> f, text |-> t])
    /\ UNCHANGED <<disk, settings, asked, shown>>

\* Sync is full: every content change carries the whole text, the last one counts.
EditDocument(f, t, earlier) ==
    /\ buf[f] \notin {NoText, t}
    /\ Spend("edits")
    /\ buf' = [buf EXCEPT ![f] = t]
    /\ Send([kind |-> "didChange", uri |-> f, texts |-> Append(earlier, t)])
    /\ UNCHANGED <<disk, settings, asked, shown>>

CloseDocument(f) ==
    /\ buf[f] # NoText
    /\ Spend("edits")
    /\ buf' = [buf EXCEPT ![f] = NoText]
    /\ Send([kind |-> "didClose", uri |-> f])
    /\ UNCHANGED <<disk, settings, asked, shown>>

\* The server watches for deletions only, so a save is not announced.
SaveDocument(f) ==
    /\ buf[f] \notin {NoText, disk[f]}
    /\ server = "running"
    /\ Spend("saves")
    /\ disk' = [disk EXCEPT ![f] = buf[f]]
    /\ ServerUnchanged
    /\ UNCHANGED <<buf, settings, asked, shown, inbox>>

DeleteFiles(deleted) ==
    /\ \A i \in DOMAIN deleted : disk[deleted[i]] # NoText
    /\ Spend("deletes")
    /\ disk' = [f \in Path |-> IF \E i \in DOMAIN deleted : deleted[i] = f THEN NoText ELSE disk[f]]
    /\ Send([kind |-> "didChangeWatchedFiles", uris |-> deleted])
    /\ UNCHANGED <<buf, settings, asked, shown>>

ChangeSettings(c) ==
    /\ c # settings
    /\ Spend("settings")
    /\ settings' = c
    /\ Send([kind |-> "didChangeConfiguration"])
    /\ UNCHANGED <<disk, buf, asked, shown>>

\* The client looks the answer up when it receives the request ...
PrepareAnswer(r) ==
    /\ server = "running"
    /\ r.body = Open
    /\ asked' = (asked \ {r}) \cup
          {[r EXCEPT !.body = IF r.method = "registerCapability" THEN Null
                              ELSE [kind |-> "settings", value |-> settings]]}
    /\ ServerUnchanged
    /\ UNCHANGED <<disk, buf, settings, shown, budget, inbox>>

\* ... or fails to ...
FailAnswer(r) ==
    /\ server = "running"
    /\ r.body = Open
    /\ Spend("faults")
    /\ \E body \in {Null, ErrorBody, EmptyList} :
          asked' = (asked \ {r}) \cup {[r EXCEPT !.body = body]}
    /\ ServerUnchanged
    /\ UNCHANGED <<disk, buf, settings, shown, inbox>>

\* ... and sends it later, in any order.
SendAnswer(r) ==
    /\ r.body # Open
    /\ asked' = asked \ {r}
    /\ Send([kind |-> "response", id |-> r.id, body |-> r.body])
    /\ UNCHANGED <<disk, buf, settings, shown, budget>>

\* Messages no document or settings change explains: a request, a notification
\* about a document that is not a file, a change without content.
SendStray(m) ==
    /\ Spend("faults")
    /\ Send(m)
    /\ UNCHANGED <<disk, buf, settings, asked, shown>>

\* The client leaves, after the shutdown handshake or without it.
Leave(kind) ==
    /\ Spend("exits")
    /\ Send([kind |-> kind])
    /\ UNCHANGED <<disk, buf, settings, asked, shown>>

StrayMessages ==
    {[kind |-> "request"]}
    \cup {[kind |-> "didClose", uri |-> BadUri]}
    \cup {[kind |-> "didOpen", uri |-> BadUri, text |-> t] : t \in Text}
    \cup {[kind |-> "didChange", uri |-> f, texts |-> <<>>] : f \in Editable}
    \cup {[kind |-> "didChangeWatchedFiles", uris |-> <<f, BadUri>>] : f \in Editable}

Deletions == {<<f>> : f \in Editable} \cup
             {<<p[1], p[2]>> : p \in {q \in Editable \X Editable : q[1] # q[2]}}

Client ==
    \/ \E f \in Editable, t \in Text : OpenDocument(f, t)
    \/ \E f \in Editable, t \in Text : EditDocument(f, t, <<>>) \/ EditDocument(f, t, <<buf[f]>>)
    \/ \E f \in Editable : CloseDocument(f) \/ SaveDocument(f)
    \/ \E d \in Deletions : DeleteFiles(d)
    \/ \E c \in Configs : ChangeSettings(c)
    \/ \E r \in asked : PrepareAnswer(r) \/ FailAnswer(r) \/ SendAnswer(r)
    \/ \E m \in StrayMessages : SendStray(m)
    \/ \E kind \in {"shutdown", "hangup"} : Leave(kind)

-----------------------------------------------------------------------------
(* The main loop: one turn per action.  A turn that ends in Err ends the server. *)

Receive(kind) ==
    /\ server = "running"
    /\ inbox # <<>>
    /\ Head(inbox).kind = kind
    /\ inbox' = Tail(inbox)

\* Mutant: a URI that is not the URI of a file is taken as it is.
OnDidOpenUnchecked ==
    /\ Receive("didOpen")
    /\ LET m == Head(inbox) IN
       /\ fs_events' = Append(fs_events, [kind |-> "AddFile", path |-> m.uri, text |-> m.text])
       /\ opened' = opened \cup {m.uri}
    /\ UNCHANGED <<clientVars, resp_events, jobs, next_request_id,
                   configuration_request_id, db, config, server, history>>

\* on_notification, DidOpenTextDocument
OnDidOpen ==
    /\ Receive("didOpen")
    /\ LET m == Head(inbox) IN
       \/ /\ m.uri = BadUri
          /\ server' = "failed"
          /\ UNCHANGED <<fs_events, opened>>
       \/ /\ m.uri # BadUri
          /\ fs_events' = Append(fs_events, [kind |-> "AddFile", path |-> m.uri, text |-> m.text])
          /\ opened' = opened \cup {m.uri}
          /\ UNCHANGED server
    /\ UNCHANGED <<clientVars, resp_events, jobs, next_request_id,
                   configuration_request_id, db, config, history>>

\* Mutant: the first content change is taken for the text.
OnDidChangeFirst ==
    /\ Receive("didChange")
    /\ LET m == Head(inbox) IN
       /\ m.uri # BadUri /\ m.texts # <<>>
       /\ fs_events' = Append(fs_events, [kind |-> "ChangeFile", path |-> m.uri,
                                          text |-> Head(m.texts)])
       /\ opened' = opened \cup {m.uri}
    /\ UNCHANGED <<clientVars, resp_events, jobs, next_request_id,
                   configuration_request_id, db, config, server, history>>

\* on_notification, DidChangeTextDocument: the last content change is the text.
OnDidChange ==
    /\ Receive("didChange")
    /\ LET m == Head(inbox) IN
       \/ /\ m.uri = BadUri \/ m.texts = <<>>
          /\ server' = "failed"
          /\ UNCHANGED <<fs_events, opened>>
       \/ /\ m.uri # BadUri /\ m.texts # <<>>
          /\ fs_events' = Append(fs_events, [kind |-> "ChangeFile", path |-> m.uri,
                                             text |-> m.texts[Len(m.texts)]])
          /\ opened' = opened \cup {m.uri}
          /\ UNCHANGED server
    /\ UNCHANGED <<clientVars, resp_events, jobs, next_request_id,
                   configuration_request_id, db, config, history>>

\* on_notification, DidCloseTextDocument: no file event, so no new diagnostics.
OnDidClose ==
    /\ Receive("didClose")
    /\ LET m == Head(inbox) IN
       /\ opened' = opened \ {m.uri}
       /\ server' = IF m.uri = BadUri THEN "failed" ELSE server
    /\ UNCHANGED <<clientVars, fs_events, resp_events, jobs, next_request_id,
                   configuration_request_id, db, config, history>>

\* on_notification, DidChangeWatchedFiles: whatever the change, the files are
\* removed, up to the first URI that is not the URI of a file.
OnDidChangeWatchedFiles ==
    /\ Receive("didChangeWatchedFiles")
    /\ LET uris == Head(inbox).uris IN
       \E n \in 0..Len(uris) :
          /\ \A i \in 1..n : uris[i] # BadUri
          /\ n < Len(uris) => uris[n + 1] = BadUri
          /\ opened' = opened \ {uris[i] : i \in 1..n}
          /\ fs_events' = fs_events \o [i \in 1..n |-> [kind |-> "RemoveFile", path |-> uris[i]]]
          /\ server' = IF n < Len(uris) THEN "failed" ELSE server
    /\ UNCHANGED <<clientVars, resp_events, jobs, next_request_id,
                   configuration_request_id, db, config, history>>

\* Mutant: a request that is still open keeps its place.
OnDidChangeConfigurationKeep ==
    /\ Receive("didChangeConfiguration")
    /\ next_request_id' = next_request_id + 1
    /\ configuration_request_id' = IF configuration_request_id = 0 THEN next_request_id + 1
                                   ELSE configuration_request_id
    /\ asked' = asked \cup
          {[id |-> next_request_id + 1, method |-> "configuration", body |-> Open]}
    /\ UNCHANGED <<disk, buf, settings, shown, budget, fs_events, resp_events, jobs,
                   opened, db, config, server, history>>

\* on_notification, DidChangeConfiguration: ask for the settings under a new id.
OnDidChangeConfiguration ==
    /\ Receive("didChangeConfiguration")
    /\ next_request_id' = next_request_id + 1
    /\ configuration_request_id' = next_request_id + 1
    /\ asked' = asked \cup
          {[id |-> next_request_id + 1, method |-> "configuration", body |-> Open]}
    /\ UNCHANGED <<disk, buf, settings, shown, budget, fs_events, resp_events, jobs,
                   opened, db, config, server, history>>

\* Mutant: any answer with settings is taken.
OnResponseAny ==
    /\ Receive("response")
    /\ LET m == Head(inbox) IN
       \/ /\ m.body.kind = "settings"
          /\ config' = m.body.value
          /\ db' = LoadFiles(m.body.value)
       \/ /\ m.body.kind # "settings"
          /\ UNCHANGED <<config, db>>
    /\ configuration_request_id' = 0
    /\ UNCHANGED <<clientVars, fs_events, resp_events, jobs, opened,
                   next_request_id, server, history>>

\* loop_turn, Message::Response: settings in the awaited answer replace the whole
\* database by what the disk holds; nothing is checked again.
OnResponse ==
    /\ Receive("response")
    /\ LET m == Head(inbox) IN
       \/ /\ m.id = configuration_request_id /\ m.body.kind = "settings"
          /\ configuration_request_id' = 0
          /\ config' = m.body.value
          /\ db' = LoadFiles(m.body.value)
       \/ /\ m.id = configuration_request_id /\ m.body.kind # "settings"
          /\ configuration_request_id' = 0
          /\ UNCHANGED <<config, db>>
       \/ /\ m.id # configuration_request_id
          /\ UNCHANGED <<configuration_request_id, config, db>>
    /\ UNCHANGED <<clientVars, fs_events, resp_events, jobs, opened,
                   next_request_id, server, history>>

\* Any request but shutdown gets no answer.
OnRequest ==
    /\ Receive("request")
    /\ UNCHANGED <<clientVars, fs_events, resp_events, jobs, loopVars, server, history>>

\* handle_shutdown and break: what is queued is dropped.
OnShutdown ==
    /\ Receive("shutdown")
    /\ server' = "stopped"
    /\ UNCHANGED <<clientVars, fs_events, resp_events, jobs, loopVars, history>>

\* The channel is closed and drained.
OnHangup ==
    /\ Receive("hangup")
    /\ server' = "failed"
    /\ UNCHANGED <<clientVars, fs_events, resp_events, jobs, loopVars, history>>

LspTurn ==
    \/ OnDidOpen \/ OnDidChange \/ OnDidClose \/ OnDidChangeWatchedFiles
    \/ OnDidChangeConfiguration \/ OnResponse
    \/ OnRequest \/ OnShutdown \/ OnHangup

\* Mutant: no check is scheduled while the pool is busy.
FileSystemTurnBusy ==
    /\ server = "running"
    /\ fs_events # <<>>
    /\ fs_events' = Tail(fs_events)
    /\ db' = ApplyChange(db, Head(fs_events))
    /\ LET n     == latest.n + 1
           files == opened \cup ModuleFiles(db', config)
       IN
       /\ jobs' = IF jobs # <<>> THEN jobs
                  ELSE Append(jobs, [n |-> n, db |-> db', config |-> config,
                                     todo |-> files, diags |-> <<>>])
       /\ latest' = [n |-> n, db |-> db', config |-> config, files |-> files]
    /\ UNCHANGED <<clientVars, inbox, resp_events, opened, next_request_id,
                   configuration_request_id, config, server, published>>

\* loop_turn, Event::FileSystem: apply the event, then schedule a check of the
\* opened files and the module files on a snapshot of the database.
FileSystemTurn ==
    /\ server = "running"
    /\ fs_events # <<>>
    /\ fs_events' = Tail(fs_events)
    /\ db' = ApplyChange(db, Head(fs_events))
    /\ LET n     == latest.n + 1
           files == opened \cup ModuleFiles(db', config)
       IN
       /\ jobs' = Append(jobs, [n |-> n, db |-> db', config |-> config,
                                todo |-> files, diags |-> <<>>])
       /\ latest' = [n |-> n, db |-> db', config |-> config, files |-> files]
    /\ UNCHANGED <<clientVars, inbox, resp_events, opened, next_request_id,
                   configuration_request_id, config, server, published>>

\* on_task: every FileDiagnostic replaces what the editor shows for its file, so
\* the last one of a file stays.
LastOf(diags, f) ==
    {i \in DOMAIN diags : diags[i].fpath = f /\ \A j \in DOMAIN diags : j > i => diags[j].fpath # f}

Publish(diags) ==
    [f \in Path |-> IF LastOf(diags, f) = {} THEN shown[f]
                    ELSE diags[CHOOSE i \in LastOf(diags, f) : TRUE].diagnostic]

\* loop_turn, Event::Response
ResponseTurn ==
    /\ server = "running"
    /\ resp_events # <<>>
    /\ resp_events' = Tail(resp_events)
    /\ shown' = Publish(Head(resp_events).diags)
    /\ published' = Head(resp_events).n
    /\ UNCHANGED <<disk, buf, settings, asked, budget, inbox, fs_events, jobs,
                   loopVars, server, latest>>

-----------------------------------------------------------------------------
(* The worker: compute_file_diagnostics, one file of the job at a time, in the
   order of a HashSet.  A job is the position i of the queue it is run from. *)

\* Mutant: a pool of two threads.
TwoThreads == 2

\* ThreadPool::new(1)
PoolSize == 1
Running == {i \in DOMAIN jobs : i <= PoolSize}

Clear(f)      == [fpath |-> f, diagnostic |-> NoText]
Fault(job, f) == [fpath |-> f, diagnostic |-> job.db[f]]

WorkerUnchanged ==
    UNCHANGED <<clientVars, inbox, fs_events, loopVars, server, history>>

Checked(i, f, diags) ==
    /\ jobs' = [jobs EXCEPT ![i].todo = @ \ {f}, ![i].diags = @ \o diags]
    /\ UNCHANGED resp_events
    /\ WorkerUnchanged

FinishJob(i) == jobs' = SubSeq(jobs, 1, i - 1) \o SubSeq(jobs, i + 1, Len(jobs))

\* The file is not in the snapshot.
CheckUntracked(i, f) ==
    /\ jobs[i].db[f] = NoText
    /\ Checked(i, f, <<Clear(f)>>)

\* Mutant: the diagnostics of the file are cleared after it is checked.
CheckTrackedClearLast(i, f) ==
    LET job == jobs[i]
        s   == CompiledFiles(job.db, job.config, f)
    IN
    /\ job.db[f] # NoText
    /\ \/ /\ ErrorFiles(s) = {}
          /\ Checked(i, f, <<Clear(f)>>)
       \/ /\ \A g \in ErrorFiles(s) : job.db[g] # NoText
          /\ \E g \in FirstErrorFiles(s, job.config, f) :
                Checked(i, f, <<Fault(job, g), Clear(f)>>)

\* check_file: no error, or the first of the errors, all of which make_diagnostic
\* has to place in a file of the snapshot.
CheckTracked(i, f) ==
    LET job == jobs[i]
        s   == CompiledFiles(job.db, job.config, f)
    IN
    /\ job.db[f] # NoText
    /\ \/ /\ ErrorFiles(s) = {}
          /\ Checked(i, f, <<Clear(f)>>)
       \/ /\ \A g \in ErrorFiles(s) : job.db[g] # NoText
          /\ \E g \in FirstErrorFiles(s, job.config, f) :
                Checked(i, f, <<Clear(f), Fault(job, g)>>)

\* make_diagnostic fails: an error is located in a library file the snapshot does
\* not have, or has with another text in which its position may not exist.
Panics(job, f) ==
    LET s == CompiledFiles(job.db, job.config, f) IN
    /\ job.db[f] # NoText
    /\ \E g \in ErrorFiles(s) : job.db[g] # s[g]

\* Mutant: a job that panics is run again.
CheckPanicsAgain(i, f) ==
    /\ Panics(jobs[i], f)
    /\ UNCHANGED <<jobs, resp_events>>
    /\ WorkerUnchanged

\* The job panics, the batch is lost and the pool replaces its thread.
CheckPanics(i, f) ==
    /\ Panics(jobs[i], f)
    /\ FinishJob(i)
    /\ UNCHANGED resp_events
    /\ WorkerUnchanged

SendBatch(i) ==
    /\ jobs[i].todo = {}
    /\ resp_events' = Append(resp_events, [n |-> jobs[i].n, diags |-> jobs[i].diags])
    /\ FinishJob(i)
    /\ WorkerUnchanged

Worker ==
    /\ server = "running"
    /\ \E i \in Running :
          \/ \E f \in jobs[i].todo : CheckUntracked(i, f) \/ CheckTracked(i, f) \/ CheckPanics(i, f)
          \/ SendBatch(i)

-----------------------------------------------------------------------------
Next == Client \/ LspTurn \/ FileSystemTurn \/ ResponseTurn \/ Worker

Spec == Init /\ [][Next]_vars

\* select! never starves a channel that stays ready and the pool runs every job;
\* nothing obliges the client to do anything.
Fairness == WF_vars(LspTurn) /\ WF_vars(FileSystemTurn) /\ WF_vars(ResponseTurn) /\ WF_vars(Worker)

FairSpec == Spec /\ Fairness

-----------------------------------------------------------------------------
(* Properties *)

\* Every variable keeps its type, whatever the client sends: no event, job or batch names
\* a path that is not the path of a file (uri_to_str, main_loop.rs:429).
TypeOK ==
    /\ disk \in Files /\ buf \in Files /\ shown \in Files /\ db \in Files
    /\ settings \in Configs /\ config \in Configs
    /\ asked \in SUBSET Request
    /\ budget \in [Steps -> Nat]
    /\ inbox \in Seq(Message)
    /\ fs_events \in Seq(FileSystemEvent)
    /\ resp_events \in Seq(Batch)
    /\ jobs \in Seq(Job)
    /\ opened \in SUBSET Path
    /\ next_request_id \in Nat /\ configuration_request_id \in Nat
    /\ server \in {"running", "stopped", "failed"}
    /\ latest \in Snapshot
    /\ published \in Nat

\* Batches of diagnostics reach the editor in the order in which their snapshots
\* were taken: what is published, waits in resp_events, and is still being
\* computed by the pool are increasingly recent snapshots (main_loop.rs:103,225).
InOrder ==
    /\ \A i \in DOMAIN resp_events : published < resp_events[i].n
    /\ \A i, j \in DOMAIN resp_events : i < j => resp_events[i].n < resp_events[j].n
    /\ \A i \in DOMAIN resp_events, j \in DOMAIN jobs : resp_events[i].n < jobs[j].n
    /\ \A i, j \in DOMAIN jobs : i < j => jobs[i].n < jobs[j].n
    /\ \A j \in DOMAIN jobs : published < jobs[j].n /\ jobs[j].n <= latest.n
    /\ \A i \in DOMAIN resp_events : resp_events[i].n <= latest.n
    /\ published <= latest.n

\* The editor never falls back to diagnostics of an older snapshot: a batch that is
\* published is more recent than every batch before it (on_task, main_loop.rs:241).
NeverOlder == [][published' > published \/ shown' = shown]_vars

Idle == fs_events = <<>> /\ jobs = <<>> /\ resp_events = <<>>

\* Nothing has replaced the database since the last check was scheduled.
Analysed == latest.n > 0 /\ latest.db = db /\ latest.config = config

\* Once the loop and the worker are idle, the editor shows for the files the server
\* answers for exactly what the database calls for: an error only in a file that has
\* one, against its present text, and an error for every file that does not parse,
\* in whatever order the files were checked (main_loop.rs:361-390).
ShownIsCurrent ==
    Idle /\ Analysed =>
        \A f \in opened \cup ModuleFiles(db, config) :
            /\ shown[f] # NoText =>
                  /\ shown[f] = db[f]
                  /\ \E g \in latest.files : f \in ErrorFiles(CompiledFiles(db, config, g))
            /\ db[f] \in Broken => shown[f] = db[f]

\* Once the messages are worked off, the database has the text of every buffer the
\* server counts as opened, whatever the order in which select! took messages and
\* file events (main_loop.rs:277-306).
BuffersInDatabase ==
    server = "running" /\ inbox = <<>> /\ fs_events = <<>> =>
        \A f \in opened : buf[f] # NoText => db[f] = buf[f]

\* A settings answer takes effect only if it answers the most recent request: one
\* that was overtaken by a later request is dropped (main_loop.rs:186).
StaleAnswerIgnored ==
    [][config' # config => Head(inbox).kind = "response" /\ Head(inbox).id = next_request_id]_vars

\* When every request is answered and every message worked off, the server runs with
\* the settings the user has chosen last (main_loop.rs:319-337, 185-206).
SettingsInForce ==
    server = "running" /\ inbox = <<>> /\ asked = {} => config = settings

Announces(m, f, t) ==
    \/ m.kind = "didOpen" /\ m.uri = f /\ m.text = t
    \/ m.kind = "didChange" /\ m.uri = f /\ m.texts # <<>> /\ m.texts[Len(m.texts)] = t

JustSent(f, t) == inbox # <<>> /\ Announces(inbox[Len(inbox)], f, t)

\* The last message about f removes it.
RemovalSent(f) ==
    \E i \in DOMAIN inbox :
        /\ inbox[i].kind = "didChangeWatchedFiles"
        /\ \E k \in DOMAIN inbox[i].uris : inbox[i].uris[k] = f
        /\ \A j \in DOMAIN inbox : j > i => \A t \in Text : ~Announces(inbox[j], f, t)

\* A batch that checks f with the text t is about to be lost.
BatchMayPanic(f, t) ==
    \E i \in Running : jobs[i].db[f] = t /\ \E g \in jobs[i].todo : Panics(jobs[i], g)

\* A text that does not parse, once it is sent, is eventually reported, through the
\* notification, the file event, the job and the batch (main_loop.rs:158-228) and
\* whatever settings arrive in between - unless the buffer is edited again or closed,
\* the file is removed, the server ends, or a batch that has this text comes to check a
\* file while a library file is at fault on disk that the snapshot has otherwise: that
\* batch panics (analysis.rs:48-54) and takes the reports of all its files with it.
BrokenReported ==
    \A f \in Editable : \A t \in Broken :
        (server = "running" /\ buf[f] = t /\ JustSent(f, t))
            ~> \/ shown[f] = t
               \/ buf[f] # t \/ RemovalSent(f)
               \/ BatchMayPanic(f, t)
               \/ server # "running"

\* Whatever happens to a job, the pool comes to the end of its queue again and again
\* while the server runs: a panic takes one batch with it and not the worker.
PoolDrains == []<>(jobs = <<>> \/ server # "running")

=============================================================================
