------------------------ MODULE LanguageServerProofs ------------------------
(***************************************************************************)
(* What TLAPS proves of LanguageServer for every set of files, texts and   *)
(* settings, and for every budget of the client.                           *)
(***************************************************************************)
EXTENDS LanguageServer, SequenceTheorems, TLAPS

\* The queue of the pool is served from its head only: the job that is finished
\* is the first one.
LEMMA FinishIsTail ==
    ASSUME NEW i \in Running, jobs \in Seq(Job), FinishJob(i)
    PROVE  i = 1 /\ jobs # <<>> /\ jobs' = Tail(jobs)
<1>1. i = 1 /\ jobs # <<>> /\ Len(jobs) \in Nat /\ Len(jobs) > 0
  BY DEF Running, PoolSize
<1>2. SubSeq(jobs, 1, 0) = <<>>
  OBVIOUS
<1>3. SubSeq(jobs, 2, Len(jobs)) = Tail(jobs)
  BY <1>1
<1>4. Tail(jobs) \in Seq(Job)
  BY <1>1
<1>5. QED
  BY <1>1, <1>2, <1>3, <1>4, ConcatEmptySeq DEF FinishJob

\* The fields of a message by its kind.
LEMMA MessageFields ==
    ASSUME NEW m \in Message
    PROVE  /\ m.kind = "didOpen" => m.uri \in Uri /\ m.text \in Text
           /\ m.kind = "didChange" => m.uri \in Uri /\ m.texts \in Seq(Text)
           /\ m.kind = "didClose" => m.uri \in Uri
           /\ m.kind = "didChangeWatchedFiles" => m.uris \in Seq(Uri)
           /\ m.kind = "response" => m.id \in Nat \ {0} /\ m.body \in Body
BY DEF Message

\* The messages the client sends are messages.
LEMMA SentMessages ==
    /\ \A f \in Path, t \in Text : [kind |-> "didOpen", uri |-> f, text |-> t] \in Message
    /\ \A f \in Path, ts \in Seq(Text) : [kind |-> "didChange", uri |-> f, texts |-> ts] \in Message
    /\ \A f \in Path : [kind |-> "didClose", uri |-> f] \in Message
    /\ \A us \in Seq(Uri) : [kind |-> "didChangeWatchedFiles", uris |-> us] \in Message
    /\ \A i \in Nat \ {0}, b \in Body : [kind |-> "response", id |-> i, body |-> b] \in Message
    /\ \A k \in {"didChangeConfiguration", "request", "shutdown", "hangup"} : [kind |-> k] \in Message
BY DEF Message, Uri

LEMMA StrayMessagesType == StrayMessages \subseteq Message
<1>1. Editable \subseteq Path
  BY ConstantsAssumption
<1>2. \A t \in Text : [kind |-> "didOpen", uri |-> BadUri, text |-> t] \in Message
  BY DEF Message, Uri
<1>3. [kind |-> "didClose", uri |-> BadUri] \in Message
  BY DEF Message, Uri
<1>4. \A f \in Path : <<f, BadUri>> \in Seq(Uri)
  BY DEF Uri
<1>5. \A f \in Path : [kind |-> "didChangeWatchedFiles", uris |-> <<f, BadUri>>] \in Message
  BY <1>4, SentMessages
<1>6. \A f \in Path : [kind |-> "didChange", uri |-> f, texts |-> <<>>] \in Message
  BY <<>> \in Seq(Text), SentMessages
<1>7. [kind |-> "request"] \in Message
  BY SentMessages
<1>8. QED
  BY <1>1, <1>2, <1>3, <1>5, <1>6, <1>7, Zenon DEF StrayMessages

LEMMA DeletionsType == Deletions \subseteq Seq(Path)
<1>1. \A f \in Editable : <<f>> \in Seq(Path)
  BY ConstantsAssumption
<1>2. \A q \in Editable \X Editable : <<q[1], q[2]>> \in Seq(Path)
  BY ConstantsAssumption
<1>3. QED
  BY <1>1, <1>2, Zenon DEF Deletions

\* Answers: their kind and, for settings, the value.
LEMMA BodyFields ==
    /\ Null \in Body /\ ErrorBody \in Body /\ EmptyList \in Body
    /\ \A c \in Configs : [kind |-> "settings", value |-> c] \in Body
    /\ \A b \in Body : b.kind = "settings" => b.value \in Configs
BY DEF Body, Null, ErrorBody, EmptyList

-----------------------------------------------------------------------------
(* Type correctness *)

LEMMA InitType == Init => TypeOK
<1>1. SUFFICES ASSUME Init PROVE TypeOK
  OBVIOUS
<1>a. disk \in Files /\ settings \in Configs
  BY <1>1, ConstantsAssumption DEF Init
<1>2. disk \in Files /\ buf \in Files /\ shown \in Files /\ db \in Files
  BY <1>1, <1>a DEF Init, Files, File, LoadFiles
<1>3. asked \in SUBSET Request
  BY <1>1 DEF Init, Request, Registration
<1>4. latest \in Snapshot
  BY <1>1, <1>a, <1>2 DEF Init, Snapshot
<1>5. QED
  BY <1>1, <1>a, <1>2, <1>3, <1>4, ConstantsAssumption DEF Init, TypeOK

LEMMA SpendType ==
    ASSUME TypeOK, NEW step \in Steps \ {"total"}, Spend(step)
    PROVE  budget' \in [Steps -> Nat]
<1>1. step # "total" /\ "total" \in Steps
  BY DEF Steps
<1>2. /\ budget \in [Steps -> Nat] /\ budget[step] > 0 /\ budget["total"] > 0
      /\ budget' = [budget EXCEPT ![step] = @ - 1, !["total"] = @ - 1]
  BY DEF TypeOK, Spend
<1>3. budget[step] - 1 \in Nat /\ budget["total"] - 1 \in Nat
  BY <1>1, <1>2
<1>4. [budget EXCEPT ![step] = @ - 1] \in [Steps -> Nat]
  BY <1>2, <1>3
<1>5. QED
  BY <1>1, <1>2, <1>3, <1>4

LEMMA SendType ==
    ASSUME TypeOK, NEW m \in Message, Send(m)
    PROVE  inbox' \in Seq(Message)
BY DEF TypeOK, Send

\* Client steps keep the types.
LEMMA ClientType ==
    ASSUME TypeOK, Client
    PROVE  TypeOK'
<1> USE ConstantsAssumption DEF TypeOK
<1>s. {"edits", "deletes", "saves", "settings", "faults", "exits"} \subseteq Steps \ {"total"}
  BY DEF Steps
<1>f. Editable \subseteq Path
  OBVIOUS
<1>1. ASSUME NEW f \in Editable, NEW t \in Text, OpenDocument(f, t)
      PROVE  TypeOK'
  <2>1. buf' \in Files
    BY <1>1, <1>f DEF OpenDocument, Files, File
  <2>2. inbox' \in Seq(Message) /\ budget' \in [Steps -> Nat]
    BY <1>1, <1>s, <1>f, SendType, SpendType, SentMessages DEF OpenDocument
  <2>3. QED
    BY <1>1, <2>1, <2>2 DEF OpenDocument, Send, ServerUnchanged, loopVars, history
<1>2. ASSUME NEW f \in Editable, NEW t \in Text, NEW earlier \in Seq(Text), EditDocument(f, t, earlier)
      PROVE  TypeOK'
  <2>1. buf' \in Files
    BY <1>2, <1>f DEF EditDocument, Files, File
  <2>2. Append(earlier, t) \in Seq(Text)
    BY <1>2
  <2>3. inbox' \in Seq(Message) /\ budget' \in [Steps -> Nat]
    BY <1>2, <1>s, <1>f, <2>2, SendType, SpendType, SentMessages DEF EditDocument
  <2>4. QED
    BY <1>2, <2>1, <2>3 DEF EditDocument, Send, ServerUnchanged, loopVars, history
<1>3. ASSUME NEW f \in Editable, CloseDocument(f)
      PROVE  TypeOK'
  <2>1. buf' \in Files
    BY <1>3, <1>f DEF CloseDocument, Files, File
  <2>2. inbox' \in Seq(Message) /\ budget' \in [Steps -> Nat]
    BY <1>3, <1>s, <1>f, SendType, SpendType, SentMessages DEF CloseDocument
  <2>3. QED
    BY <1>3, <2>1, <2>2 DEF CloseDocument, Send, ServerUnchanged, loopVars, history
<1>4. ASSUME NEW f \in Editable, SaveDocument(f)
      PROVE  TypeOK'
  <2>1. disk' \in Files
    BY <1>4, <1>f DEF SaveDocument, Files, File
  <2>2. budget' \in [Steps -> Nat]
    BY <1>4, <1>s, SpendType DEF SaveDocument
  <2>3. QED
    BY <1>4, <2>1, <2>2 DEF SaveDocument, ServerUnchanged, loopVars, history
<1>5. ASSUME NEW d \in Deletions, DeleteFiles(d)
      PROVE  TypeOK'
  <2>1. disk' \in Files
    BY <1>5 DEF DeleteFiles, Files, File
  <2>2. d \in Seq(Path)
    BY DeletionsType
  <2>3. d \in Seq(Uri)
    BY <2>2 DEF Uri
  <2>4. inbox' \in Seq(Message) /\ budget' \in [Steps -> Nat]
    BY <1>5, <1>s, <2>3, SendType, SpendType, SentMessages DEF DeleteFiles
  <2>5. QED
    BY <1>5, <2>1, <2>4 DEF DeleteFiles, Send, ServerUnchanged, loopVars, history
<1>6. ASSUME NEW c \in Configs, ChangeSettings(c)
      PROVE  TypeOK'
  <2>1. inbox' \in Seq(Message) /\ budget' \in [Steps -> Nat]
    BY <1>6, <1>s, SendType, SpendType, SentMessages DEF ChangeSettings
  <2>2. QED
    BY <1>6, <2>1 DEF ChangeSettings, Send, ServerUnchanged, loopVars, history
<1>7. ASSUME NEW r \in asked, PrepareAnswer(r)
      PROVE  TypeOK'
  <2> DEFINE b == IF r.method = "registerCapability" THEN Null
                  ELSE [kind |-> "settings", value |-> settings]
  <2>1. b \in Body
    BY BodyFields
  <2>2. asked' = (asked \ {r}) \cup {[r EXCEPT !.body = b]}
    BY <1>7 DEF PrepareAnswer
  <2> HIDE DEF b
  <2>3. asked' \in SUBSET Request
    BY <2>1, <2>2 DEF Request
  <2>4. QED
    BY <1>7, <2>3 DEF PrepareAnswer, ServerUnchanged, loopVars, history
<1>8. ASSUME NEW r \in asked, FailAnswer(r)
      PROVE  TypeOK'
  <2>1. PICK body \in {Null, ErrorBody, EmptyList} : asked' = (asked \ {r}) \cup {[r EXCEPT !.body = body]}
    BY <1>8 DEF FailAnswer
  <2>2. asked' \in SUBSET Request
    BY <2>1, BodyFields DEF Request
  <2>3. budget' \in [Steps -> Nat]
    BY <1>8, <1>s, SpendType DEF FailAnswer
  <2>4. QED
    BY <1>8, <2>2, <2>3 DEF FailAnswer, ServerUnchanged, loopVars, history
<1>9. ASSUME NEW r \in asked, SendAnswer(r)
      PROVE  TypeOK'
  <2>1. r \in Request
    OBVIOUS
  <2>2. r.id \in Nat \ {0} /\ r.body \in Body
    BY <1>9, <2>1 DEF SendAnswer, Request
  <2>3. inbox' \in Seq(Message)
    BY <1>9, <2>2, SendType, SentMessages DEF SendAnswer
  <2>4. QED
    BY <1>9, <2>3 DEF SendAnswer, Send, ServerUnchanged, loopVars, history
<1>10. ASSUME NEW m \in StrayMessages, SendStray(m)
       PROVE  TypeOK'
  <2>1. inbox' \in Seq(Message) /\ budget' \in [Steps -> Nat]
    BY <1>10, <1>s, SendType, SpendType, StrayMessagesType DEF SendStray
  <2>2. QED
    BY <1>10, <2>1 DEF SendStray, Send, ServerUnchanged, loopVars, history
<1>11. ASSUME NEW kind \in {"shutdown", "hangup"}, Leave(kind)
       PROVE  TypeOK'
  <2>1. inbox' \in Seq(Message) /\ budget' \in [Steps -> Nat]
    BY <1>11, <1>s, SendType, SpendType, SentMessages DEF Leave
  <2>2. QED
    BY <1>11, <2>1 DEF Leave, Send, ServerUnchanged, loopVars, history
<1>12. \A f \in Editable, t \in Text : EditDocument(f, t, <<buf[f]>>) => <<buf[f]>> \in Seq(Text)
  BY <1>f DEF EditDocument, Files, File
<1>13. <<>> \in Seq(Text)
  OBVIOUS
<1>14. QED
  BY <1>1, <1>2, <1>3, <1>4, <1>5, <1>6, <1>7, <1>8, <1>9, <1>10, <1>11, <1>12, <1>13 DEF Client

LEMMA ReceiveType ==
    ASSUME TypeOK, NEW kind, Receive(kind)
    PROVE  Head(inbox) \in Message /\ inbox' \in Seq(Message) /\ Head(inbox).kind = kind
BY HeadTailProperties DEF TypeOK, Receive

LEMMA LoadFilesType ==
    ASSUME disk \in Files, NEW c \in Configs
    PROVE  LoadFiles(c) \in Files
BY DEF LoadFiles, Files, File

\* Turns on a message of the client keep the types.
LEMMA LspTurnType ==
    ASSUME TypeOK, LspTurn
    PROVE  TypeOK'
<1> USE DEF TypeOK
<1> DEFINE m == Head(inbox)
<1>1. CASE OnDidOpen
  <2>1. m \in Message /\ m.kind = "didOpen" /\ inbox' \in Seq(Message)
    BY <1>1, ReceiveType DEF OnDidOpen
  <2>2. m.uri \in Uri /\ m.text \in Text
    BY <2>1, MessageFields
  <2> DEFINE e == [kind |-> "AddFile", path |-> m.uri, text |-> m.text]
  <2>3. \/ UNCHANGED <<fs_events, opened>>
        \/ m.uri # BadUri /\ fs_events' = Append(fs_events, e) /\ opened' = opened \cup {m.uri}
    BY <1>1 DEF OnDidOpen
  <2>e. m.uri # BadUri => e \in FileSystemEvent /\ m.uri \in Path
    BY <2>2 DEF FileSystemEvent, Uri
  <2> HIDE DEF e, m
  <2>4. fs_events' \in Seq(FileSystemEvent) /\ opened' \in SUBSET Path
    <3>1. fs_events \in Seq(FileSystemEvent) /\ opened \in SUBSET Path
      OBVIOUS
    <3>2. CASE UNCHANGED <<fs_events, opened>>
      BY <3>1, <3>2
    <3>3. CASE ~UNCHANGED <<fs_events, opened>>
      <4>1. e \in FileSystemEvent /\ m.uri \in Path
        BY <2>3, <2>e, <3>3
      <4>2. fs_events' = Append(fs_events, e) /\ opened' = opened \cup {m.uri}
        BY <2>3, <3>3
      <4>3. QED
        BY <3>1, <4>1, <4>2
    <3>4. QED
      BY <3>2, <3>3
  <2>5. QED
    BY <1>1, <2>1, <2>4 DEF OnDidOpen, clientVars, history
<1>2. CASE OnDidChange
  <2>1. m \in Message /\ m.kind = "didChange" /\ inbox' \in Seq(Message)
    BY <1>2, ReceiveType DEF OnDidChange
  <2>2. m.uri \in Uri /\ m.texts \in Seq(Text)
    BY <2>1, MessageFields
  <2>3. m.texts # <<>> => m.texts[Len(m.texts)] \in Text
    BY <2>2, LenProperties, EmptySeq
  <2> DEFINE e == [kind |-> "ChangeFile", path |-> m.uri, text |-> m.texts[Len(m.texts)]]
  <2>4. \/ UNCHANGED <<fs_events, opened>>
        \/ /\ m.uri # BadUri /\ m.texts # <<>>
           /\ fs_events' = Append(fs_events, e) /\ opened' = opened \cup {m.uri}
    BY <1>2 DEF OnDidChange
  <2>e. m.uri # BadUri /\ m.texts # <<>> => e \in FileSystemEvent /\ m.uri \in Path
    BY <2>2, <2>3 DEF FileSystemEvent, Uri
  <2> HIDE DEF e, m
  <2>5. fs_events' \in Seq(FileSystemEvent) /\ opened' \in SUBSET Path
    <3>1. fs_events \in Seq(FileSystemEvent) /\ opened \in SUBSET Path
      OBVIOUS
    <3>2. CASE UNCHANGED <<fs_events, opened>>
      BY <3>1, <3>2
    <3>3. CASE ~UNCHANGED <<fs_events, opened>>
      <4>1. e \in FileSystemEvent /\ m.uri \in Path
        BY <2>4, <2>e, <3>3
      <4>2. fs_events' = Append(fs_events, e) /\ opened' = opened \cup {m.uri}
        BY <2>4, <3>3
      <4>3. QED
        BY <3>1, <4>1, <4>2
    <3>4. QED
      BY <3>2, <3>3
  <2>6. QED
    BY <1>2, <2>1, <2>5 DEF OnDidChange, clientVars, history
<1>3. CASE OnDidClose
  <2>1. inbox' \in Seq(Message)
    BY <1>3, ReceiveType DEF OnDidClose
  <2>2. QED
    BY <1>3, <2>1 DEF OnDidClose, clientVars, history
<1>4. CASE OnDidChangeWatchedFiles
  <2>1. m \in Message /\ m.kind = "didChangeWatchedFiles" /\ inbox' \in Seq(Message)
    BY <1>4, ReceiveType DEF OnDidChangeWatchedFiles
  <2>2. m.uris \in Seq(Uri)
    BY <2>1, MessageFields
  <2>3. PICK n \in 0..Len(m.uris) :
          /\ \A i \in 1..n : m.uris[i] # BadUri
          /\ opened' = opened \ {m.uris[i] : i \in 1..n}
          /\ fs_events' = fs_events \o [i \in 1..n |-> [kind |-> "RemoveFile", path |-> m.uris[i]]]
          /\ server' = IF n < Len(m.uris) THEN "failed" ELSE server
    BY <1>4 DEF OnDidChangeWatchedFiles
  <2>4. \A i \in 1..n : m.uris[i] \in Path
    BY <2>2, <2>3 DEF Uri
  <2>5. \A i \in 1..n : [kind |-> "RemoveFile", path |-> m.uris[i]] \in FileSystemEvent
    BY <2>4 DEF FileSystemEvent
  <2>6. [i \in 1..n |-> [kind |-> "RemoveFile", path |-> m.uris[i]]] \in Seq(FileSystemEvent)
    BY <2>2, <2>5
  <2>7. fs_events' \in Seq(FileSystemEvent)
    BY <2>3, <2>6, ConcatProperties
  <2>8. QED
    BY <1>4, <2>1, <2>3, <2>7 DEF OnDidChangeWatchedFiles, clientVars, history
<1>5. CASE OnDidChangeConfiguration
  <2>1. inbox' \in Seq(Message)
    BY <1>5, ReceiveType DEF OnDidChangeConfiguration
  <2>2. next_request_id' \in Nat /\ configuration_request_id' \in Nat
    BY <1>5 DEF OnDidChangeConfiguration
  <2>3. [id |-> next_request_id + 1, method |-> "configuration", body |-> Open] \in Request
    BY DEF Request
  <2>4. asked' \in SUBSET Request
    BY <1>5, <2>3 DEF OnDidChangeConfiguration
  <2>5. QED
    BY <1>5, <2>1, <2>2, <2>4 DEF OnDidChangeConfiguration, history
<1>6. CASE OnResponse
  <2>1. m \in Message /\ m.kind = "response" /\ inbox' \in Seq(Message)
    BY <1>6, ReceiveType DEF OnResponse
  <2>2. m.body \in Body
    BY <2>1, MessageFields
  <2>3. m.body.kind = "settings" => m.body.value \in Configs /\ LoadFiles(m.body.value) \in Files
    BY <2>2, BodyFields, LoadFilesType
  <2>4. config' \in Configs /\ db' \in Files /\ configuration_request_id' \in Nat
    BY <1>6, <2>3 DEF OnResponse
  <2>5. QED
    BY <1>6, <2>1, <2>4 DEF OnResponse, clientVars, history
<1>7. CASE OnRequest
  <2>1. inbox' \in Seq(Message)
    BY <1>7, ReceiveType DEF OnRequest
  <2>2. QED
    BY <1>7, <2>1 DEF OnRequest, clientVars, loopVars, history
<1>8. CASE OnShutdown
  <2>1. inbox' \in Seq(Message)
    BY <1>8, ReceiveType DEF OnShutdown
  <2>2. QED
    BY <1>8, <2>1 DEF OnShutdown, clientVars, loopVars, history
<1>9. CASE OnHangup
  <2>1. inbox' \in Seq(Message)
    BY <1>9, ReceiveType DEF OnHangup
  <2>2. QED
    BY <1>9, <2>1 DEF OnHangup, clientVars, loopVars, history
<1>10. QED
  BY <1>1, <1>2, <1>3, <1>4, <1>5, <1>6, <1>7, <1>8, <1>9 DEF LspTurn

LEMMA ApplyChangeType ==
    ASSUME NEW files \in Files, NEW e \in FileSystemEvent
    PROVE  ApplyChange(files, e) \in Files
BY DEF ApplyChange, Files, File, FileSystemEvent

\* A turn on a file event keeps the types, and numbers the new job.
LEMMA FileSystemTurnType ==
    ASSUME TypeOK, FileSystemTurn
    PROVE  /\ TypeOK'
           /\ latest'.n = latest.n + 1
           /\ \E job \in Job : job.n = latest.n + 1 /\ jobs' = Append(jobs, job)
<1> USE DEF TypeOK
<1> DEFINE n == latest.n + 1
           files == opened \cup ModuleFiles(db', config)
           job == [n |-> n, db |-> db', config |-> config, todo |-> files, diags |-> <<>>]
<1>1. fs_events' \in Seq(FileSystemEvent) /\ Head(fs_events) \in FileSystemEvent
  BY HeadTailProperties DEF FileSystemTurn
<1>2. db' \in Files
  BY <1>1, ApplyChangeType DEF FileSystemTurn
<1>3. n \in Nat /\ config \in Configs
  BY DEF Snapshot
<1>4. files \in SUBSET Path
  BY ConstantsAssumption DEF ModuleFiles, Config
<1> HIDE DEF files, n
<1>5. job \in Job
  BY <1>2, <1>3, <1>4 DEF Job
<1>6. jobs' = Append(jobs, job) /\ latest' = [n |-> n, db |-> db', config |-> config, files |-> files]
  BY DEF FileSystemTurn, n, files
<1>7. jobs' \in Seq(Job)
  BY <1>5, <1>6
<1>8. latest' \in Snapshot /\ latest'.n = n
  BY <1>2, <1>3, <1>4, <1>6 DEF Snapshot
<1>9. TypeOK'
  BY <1>1, <1>2, <1>7, <1>8 DEF FileSystemTurn, clientVars
<1>10. QED
  BY <1>5, <1>6, <1>8, <1>9 DEF n

LEMMA PublishType ==
    ASSUME shown \in Files, NEW diags \in Seq(FileDiagnostic)
    PROVE  Publish(diags) \in Files
<1> SUFFICES ASSUME NEW f \in Path PROVE Publish(diags)[f] \in File
  BY DEF Publish, Files
<1>1. ASSUME NEW i \in LastOf(diags, f) PROVE diags[i].diagnostic \in File
  <2>1. i \in DOMAIN diags
    BY DEF LastOf
  <2>2. diags[i] \in FileDiagnostic
    BY <2>1
  <2>3. QED
    BY <2>2 DEF FileDiagnostic
<1>2. LastOf(diags, f) # {} => (CHOOSE i \in LastOf(diags, f) : TRUE) \in LastOf(diags, f)
  OBVIOUS
<1>3. QED
  BY <1>1, <1>2 DEF Publish, Files

\* A turn on a batch keeps the types.
LEMMA ResponseTurnType ==
    ASSUME TypeOK, ResponseTurn
    PROVE  TypeOK'
<1> USE DEF TypeOK
<1>1. Head(resp_events) \in Batch /\ resp_events' \in Seq(Batch)
  BY HeadTailProperties DEF ResponseTurn
<1>2. Head(resp_events).n \in Nat /\ Head(resp_events).diags \in Seq(FileDiagnostic)
  BY <1>1 DEF Batch
<1>3. shown' \in Files /\ published' \in Nat
  BY <1>2, PublishType DEF ResponseTurn
<1>4. QED
  BY <1>1, <1>3 DEF ResponseTurn, loopVars

\* Checking one file of a job changes neither the queue nor the numbers in it.
LEMMA CheckedType ==
    ASSUME TypeOK, NEW i \in DOMAIN jobs, NEW f, NEW diags \in Seq(FileDiagnostic),
           Checked(i, f, diags)
    PROVE  /\ jobs' \in Seq(Job)
           /\ Len(jobs') = Len(jobs)
           /\ \A j \in DOMAIN jobs : jobs'[j].n = jobs[j].n
           /\ UNCHANGED resp_events
<1>1. jobs \in Seq(Job) /\ jobs[i] \in Job /\ i \in 1..Len(jobs)
  BY DEF TypeOK
<1> DEFINE job == [jobs[i] EXCEPT !.todo = @ \ {f}, !.diags = @ \o diags]
<1>2. jobs[i].diags \o diags \in Seq(FileDiagnostic)
  BY <1>1, ConcatProperties DEF Job
<1>3. job \in Job /\ job.n = jobs[i].n
  BY <1>1, <1>2 DEF Job
<1>4. jobs' = [jobs EXCEPT ![i] = job]
  BY DEF Checked
<1> HIDE DEF job
<1>5. jobs' \in Seq(Job) /\ Len(jobs') = Len(jobs)
  BY <1>1, <1>3, <1>4
<1>6. \A j \in 1..Len(jobs) : jobs'[j] = IF j = i THEN job ELSE jobs[j]
  BY <1>1, <1>3, <1>4
<1>7. \A j \in DOMAIN jobs : jobs'[j].n = jobs[j].n
  BY <1>1, <1>3, <1>6
<1>8. QED
  BY <1>5, <1>7 DEF Checked

\* What a step of the worker can do to the queues: nothing, drop the first job,
\* or turn the first job into the last batch.
QueueStep ==
    \/ /\ Len(jobs') = Len(jobs)
       /\ \A j \in DOMAIN jobs : jobs'[j].n = jobs[j].n
       /\ UNCHANGED resp_events
    \/ /\ jobs # <<>> /\ jobs' = Tail(jobs)
       /\ UNCHANGED resp_events
    \/ /\ jobs # <<>> /\ jobs' = Tail(jobs)
       /\ \E b \in Batch : b.n = jobs[1].n /\ resp_events' = Append(resp_events, b)

\* The worker touches the queue of the pool and resp_events only.
LEMMA WorkerFrame ==
    ASSUME Worker
    PROVE  WorkerUnchanged
<1>1. PICK i \in Running :
        \/ \E f \in jobs[i].todo : CheckUntracked(i, f) \/ CheckTracked(i, f) \/ CheckPanics(i, f)
        \/ SendBatch(i)
  BY DEF Worker
<1>2. \A f, diags : Checked(i, f, diags) => WorkerUnchanged
  BY DEF Checked
<1>3. \A f : CheckUntracked(i, f) => WorkerUnchanged
  BY <1>2 DEF CheckUntracked
<1>4. \A f : CheckTracked(i, f) => WorkerUnchanged
  BY <1>2, Zenon DEF CheckTracked
<1>5. \A f : CheckPanics(i, f) => WorkerUnchanged
  BY DEF CheckPanics
<1>6. SendBatch(i) => WorkerUnchanged
  BY DEF SendBatch
<1>7. QED
  BY <1>1, <1>3, <1>4, <1>5, <1>6, Zenon

LEMMA WorkerType ==
    ASSUME TypeOK, Worker
    PROVE  TypeOK' /\ QueueStep /\ UNCHANGED <<shown, latest, published>>
<1> USE DEF TypeOK
<1>1. PICK i \in Running :
        \/ \E f \in jobs[i].todo : CheckUntracked(i, f) \/ CheckTracked(i, f) \/ CheckPanics(i, f)
        \/ SendBatch(i)
  BY DEF Worker
<1>2. i \in DOMAIN jobs /\ jobs[i] \in Job
  BY DEF Running
<1>3. \A f \in Path : Clear(f) \in FileDiagnostic /\ Fault(jobs[i], f) \in FileDiagnostic
  BY <1>2 DEF Clear, Fault, FileDiagnostic, Job, Files, File
<1>4. \A f \in jobs[i].todo : f \in Path
  BY <1>2 DEF Job
<1>5. WorkerUnchanged
  BY WorkerFrame
<1>6. ASSUME jobs' \in Seq(Job), resp_events' \in Seq(Batch)
      PROVE  TypeOK'
  BY <1>5, <1>6 DEF WorkerUnchanged, clientVars, loopVars, history
<1>7. ASSUME NEW f \in Path, NEW diags \in Seq(FileDiagnostic), Checked(i, f, diags)
      PROVE  TypeOK' /\ QueueStep
  BY <1>2, <1>6, <1>7, CheckedType DEF QueueStep
<1>8. ASSUME NEW f \in jobs[i].todo, CheckUntracked(i, f)
      PROVE  TypeOK' /\ QueueStep
  <2>1. <<Clear(f)>> \in Seq(FileDiagnostic)
    BY <1>3, <1>4
  <2>2. Checked(i, f, <<Clear(f)>>)
    BY <1>8 DEF CheckUntracked
  <2>3. QED
    BY <1>4, <1>7, <2>1, <2>2
<1>9. ASSUME NEW f \in jobs[i].todo, CheckTracked(i, f)
      PROVE  TypeOK' /\ QueueStep
  <2>1. <<Clear(f)>> \in Seq(FileDiagnostic)
    BY <1>3, <1>4
  <2>2. CASE Checked(i, f, <<Clear(f)>>)
    BY <1>4, <1>7, <2>1, <2>2
  <2>3. CASE \E g \in Path : Checked(i, f, <<Clear(f), Fault(jobs[i], g)>>)
    <3>1. PICK g \in Path : Checked(i, f, <<Clear(f), Fault(jobs[i], g)>>)
      BY <2>3
    <3>2. <<Clear(f), Fault(jobs[i], g)>> \in Seq(FileDiagnostic)
      BY <1>3, <1>4
    <3>3. QED
      BY <1>4, <1>7, <3>1, <3>2
  <2>4. \A s, c : FirstErrorFiles(s, c, f) \subseteq Path
    BY <1>4 DEF FirstErrorFiles, Unparsed, Unresolved
  <2>5. QED
    BY <1>9, <2>2, <2>3, <2>4, Zenon DEF CheckTracked
<1>10. ASSUME NEW f \in jobs[i].todo, CheckPanics(i, f)
       PROVE  TypeOK' /\ QueueStep
  <2>1. jobs # <<>> /\ jobs' = Tail(jobs) /\ UNCHANGED resp_events
    BY <1>10, FinishIsTail DEF CheckPanics
  <2>2. jobs' \in Seq(Job)
    BY <2>1, HeadTailProperties
  <2>3. QED
    BY <1>6, <2>1, <2>2 DEF QueueStep
<1>11. ASSUME SendBatch(i)
       PROVE  TypeOK' /\ QueueStep
  <2>1. i = 1 /\ jobs # <<>> /\ jobs' = Tail(jobs)
    BY <1>11, FinishIsTail DEF SendBatch
  <2>2. jobs' \in Seq(Job)
    BY <2>1, HeadTailProperties
  <2> DEFINE b == [n |-> jobs[i].n, diags |-> jobs[i].diags]
  <2>3. b \in Batch /\ b.n = jobs[1].n
    BY <1>2, <2>1 DEF Job, Batch
  <2>4. resp_events' = Append(resp_events, b)
    BY <1>11 DEF SendBatch
  <2> HIDE DEF b
  <2>5. resp_events' \in Seq(Batch)
    BY <2>3, <2>4
  <2>6. QED
    BY <1>6, <2>1, <2>2, <2>3, <2>4, <2>5 DEF QueueStep
<1>12. QED
  BY <1>1, <1>5, <1>8, <1>9, <1>10, <1>11 DEF WorkerUnchanged, clientVars, history

\* Every reachable state of the loop, the queues, the worker and the editor is well
\* typed, whatever the client sends: in particular no URI that is not a file and no
\* empty change enters the database or the opened files.
THEOREM TypeCorrect == Spec => []TypeOK
<1>1. TypeOK /\ [Next]_vars => TypeOK'
  <2> SUFFICES ASSUME TypeOK, [Next]_vars PROVE TypeOK'
    OBVIOUS
  <2>1. CASE Client
    BY <2>1, ClientType
  <2>2. CASE LspTurn
    BY <2>2, LspTurnType
  <2>3. CASE FileSystemTurn
    BY <2>3, FileSystemTurnType
  <2>4. CASE ResponseTurn
    BY <2>4, ResponseTurnType
  <2>5. CASE Worker
    BY <2>5, WorkerType
  <2>6. CASE UNCHANGED vars
    BY <2>6 DEF TypeOK, vars, clientVars, loopVars, history
  <2>7. QED
    BY <2>1, <2>2, <2>3, <2>4, <2>5, <2>6 DEF Next
<1>2. QED
  BY InitType, <1>1, PTL DEF Spec

-----------------------------------------------------------------------------
(* The order of the diagnostics *)

\* The queues are sequences and their entries are numbered.
LEMMA QueueNumbers ==
    ASSUME TypeOK
    PROVE  /\ jobs \in Seq(Job) /\ resp_events \in Seq(Batch)
           /\ \A j \in DOMAIN jobs : jobs[j].n \in Nat
           /\ \A j \in DOMAIN resp_events : resp_events[j].n \in Nat
           /\ published \in Nat /\ latest.n \in Nat
<1>1. jobs \in Seq(Job) /\ resp_events \in Seq(Batch) /\ published \in Nat /\ latest \in Snapshot
  BY DEF TypeOK
<1>2. \A j \in DOMAIN jobs : jobs[j] \in Job
  BY <1>1
<1>3. \A j \in DOMAIN resp_events : resp_events[j] \in Batch
  BY <1>1
<1>4. (\A x \in Job : x.n \in Nat) /\ (\A x \in Batch : x.n \in Nat) /\ (\A x \in Snapshot : x.n \in Nat)
  BY DEF Job, Batch, Snapshot
<1>5. QED
  BY <1>1, <1>2, <1>3, <1>4

\* Steps that leave the queues and the history alone.
LEMMA QueuesUntouched ==
    ASSUME InOrder, UNCHANGED <<resp_events, jobs, latest, published>>
    PROVE  InOrder'
BY DEF InOrder

\* A step of the worker keeps the order: the batch it sends is more recent than all
\* batches before it because it comes from the first job.
LEMMA QueueStepInOrder ==
    ASSUME TypeOK, InOrder, TypeOK', QueueStep, UNCHANGED <<latest, published>>
    PROVE  InOrder'
<1>0. /\ jobs \in Seq(Job) /\ jobs' \in Seq(Job)
      /\ resp_events \in Seq(Batch) /\ resp_events' \in Seq(Batch)
      /\ \A j \in DOMAIN jobs : jobs[j].n \in Nat
      /\ \A j \in DOMAIN resp_events : resp_events[j].n \in Nat
      /\ published \in Nat /\ latest.n \in Nat
  <2>1. jobs' \in Seq(Job) /\ resp_events' \in Seq(Batch)
    BY DEF TypeOK
  <2>2. QED
    BY <2>1, QueueNumbers
<1>1. CASE /\ Len(jobs') = Len(jobs)
           /\ \A j \in DOMAIN jobs : jobs'[j].n = jobs[j].n
           /\ UNCHANGED resp_events
  <2>1. DOMAIN jobs' = DOMAIN jobs
    BY <1>0, <1>1
  <2>2. QED
    BY <1>1, <2>1 DEF InOrder
<1>2. ASSUME jobs # <<>>, jobs' = Tail(jobs)
      PROVE  /\ \A j \in DOMAIN jobs' : j + 1 \in DOMAIN jobs /\ jobs'[j] = jobs[j + 1]
             /\ 1 \in DOMAIN jobs
             /\ \A j \in DOMAIN jobs' : jobs[1].n < jobs'[j].n
  <2>1. /\ \A j \in DOMAIN jobs' : j + 1 \in DOMAIN jobs /\ jobs'[j] = jobs[j + 1] /\ j + 1 > 1
        /\ 1 \in DOMAIN jobs
    BY <1>0, <1>2
  <2>2. QED
    BY <2>1 DEF InOrder
<1>3. CASE jobs # <<>> /\ jobs' = Tail(jobs) /\ UNCHANGED resp_events
  <2>1. \A j \in DOMAIN jobs' : j \in Nat
    BY <1>0
  <2>2. QED
    BY <1>0, <1>2, <1>3, <2>1 DEF InOrder
<1>4. ASSUME jobs # <<>>, jobs' = Tail(jobs), NEW b \in Batch, b.n = jobs[1].n,
             resp_events' = Append(resp_events, b)
      PROVE  InOrder'
  <2>1. \A j \in DOMAIN jobs' : j \in Nat
    BY <1>0
  <2>2. \A k \in DOMAIN resp_events' :
           \/ k \in DOMAIN resp_events /\ resp_events'[k] = resp_events[k]
           \/ k = Len(resp_events) + 1 /\ resp_events'[k].n = jobs[1].n
    BY <1>0, <1>4, AppendProperties
  <2>3. \A k \in DOMAIN resp_events : k \in Nat /\ k < Len(resp_events) + 1
    BY <1>0
  <2>4. /\ \A j \in DOMAIN jobs' : j + 1 \in DOMAIN jobs /\ jobs'[j] = jobs[j + 1] /\ jobs[1].n < jobs'[j].n
        /\ 1 \in DOMAIN jobs
    BY <1>2, <1>4
  <2>5. \A k \in DOMAIN resp_events' :
           /\ published < resp_events'[k].n /\ resp_events'[k].n <= latest.n
           /\ \A j \in DOMAIN jobs' : resp_events'[k].n < jobs'[j].n
    BY <2>2, <2>4 DEF InOrder
  <2>6. \A i, j \in DOMAIN resp_events' : i < j => resp_events'[i].n < resp_events'[j].n
    <3> SUFFICES ASSUME NEW i \in DOMAIN resp_events', NEW j \in DOMAIN resp_events', i < j
                 PROVE  resp_events'[i].n < resp_events'[j].n
      OBVIOUS
    <3>1. i \in DOMAIN resp_events /\ resp_events'[i] = resp_events[i]
      <4>1. Len(resp_events) \in Nat /\ Len(resp_events') = Len(resp_events) + 1
        BY <1>0, <1>4, AppendProperties, LenProperties, Zenon
      <4>2. DOMAIN resp_events' = 1..(Len(resp_events) + 1)
        BY <1>0, <4>1, LenProperties, Zenon
      <4>3. i # Len(resp_events) + 1
        BY <4>1, <4>2
      <4>4. QED
        BY <2>2, <4>3
    <3>2. CASE j \in DOMAIN resp_events /\ resp_events'[j] = resp_events[j]
      BY <3>1, <3>2 DEF InOrder
    <3>3. CASE resp_events'[j].n = jobs[1].n
      BY <2>4, <3>1, <3>3 DEF InOrder
    <3>4. QED
      BY <2>2, <3>2, <3>3
  <2>7. /\ \A i, j \in DOMAIN jobs' : i < j => jobs'[i].n < jobs'[j].n
        /\ \A j \in DOMAIN jobs' : published < jobs'[j].n /\ jobs'[j].n <= latest.n
        /\ published <= latest.n
    BY <2>1, <2>4 DEF InOrder
  <2>8. QED
    BY <2>5, <2>6, <2>7 DEF InOrder
<1>5. QED
  BY <1>1, <1>3, <1>4 DEF QueueStep

\* The batches of diagnostics reach the editor in the order of their snapshots, for
\* any number of files, edits, deletions and settings changes, lost jobs included.
THEOREM OrderTheorem == Spec => []InOrder
<1>1. Init => InOrder
  BY DEF Init, InOrder
<1>2. TypeOK /\ TypeOK' /\ InOrder /\ [Next]_vars => InOrder'
  <2> SUFFICES ASSUME TypeOK, TypeOK', InOrder, [Next]_vars PROVE InOrder'
    OBVIOUS
  <2>1. CASE Client
    <3>1. ServerUnchanged
      BY <2>1 DEF Client, OpenDocument, EditDocument, CloseDocument, SaveDocument, DeleteFiles,
              ChangeSettings, PrepareAnswer, FailAnswer, SendAnswer, SendStray, Leave, Send
    <3>2. QED
      BY <3>1, QueuesUntouched DEF ServerUnchanged, history
  <2>2. CASE LspTurn
    <3>1. UNCHANGED <<resp_events, jobs, history>>
      BY <2>2, Zenon DEF LspTurn, OnDidOpen, OnDidChange, OnDidClose, OnDidChangeWatchedFiles,
              OnDidChangeConfiguration, OnResponse, OnRequest, OnShutdown, OnHangup
    <3>2. QED
      BY <3>1, QueuesUntouched DEF history
  <2>3. CASE FileSystemTurn
    <3>1. PICK job \in Job : job.n = latest.n + 1 /\ jobs' = Append(jobs, job)
      BY <2>3, FileSystemTurnType
    <3>2. /\ jobs \in Seq(Job) /\ resp_events \in Seq(Batch)
          /\ \A j \in DOMAIN jobs : jobs[j].n \in Nat
          /\ \A j \in DOMAIN resp_events : resp_events[j].n \in Nat
          /\ published \in Nat /\ latest.n \in Nat
      BY QueueNumbers
    <3>3. /\ UNCHANGED <<resp_events, published>>
          /\ latest'.n = latest.n + 1
      BY <2>3, FileSystemTurnType DEF FileSystemTurn
    <3>4. \A k \in DOMAIN jobs' :
             \/ k \in DOMAIN jobs /\ jobs'[k] = jobs[k]
             \/ k = Len(jobs) + 1 /\ jobs'[k].n = latest.n + 1
      BY <3>1, <3>2, AppendProperties
    <3>5. \A k \in DOMAIN jobs : k \in Nat /\ k < Len(jobs) + 1
      BY <3>2
    <3>6. \A k \in DOMAIN jobs' :
             /\ jobs'[k].n \in Nat /\ published < jobs'[k].n /\ jobs'[k].n <= latest.n + 1
             /\ \A i \in DOMAIN resp_events : resp_events[i].n < jobs'[k].n
      BY <3>2, <3>4 DEF InOrder
    <3>7. \A i, j \in DOMAIN jobs' : i < j => jobs'[i].n < jobs'[j].n
      <4> SUFFICES ASSUME NEW i \in DOMAIN jobs', NEW j \in DOMAIN jobs', i < j
                   PROVE  jobs'[i].n < jobs'[j].n
        OBVIOUS
      <4>1. i \in DOMAIN jobs /\ jobs'[i] = jobs[i]
        BY <3>2, <3>4, <3>5
      <4>2. jobs[i].n \in Nat /\ jobs[i].n <= latest.n
        BY <3>2, <4>1 DEF InOrder
      <4>3. CASE j \in DOMAIN jobs /\ jobs'[j] = jobs[j]
        BY <4>1, <4>3 DEF InOrder
      <4>4. CASE jobs'[j].n = latest.n + 1
        BY <3>2, <4>1, <4>2, <4>4
      <4>5. QED
        BY <3>4, <4>3, <4>4
    <3>8. QED
      BY <3>2, <3>3, <3>6, <3>7 DEF InOrder
  <2>4. CASE ResponseTurn
    <3>1. /\ resp_events \in Seq(Batch)
          /\ \A j \in DOMAIN jobs : jobs[j].n \in Nat
          /\ \A j \in DOMAIN resp_events : resp_events[j].n \in Nat
          /\ published \in Nat /\ latest.n \in Nat
      BY QueueNumbers
    <3>2. /\ resp_events # <<>> /\ resp_events' = Tail(resp_events)
          /\ published' = resp_events[1].n
          /\ UNCHANGED <<jobs, latest>>
      BY <2>4, <3>1 DEF ResponseTurn
    <3>3. /\ 1 \in DOMAIN resp_events
          /\ \A j \in DOMAIN resp_events' :
                j \in Nat /\ j + 1 \in DOMAIN resp_events /\ 1 < j + 1 /\ resp_events'[j] = resp_events[j + 1]
      BY <3>1, <3>2
    <3>4. QED
      BY <3>1, <3>2, <3>3 DEF InOrder
  <2>5. CASE Worker
    BY <2>5, WorkerType, QueueStepInOrder
  <2>6. CASE UNCHANGED vars
    BY <2>6, QueuesUntouched DEF vars, history
  <2>7. QED
    BY <2>1, <2>2, <2>3, <2>4, <2>5, <2>6 DEF Next
<1>3. QED
  BY <1>1, <1>2, TypeCorrect, PTL DEF Spec

\* The editor is never sent back to the diagnostics of an older snapshot.
THEOREM NeverOlderTheorem == Spec => NeverOlder
<1>1. TypeOK /\ InOrder /\ [Next]_vars => [published' > published \/ shown' = shown]_vars
  <2> SUFFICES ASSUME TypeOK, InOrder, Next PROVE published' > published \/ shown' = shown
    OBVIOUS
  <2>1. CASE Client
    BY <2>1 DEF Client, OpenDocument, EditDocument, CloseDocument, SaveDocument, DeleteFiles,
            ChangeSettings, PrepareAnswer, FailAnswer, SendAnswer, SendStray, Leave
  <2>2. CASE LspTurn
    <3>1. UNCHANGED clientVars \/ UNCHANGED shown
      BY <2>2, Zenon DEF LspTurn, OnDidOpen, OnDidChange, OnDidClose, OnDidChangeWatchedFiles,
              OnDidChangeConfiguration, OnResponse, OnRequest, OnShutdown, OnHangup
    <3>2. QED
      BY <3>1 DEF clientVars
  <2>3. CASE FileSystemTurn
    BY <2>3 DEF FileSystemTurn, clientVars
  <2>4. CASE ResponseTurn
    <3>1. resp_events \in Seq(Batch) /\ resp_events # <<>> /\ published' = Head(resp_events).n
      BY <2>4 DEF TypeOK, ResponseTurn
    <3>2. 1 \in DOMAIN resp_events /\ Head(resp_events) = resp_events[1] /\ resp_events[1] \in Batch
      BY <3>1
    <3>3. published < resp_events[1].n /\ published \in Nat /\ resp_events[1].n \in Nat
      BY <3>2 DEF InOrder, TypeOK, Batch
    <3>4. QED
      BY <3>1, <3>2, <3>3
  <2>5. CASE Worker
    BY <2>5, WorkerType
  <2>6. QED
    BY <2>1, <2>2, <2>3, <2>4, <2>5 DEF Next
<1>2. QED
  BY <1>1, TypeCorrect, OrderTheorem, PTL DEF Spec, NeverOlder

-----------------------------------------------------------------------------
(* The settings *)

\* The request whose answer is awaited is the last one that was sent.
AwaitsLast == configuration_request_id \in {0, next_request_id}

LEMMA AwaitsLastInvariant == Spec => []AwaitsLast
<1>1. Init => AwaitsLast
  BY DEF Init, AwaitsLast
<1>2. AwaitsLast /\ [Next]_vars => AwaitsLast'
  <2> SUFFICES ASSUME AwaitsLast, [Next]_vars PROVE AwaitsLast'
    OBVIOUS
  <2> USE DEF AwaitsLast
  <2>1. CASE Client
    <3>1. ServerUnchanged
      BY <2>1 DEF Client, OpenDocument, EditDocument, CloseDocument, SaveDocument, DeleteFiles,
              ChangeSettings, PrepareAnswer, FailAnswer, SendAnswer, SendStray, Leave, Send
    <3>2. QED
      BY <3>1 DEF ServerUnchanged, loopVars
  <2>2. CASE OnDidChangeConfiguration
    BY <2>2 DEF OnDidChangeConfiguration
  <2>3. CASE OnResponse
    BY <2>3 DEF OnResponse
  <2>4. CASE OnDidOpen \/ OnDidChange \/ OnDidClose \/ OnDidChangeWatchedFiles
             \/ OnRequest \/ OnShutdown \/ OnHangup
    BY <2>4 DEF OnDidOpen, OnDidChange, OnDidClose, OnDidChangeWatchedFiles,
                OnRequest, OnShutdown, OnHangup, loopVars
  <2>5. CASE FileSystemTurn \/ ResponseTurn
    BY <2>5 DEF FileSystemTurn, ResponseTurn, loopVars
  <2>6. CASE Worker
    BY <2>6, WorkerFrame DEF WorkerUnchanged, loopVars
  <2>7. CASE UNCHANGED vars
    BY <2>7 DEF vars, loopVars
  <2>8. QED
    BY <2>1, <2>2, <2>3, <2>4, <2>5, <2>6, <2>7 DEF Next, LspTurn
<1>3. QED
  BY <1>1, <1>2, PTL DEF Spec

\* An answer that was overtaken by a later request never changes the settings in
\* force, however many requests are open and in whatever order they are answered.
THEOREM StaleAnswerTheorem == Spec => StaleAnswerIgnored
<1>1. TypeOK /\ AwaitsLast /\ [Next]_vars =>
        [config' # config => Head(inbox).kind = "response" /\ Head(inbox).id = next_request_id]_vars
  <2> SUFFICES ASSUME TypeOK, AwaitsLast, Next, config' # config
               PROVE  Head(inbox).kind = "response" /\ Head(inbox).id = next_request_id
    OBVIOUS
  <2>1. ~Client
    <3>1. Client => ServerUnchanged
      BY DEF Client, OpenDocument, EditDocument, CloseDocument, SaveDocument, DeleteFiles,
             ChangeSettings, PrepareAnswer, FailAnswer, SendAnswer, SendStray, Leave, Send
    <3>2. QED
      BY <3>1 DEF ServerUnchanged, loopVars
  <2>2. ~(FileSystemTurn \/ ResponseTurn)
    BY DEF FileSystemTurn, ResponseTurn, loopVars
  <2>3. ~Worker
    BY WorkerFrame DEF WorkerUnchanged, loopVars
  <2>4. ~(OnDidOpen \/ OnDidChange \/ OnDidClose \/ OnDidChangeWatchedFiles
          \/ OnDidChangeConfiguration \/ OnRequest \/ OnShutdown \/ OnHangup)
    BY DEF OnDidOpen, OnDidChange, OnDidClose, OnDidChangeWatchedFiles,
           OnDidChangeConfiguration, OnRequest, OnShutdown, OnHangup, loopVars
  <2>5. OnResponse
    BY <2>1, <2>2, <2>3, <2>4 DEF Next, LspTurn
  <2>6. Head(inbox) \in Message /\ Head(inbox).kind = "response"
    BY <2>5, ReceiveType DEF OnResponse
  <2>7. Head(inbox).id # 0
    BY <2>6, MessageFields
  <2>8. Head(inbox).id = configuration_request_id
    BY <2>5 DEF OnResponse
  <2>9. QED
    BY <2>6, <2>7, <2>8 DEF AwaitsLast
<1>2. QED
  BY <1>1, TypeCorrect, AwaitsLastInvariant, PTL DEF Spec, StaleAnswerIgnored

=============================================================================
