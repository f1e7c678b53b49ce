--------------------------- MODULE DeliveryProofs ---------------------------
(***************************************************************************)
(* What the messages of the client come to in LanguageServer, for every    *)
(* set of files, texts and settings and for queues of any length: the      *)
(* settings chosen last are in force once every request is answered, and   *)
(* the database has the text of every opened buffer once the queues are    *)
(* worked off; and, as long as the files of the standard library stay as   *)
(* they are, what the editor shows is right: the diagnostics of the        *)
(* snapshot that was taken last, from the check of its files to the        *)
(* editor.                                                                 *)
(***************************************************************************)
EXTENDS LanguageServerProofs, SequenceFacts

-----------------------------------------------------------------------------
(* The settings *)

\* The client has answered every request with what was asked for.
Faultless == budget["faults"] = Budget["faults"]

\* The messages that wait in the inbox.
Waiting == {inbox[i] : i \in DOMAIN inbox}

\* The answer that gives the settings of the user.
Current == [kind |-> "settings", value |-> settings]

\* No request and no answer has an id that was not given out, and nothing but settings is
\* asked for; faults are only spent.
Numbered ==
    /\ budget["faults"] <= Budget["faults"]
    /\ \A r \in asked : r.method = "configuration" /\ r.id <= next_request_id
    /\ \A m \in Waiting : m.kind = "response" => m.id <= next_request_id

\* The request that was sent last, at the editor or on its way back.
LastAsked    == {r \in asked : r.id = next_request_id}
LastAnswered == {m \in Waiting : m.kind = "response" /\ m.id = next_request_id}

\* Unless the server has still to be told of a change, the last request brings the settings
\* of the user, and either they are in force or the answer to that request is awaited.
OnTheWay ==
    Faultless /\ (\A m \in Waiting : m.kind # "didChangeConfiguration") =>
        /\ \A r \in LastAsked : r.body \in {Open, Current}
        /\ \A m \in LastAnswered : m.body = Current
        /\ \/ config = settings
           \/ /\ configuration_request_id = next_request_id
              /\ LastAsked # {} \/ LastAnswered # {}

Settled == AwaitsLast /\ Numbered /\ OnTheWay

\* Sending adds a message to those that wait; receiving takes away the first.
LEMMA SendWaiting ==
    ASSUME TypeOK, NEW m, Send(m)
    PROVE  Waiting' = Waiting \cup {m}
<1>1. inbox \in Seq(Message) /\ inbox' = Append(inbox, m)
  BY DEF TypeOK, Send
<1>2. /\ Len(inbox) \in Nat
      /\ DOMAIN inbox = 1..Len(inbox) /\ DOMAIN inbox' = 1..(Len(inbox) + 1)
      /\ \A i \in 1..Len(inbox) : inbox'[i] = inbox[i]
      /\ inbox'[Len(inbox) + 1] = m
  BY <1>1, AppendKeeps
<1>3. QED
  BY <1>2 DEF Waiting

LEMMA ReceiveWaiting ==
    ASSUME TypeOK, NEW kind, Receive(kind)
    PROVE  /\ Waiting = Waiting' \cup {Head(inbox)}
           /\ Head(inbox) \in Message /\ Head(inbox).kind = kind
<1>1. inbox \in Seq(Message) /\ inbox # <<>> /\ inbox' = Tail(inbox)
  BY DEF TypeOK, Receive
<1>2. /\ Len(inbox) \in Nat /\ Len(inbox) > 0
      /\ DOMAIN inbox = 1..Len(inbox) /\ DOMAIN inbox' = 1..(Len(inbox) - 1)
      /\ \A i \in 1..(Len(inbox) - 1) : inbox'[i] = inbox[i + 1]
      /\ Head(inbox) = inbox[1]
  BY <1>1
<1>3. \A i \in 1..Len(inbox) : i = 1 \/ (i - 1 \in 1..(Len(inbox) - 1) /\ inbox[i] = inbox'[i - 1])
  BY <1>2
<1>4. \A i \in 1..(Len(inbox) - 1) : i + 1 \in 1..Len(inbox)
  BY <1>2
<1>5. Waiting' = {inbox'[i] : i \in 1..(Len(inbox) - 1)}
  BY <1>2 DEF Waiting
<1>6. Waiting = {inbox[i] : i \in 1..Len(inbox)}
  BY <1>2 DEF Waiting
<1>7. Waiting \subseteq Waiting' \cup {Head(inbox)}
  BY <1>2, <1>3, <1>5, <1>6
<1>8. Waiting' \cup {Head(inbox)} \subseteq Waiting
  <2>1. Head(inbox) \in Waiting
    BY <1>2, <1>6
  <2>2. Waiting' \subseteq Waiting
    BY <1>2, <1>4, <1>5, <1>6
  <2>3. QED
    BY <2>1, <2>2
<1>9. QED
  BY <1>7, <1>8, ReceiveType

LEMMA SettledInit == PromptClient /\ Init => Settled
<1> SUFFICES ASSUME PromptClient, Init PROVE Settled
  OBVIOUS
<1>1. asked = {} /\ inbox = <<>> /\ budget = Budget /\ config = settings
  BY DEF Init
<1>2. Waiting = {}
  BY <1>1 DEF Waiting
<1>3. Numbered
  BY <1>1, <1>2, ConstantsAssumption DEF Numbered, Steps
<1>4. OnTheWay
  BY <1>1, <1>2 DEF OnTheWay, LastAsked, LastAnswered
<1>5. QED
  BY <1>3, <1>4 DEF Settled, AwaitsLast, Init

\* Only faults spend the budget of faults.
LEMMA SpendOne ==
    ASSUME TypeOK, NEW step \in Steps \ {"total"}, Spend(step)
    PROVE  /\ budget[step] \in Nat /\ budget'[step] \in Nat /\ budget'[step] < budget[step]
           /\ \A other \in Steps \ {step, "total"} : budget'[other] = budget[other]
<1>1. step # "total"
  OBVIOUS
<1>2. /\ budget \in [Steps -> Nat] /\ budget[step] > 0
      /\ budget' = [budget EXCEPT ![step] = @ - 1, !["total"] = @ - 1]
  BY DEF TypeOK, Spend
<1>3. budget'[step] = budget[step] - 1
  BY <1>1, <1>2
<1>4. \A other \in Steps \ {step, "total"} : budget'[other] = budget[other]
  BY <1>2
<1>5. QED
  BY <1>2, <1>3, <1>4

\* Steps that have nothing to do with settings.
LEMMA SettledSame ==
    ASSUME Settled, UNCHANGED <<asked, inbox, settings, config, configuration_request_id, next_request_id>>,
           budget'["faults"] = budget["faults"]
    PROVE  Settled'
BY DEF Settled, AwaitsLast, Numbered, OnTheWay, Faultless, Waiting, LastAsked, LastAnswered, Current

\* Messages that have nothing to do with settings.
LEMMA SettledSend ==
    ASSUME TypeOK, Settled, NEW m, Send(m), m.kind \notin {"didChangeConfiguration", "response"},
           UNCHANGED <<asked, settings>>, budget'["faults"] = budget["faults"]
    PROVE  Settled'
<1>1. Waiting' = Waiting \cup {m}
  BY SendWaiting
<1>2. UNCHANGED <<config, configuration_request_id, next_request_id>>
  BY DEF Send, ServerUnchanged, loopVars
<1>3. LastAnswered' = LastAnswered /\ LastAsked' = LastAsked
  BY <1>1, <1>2 DEF LastAnswered, LastAsked
<1>4. Numbered' /\ AwaitsLast'
  BY <1>1, <1>2 DEF Settled, AwaitsLast, Numbered
<1>5. OnTheWay'
  BY <1>1, <1>2, <1>3 DEF Settled, OnTheWay, Faultless, Current
<1>6. QED
  BY <1>4, <1>5 DEF Settled

LEMMA SettledReceive ==
    ASSUME TypeOK, Settled, NEW kind, Receive(kind), kind \notin {"didChangeConfiguration", "response"},
           UNCHANGED <<asked, budget, settings, config, configuration_request_id, next_request_id>>
    PROVE  Settled'
<1>1. Waiting = Waiting' \cup {Head(inbox)} /\ Head(inbox).kind = kind
  BY ReceiveWaiting
<1>2. LastAnswered' = LastAnswered /\ LastAsked' = LastAsked
  BY <1>1 DEF LastAnswered, LastAsked
<1>3. Numbered' /\ AwaitsLast'
  BY <1>1 DEF Settled, AwaitsLast, Numbered
<1>4. OnTheWay'
  BY <1>1, <1>2 DEF Settled, OnTheWay, Faultless, Current
<1>5. QED
  BY <1>3, <1>4 DEF Settled

\* A fault takes the promise away.
LEMMA SettledFault ==
    ASSUME TypeOK, Settled, Spend("faults"), Numbered', AwaitsLast'
    PROVE  Settled'
<1>1. budget["faults"] \in Nat /\ budget'["faults"] \in Nat /\ budget'["faults"] < budget["faults"]
  BY SpendOne DEF Steps
<1>2. budget["faults"] <= Budget["faults"] /\ Budget["faults"] \in Nat
  BY ConstantsAssumption DEF Settled, Numbered, Steps
<1>3. ~Faultless'
  BY <1>1, <1>2 DEF Faultless
<1>4. QED
  BY <1>3 DEF Settled, OnTheWay

\* The answers of the client.
LEMMA SettledPrepare ==
    ASSUME TypeOK, Settled, NEW r \in asked, PrepareAnswer(r)
    PROVE  Settled'
<1> DEFINE q == [r EXCEPT !.body = Current]
<1>1. r.method = "configuration" /\ r.id <= next_request_id
  BY DEF Settled, Numbered
<1>2. asked' = (asked \ {r}) \cup {q}
  BY <1>1 DEF PrepareAnswer, Current
<1>3. UNCHANGED <<budget, inbox, settings, config, configuration_request_id, next_request_id>>
  BY DEF PrepareAnswer, ServerUnchanged, loopVars
<1>4. q.method = "configuration" /\ q.id = r.id /\ q.body = Current
  BY <1>1 DEF TypeOK, Request
<1> HIDE DEF q
<1>5. Waiting' = Waiting /\ LastAnswered' = LastAnswered /\ Current' = Current
  BY <1>3 DEF Waiting, LastAnswered, Current
<1>6. /\ LastAsked' \subseteq LastAsked \cup {q}
      /\ LastAsked # {} => LastAsked' # {}
  BY <1>2, <1>3, <1>4 DEF LastAsked
<1>7. Numbered' /\ AwaitsLast'
  BY <1>1, <1>2, <1>3, <1>4, <1>5 DEF Settled, AwaitsLast, Numbered
<1>8. OnTheWay'
  BY <1>3, <1>4, <1>5, <1>6 DEF Settled, OnTheWay, Faultless
<1>9. QED
  BY <1>7, <1>8 DEF Settled

LEMMA SettledFail ==
    ASSUME TypeOK, Settled, NEW r \in asked, FailAnswer(r)
    PROVE  Settled'
<1>1. PICK body \in {Null, ErrorBody, EmptyList} : asked' = (asked \ {r}) \cup {[r EXCEPT !.body = body]}
  BY DEF FailAnswer
<1> DEFINE q == [r EXCEPT !.body = body]
<1>2. q.method = r.method /\ q.id = r.id
  BY DEF TypeOK, Request
<1>3. Spend("faults") /\ UNCHANGED <<inbox, configuration_request_id, next_request_id>>
  BY DEF FailAnswer, ServerUnchanged, loopVars
<1> HIDE DEF q
<1>4. \A x \in asked' : x \in asked \/ x = q
  BY <1>1 DEF q
<1>5. budget'["faults"] <= Budget["faults"]
  <2>1. budget["faults"] \in Nat /\ budget'["faults"] \in Nat /\ budget'["faults"] < budget["faults"]
    BY <1>3, SpendOne DEF Steps
  <2>2. budget["faults"] <= Budget["faults"] /\ Budget["faults"] \in Nat
    BY ConstantsAssumption DEF Settled, Numbered, Steps
  <2>3. QED
    BY <2>1, <2>2
<1>6. Numbered' /\ AwaitsLast'
  BY <1>2, <1>3, <1>4, <1>5 DEF Settled, AwaitsLast, Numbered, Waiting
<1>7. QED
  BY <1>3, <1>6, SettledFault

LEMMA SettledAnswer ==
    ASSUME TypeOK, Settled, NEW r \in asked, SendAnswer(r)
    PROVE  Settled'
<1> DEFINE m == [kind |-> "response", id |-> r.id, body |-> r.body]
<1>1. r.body # Open /\ asked' = asked \ {r} /\ Send(m)
  BY DEF SendAnswer
<1>2. UNCHANGED <<budget, settings, config, configuration_request_id, next_request_id>>
  BY DEF SendAnswer, Send, ServerUnchanged, loopVars
<1>3. m.kind = "response" /\ m.id = r.id /\ m.body = r.body
  OBVIOUS
<1> HIDE DEF m
<1>4. Waiting' = Waiting \cup {m}
  BY <1>1, SendWaiting
<1>5. /\ LastAnswered' \subseteq LastAnswered \cup {m} /\ LastAnswered \subseteq LastAnswered'
      /\ LastAsked' \subseteq LastAsked
      /\ r \in LastAsked => m \in LastAnswered'
      /\ m \in LastAnswered' /\ m \notin LastAnswered => r \in LastAsked
      /\ r \notin LastAsked => LastAsked' = LastAsked
  BY <1>1, <1>2, <1>3, <1>4 DEF LastAnswered, LastAsked
<1>6. Current' = Current
  BY <1>2 DEF Current
<1>7. Numbered' /\ AwaitsLast'
  BY <1>1, <1>2, <1>3, <1>4 DEF Settled, AwaitsLast, Numbered
<1>8. OnTheWay'
  <2> SUFFICES ASSUME Faultless', \A x \in Waiting' : x.kind # "didChangeConfiguration"
               PROVE  /\ \A x \in LastAsked' : x.body \in {Open, Current}
                      /\ \A x \in LastAnswered' : x.body = Current
                      /\ \/ config = settings
                         \/ /\ configuration_request_id = next_request_id
                            /\ LastAsked' # {} \/ LastAnswered' # {}
    BY <1>2, <1>6 DEF OnTheWay
  <2>1. /\ \A x \in LastAsked : x.body \in {Open, Current}
        /\ \A x \in LastAnswered : x.body = Current
        /\ \/ config = settings
           \/ /\ configuration_request_id = next_request_id
              /\ LastAsked # {} \/ LastAnswered # {}
    BY <1>2, <1>4 DEF Settled, OnTheWay, Faultless
  <2>2. QED
    BY <2>1, <1>1, <1>3, <1>5
<1>9. QED
  BY <1>7, <1>8 DEF Settled

\* A change of settings sends word of it; the turn on it asks under a new id.
LEMMA SettledChange ==
    ASSUME TypeOK, Settled, NEW c \in Configs, ChangeSettings(c)
    PROVE  Settled'
<1> DEFINE m == [kind |-> "didChangeConfiguration"]
<1>1. Send(m) /\ UNCHANGED asked /\ m.kind = "didChangeConfiguration"
  BY DEF ChangeSettings
<1>2. budget'["faults"] = budget["faults"]
  BY SpendOne DEF ChangeSettings, Steps
<1>3. UNCHANGED <<configuration_request_id, next_request_id>>
  BY DEF ChangeSettings, Send, ServerUnchanged, loopVars
<1> HIDE DEF m
<1>4. Waiting' = Waiting \cup {m}
  BY <1>1, SendWaiting
<1>5. QED
  BY <1>1, <1>2, <1>3, <1>4 DEF Settled, AwaitsLast, Numbered, OnTheWay

LEMMA SettledAsk ==
    ASSUME TypeOK, Settled, OnDidChangeConfiguration
    PROVE  Settled'
<1> DEFINE N == next_request_id
           q == [id |-> N + 1, method |-> "configuration", body |-> Open]
<1>1. /\ Receive("didChangeConfiguration")
      /\ next_request_id' = N + 1 /\ configuration_request_id' = N + 1
      /\ asked' = asked \cup {q}
      /\ UNCHANGED <<settings, budget, config>>
  BY DEF OnDidChangeConfiguration
<1>2. q.id = N + 1 /\ q.method = "configuration" /\ q.body = Open
  OBVIOUS
<1> HIDE DEF q
<1>3. N \in Nat /\ (\A r \in asked : r.id \in Nat) /\ Waiting \subseteq Message
  <2>1. \A r \in Request : r.id \in Nat
    BY DEF Request
  <2>2. QED
    BY <2>1 DEF TypeOK, Waiting
<1>4. Waiting' \subseteq Waiting
  BY <1>1, ReceiveWaiting
<1>5. \A m \in Waiting : m.kind = "response" => m.id \in Nat
  BY <1>3, MessageFields
<1>6. Numbered' /\ AwaitsLast'
  BY <1>1, <1>2, <1>3, <1>4, <1>5 DEF Settled, AwaitsLast, Numbered
<1>7. LastAsked' = {q} /\ LastAnswered' = {}
  BY <1>1, <1>2, <1>3, <1>4, <1>5 DEF LastAsked, LastAnswered, Settled, Numbered
<1>8. OnTheWay'
  BY <1>1, <1>2, <1>7 DEF OnTheWay
<1>9. QED
  BY <1>6, <1>8 DEF Settled

\* The answer to the last request puts the settings of the user in force, another one is
\* dropped.
LEMMA SettledResponse ==
    ASSUME TypeOK, Settled, OnResponse
    PROVE  Settled'
<1> DEFINE m == Head(inbox)
<1>1. Receive("response") /\ UNCHANGED <<asked, budget, settings, next_request_id>>
  BY DEF OnResponse, clientVars
<1>2. Waiting = Waiting' \cup {m} /\ m \in Message /\ m.kind = "response"
  BY <1>1, ReceiveWaiting
<1>3. m.id \in Nat \ {0}
  BY <1>2, MessageFields
<1>4. \/ m.id = configuration_request_id /\ configuration_request_id' = 0
         /\ (m.body.kind = "settings" => config' = m.body.value)
      \/ m.id # configuration_request_id /\ UNCHANGED <<configuration_request_id, config>>
  BY DEF OnResponse
<1>5. m.id = next_request_id <=> m \in LastAnswered
  BY <1>2 DEF LastAnswered
<1> HIDE DEF m
<1>6. /\ LastAsked' = LastAsked /\ LastAnswered' \subseteq LastAnswered
      /\ LastAnswered \subseteq LastAnswered' \cup {m}
      /\ Current' = Current
  BY <1>1, <1>2 DEF LastAsked, LastAnswered, Current
<1>7. Numbered' /\ AwaitsLast'
  BY <1>1, <1>2, <1>4 DEF Settled, AwaitsLast, Numbered
<1>8. OnTheWay'
  <2> SUFFICES ASSUME Faultless', \A x \in Waiting' : x.kind # "didChangeConfiguration"
               PROVE  /\ \A x \in LastAsked' : x.body \in {Open, Current}
                      /\ \A x \in LastAnswered' : x.body = Current
                      /\ \/ config' = settings
                         \/ /\ configuration_request_id' = next_request_id
                            /\ LastAsked' # {} \/ LastAnswered' # {}
    BY <1>1, <1>6 DEF OnTheWay
  <2>1. /\ \A x \in LastAsked : x.body \in {Open, Current}
        /\ \A x \in LastAnswered : x.body = Current
        /\ \/ config = settings
           \/ /\ configuration_request_id = next_request_id
              /\ LastAsked # {} \/ LastAnswered # {}
    BY <1>1, <1>2 DEF Settled, OnTheWay, Faultless
  <2>2. CASE m.id = configuration_request_id
    <3>1. m.id = next_request_id
      BY <1>3, <2>2 DEF Settled, AwaitsLast
    <3>2. m.body = Current
      BY <3>1, <1>5, <2>1
    <3>3. config' = settings
      BY <3>2, <1>4, <2>2 DEF Current
    <3>4. QED
      BY <2>1, <3>3, <1>6
  <2>3. CASE m.id # configuration_request_id
    <3>1. UNCHANGED <<configuration_request_id, config>>
      BY <1>4, <2>3
    <3>2. CASE m.id = next_request_id
      BY <2>1, <2>3, <3>1, <3>2, <1>6
    <3>3. CASE m.id # next_request_id
      <4>1. LastAnswered' = LastAnswered
        BY <1>5, <1>6, <3>3
      <4>2. QED
        BY <2>1, <3>1, <4>1, <1>6
    <3>4. QED
      BY <3>2, <3>3
  <2>4. QED
    BY <2>2, <2>3
<1>9. QED
  BY <1>7, <1>8 DEF Settled

LEMMA SettledClient ==
    ASSUME TypeOK, Settled, Client
    PROVE  Settled'
<1>s. /\ {"edits", "deletes", "saves", "settings", "exits"} \subseteq Steps \ {"faults", "total"}
      /\ "faults" \in Steps \ {"total"}
  BY DEF Steps
<1>1. ASSUME NEW f \in Editable, NEW t \in Text, OpenDocument(f, t)
      PROVE  Settled'
  BY <1>1, <1>s, SpendOne, SettledSend DEF OpenDocument
<1>2. ASSUME NEW f \in Editable, NEW t \in Text, NEW earlier, EditDocument(f, t, earlier)
      PROVE  Settled'
  BY <1>2, <1>s, SpendOne, SettledSend DEF EditDocument
<1>3. ASSUME NEW f \in Editable, CloseDocument(f)
      PROVE  Settled'
  BY <1>3, <1>s, SpendOne, SettledSend DEF CloseDocument
<1>4. ASSUME NEW f \in Editable, SaveDocument(f)
      PROVE  Settled'
  BY <1>4, <1>s, SpendOne, SettledSame DEF SaveDocument, ServerUnchanged, loopVars
<1>5. ASSUME NEW d \in Deletions, DeleteFiles(d)
      PROVE  Settled'
  BY <1>5, <1>s, SpendOne, SettledSend DEF DeleteFiles
<1>6. ASSUME NEW m \in StrayMessages, SendStray(m)
      PROVE  Settled'
  <2>1. m.kind # "response"
    BY DEF StrayMessages
  <2>2. Send(m) /\ Spend("faults") /\ UNCHANGED asked
    BY <1>6 DEF SendStray
  <2>3. Waiting' = Waiting \cup {m}
    BY <2>2, SendWaiting
  <2>4. UNCHANGED <<configuration_request_id, next_request_id>>
    BY <2>2 DEF Send, ServerUnchanged, loopVars
  <2>5. budget'["faults"] <= Budget["faults"]
    <3>1. budget["faults"] \in Nat /\ budget'["faults"] \in Nat /\ budget'["faults"] < budget["faults"]
      BY <2>2, <1>s, SpendOne
    <3>2. budget["faults"] <= Budget["faults"] /\ Budget["faults"] \in Nat
      BY ConstantsAssumption, <1>s DEF Settled, Numbered
    <3>3. QED
      BY <3>1, <3>2
  <2>6. Numbered' /\ AwaitsLast'
    BY <2>1, <2>2, <2>3, <2>4, <2>5 DEF Settled, AwaitsLast, Numbered
  <2>7. QED
    BY <2>2, <2>6, SettledFault
<1>7. ASSUME NEW kind \in {"shutdown", "hangup"}, Leave(kind)
      PROVE  Settled'
  BY <1>7, <1>s, SpendOne, SettledSend DEF Leave
<1>8. QED
  BY <1>1, <1>2, <1>3, <1>4, <1>5, <1>6, <1>7, SettledChange, SettledPrepare, SettledFail,
     SettledAnswer DEF Client

LEMMA SettledTurn ==
    ASSUME TypeOK, Settled, LspTurn
    PROVE  Settled'
<1>1. CASE OnDidOpen
  BY <1>1, SettledReceive DEF OnDidOpen, clientVars
<1>2. CASE OnDidChange
  BY <1>2, SettledReceive DEF OnDidChange, clientVars
<1>3. CASE OnDidClose
  BY <1>3, SettledReceive DEF OnDidClose, clientVars
<1>4. CASE OnDidChangeWatchedFiles
  BY <1>4, SettledReceive DEF OnDidChangeWatchedFiles, clientVars
<1>5. CASE OnRequest \/ OnShutdown \/ OnHangup
  BY <1>5, SettledReceive DEF OnRequest, OnShutdown, OnHangup, clientVars, loopVars
<1>6. QED
  BY <1>1, <1>2, <1>3, <1>4, <1>5, SettledAsk, SettledResponse DEF LspTurn

\* With a client that answers the registration first, and as long as it answers every request
\* with the settings it was asked for, the settings chosen last are in force when every message
\* and every request is worked off, however many changes and answers overtake each other.
THEOREM SettingsTheorem ==
    PromptClient /\ Spec => [](Faultless => SettingsInForce)
<1>1. TypeOK /\ Settled /\ [Next]_vars => Settled'
  <2> SUFFICES ASSUME TypeOK, Settled, [Next]_vars PROVE Settled'
    OBVIOUS
  <2>1. CASE FileSystemTurn
    BY <2>1, SettledSame DEF FileSystemTurn, clientVars
  <2>2. CASE ResponseTurn
    BY <2>2, SettledSame DEF ResponseTurn, loopVars
  <2>3. CASE Worker
    BY <2>3, SettledSame, WorkerFrame DEF WorkerUnchanged, clientVars, loopVars
  <2>4. CASE UNCHANGED vars
    BY <2>4, SettledSame DEF vars, clientVars, loopVars
  <2>5. QED
    BY <2>1, <2>2, <2>3, <2>4, SettledClient, SettledTurn DEF Next
<1>2. TypeOK /\ Settled => (Faultless => SettingsInForce)
  <2> SUFFICES ASSUME Settled, Faultless, inbox = <<>>, asked = {} PROVE config = settings
    BY DEF SettingsInForce
  <2>1. Waiting = {}
    BY DEF Waiting
  <2>2. QED
    BY <2>1 DEF Settled, OnTheWay, LastAsked, LastAnswered
<1>3. QED
  BY <1>1, <1>2, SettledInit, TypeCorrect, PTL DEF Spec

-----------------------------------------------------------------------------
(* The buffers *)

\* The user has left the settings alone, so that nothing reloads the database.
SettingsKept == budget["settings"] = Budget["settings"]

\* The message is about file f.
Concerns(m, f) ==
    \/ m.kind \in {"didOpen", "didChange", "didClose"} /\ m.uri = f
    \/ m.kind = "didChangeWatchedFiles" /\ \E i \in DOMAIN m.uris : m.uris[i] = f

\* If the message carries a text, it is t.
Says(m, t) ==
    /\ m.kind = "didOpen" => m.text = t
    /\ m.kind = "didChange" /\ m.texts # <<>> => m.texts[Len(m.texts)] = t

\* The last message about f that waits has the text of the buffer.
LastMessage(f) ==
    \A i \in DOMAIN inbox :
        Concerns(inbox[i], f) /\ (\A j \in DOMAIN inbox : j > i => ~Concerns(inbox[j], f))
            => Says(inbox[i], buf[f])

\* No message about f waits.
Heard(f) == \A i \in DOMAIN inbox : ~Concerns(inbox[i], f)

\* The last event about f has the text of the buffer, and so has the database if there is none.
LastEvent(f) ==
    /\ \A i \in DOMAIN fs_events :
          fs_events[i].path = f /\ (\A j \in DOMAIN fs_events : j > i => fs_events[j].path # f)
              => fs_events[i].kind # "RemoveFile" /\ fs_events[i].text = buf[f]
    /\ (\A i \in DOMAIN fs_events : fs_events[i].path # f) => db[f] = buf[f]

Undisturbed ==
    SettingsKept =>
        /\ configuration_request_id = 0
        /\ \A m \in Waiting : m.kind # "didChangeConfiguration"

Delivered ==
    /\ budget["settings"] <= Budget["settings"]
    /\ Undisturbed
    /\ SettingsKept /\ server = "running" => \A f \in Path :
          /\ LastMessage(f)
          /\ Heard(f) /\ f \in opened /\ buf[f] # NoText => LastEvent(f)

\* The inbox and the events before and after a step, by position.
LEMMA SendPositions ==
    ASSUME TypeOK, NEW m, Send(m)
    PROVE  /\ Len(inbox) \in Nat
           /\ DOMAIN inbox = 1..Len(inbox) /\ DOMAIN inbox' = 1..(Len(inbox) + 1)
           /\ \A i \in 1..Len(inbox) : inbox'[i] = inbox[i]
           /\ inbox'[Len(inbox) + 1] = m
<1>1. inbox \in Seq(Message) /\ inbox' = Append(inbox, m)
  BY DEF TypeOK, Send
<1>2. QED
  BY <1>1, AppendKeeps

LEMMA TailPositions ==
    ASSUME NEW S, NEW s \in Seq(S), s # <<>>
    PROVE  /\ Len(s) \in Nat /\ Len(s) > 0
           /\ DOMAIN s = 1..Len(s) /\ DOMAIN Tail(s) = 1..(Len(s) - 1)
           /\ \A i \in 1..(Len(s) - 1) : Tail(s)[i] = s[i + 1]
           /\ Head(s) = s[1] /\ Head(s) \in S
OBVIOUS

\* Sending: a message about a file has the text of its buffer, and where there is no message
\* the buffer stays.
LEMMA DeliveredSend ==
    ASSUME TypeOK, Delivered, NEW m, Send(m), m.kind # "didChangeConfiguration",
           \A f \in Path : IF Concerns(m, f) THEN Says(m, buf'[f]) ELSE buf'[f] = buf[f],
           budget'["settings"] = budget["settings"]
    PROVE  Delivered'
<1>1. UNCHANGED <<fs_events, opened, db, configuration_request_id, server>>
  BY DEF Send, ServerUnchanged, loopVars
<1>2. Waiting' = Waiting \cup {m}
  BY SendWaiting
<1>3. Undisturbed'
  BY <1>1, <1>2 DEF Delivered, Undisturbed, SettingsKept
<1>4. ASSUME SettingsKept', server' = "running", NEW f \in Path
      PROVE  LastMessage(f)' /\ (Heard(f)' /\ f \in opened' /\ buf'[f] # NoText => LastEvent(f)')
  <2>1. LastMessage(f) /\ (Heard(f) /\ f \in opened /\ buf[f] # NoText => LastEvent(f))
    BY <1>1, <1>4 DEF Delivered, SettingsKept
  <2>2. CASE Concerns(m, f)
    <3>1. LastMessage(f)'
      BY <2>2, SendPositions DEF LastMessage
    <3>2. ~Heard(f)'
      BY <2>2, SendPositions DEF Heard
    <3>3. QED
      BY <3>1, <3>2
  <2>3. CASE ~Concerns(m, f)
    <3>1. buf'[f] = buf[f]
      BY <2>3
    <3>2. LastMessage(f)'
      BY <2>1, <2>3, <3>1, SendPositions DEF LastMessage
    <3>3. Heard(f)' => Heard(f)
      BY SendPositions DEF Heard
    <3>4. LastEvent(f) => LastEvent(f)'
      BY <1>1, <3>1 DEF LastEvent
    <3>5. QED
      BY <1>1, <2>1, <3>1, <3>2, <3>3, <3>4
  <2>4. QED
    BY <2>2, <2>3
<1>5. QED
  BY <1>3, <1>4 DEF Delivered

\* Receiving: a message of its kind is worked off into the events, or the server ends.
LEMMA DeliveredReceive ==
    ASSUME TypeOK, Delivered, NEW kind, Receive(kind), kind # "didChangeConfiguration",
           UNCHANGED <<buf, budget, configuration_request_id>>,
           server' = "running" => \A f \in Path :
              IF Concerns(Head(inbox), f)
              THEN Says(Head(inbox), buf[f]) /\ f \in opened' /\ buf[f] # NoText => LastEvent(f)'
              ELSE (f \in opened' => f \in opened) /\ (LastEvent(f) => LastEvent(f)')
    PROVE  Delivered'
<1>1. inbox \in Seq(Message) /\ inbox # <<>> /\ inbox' = Tail(inbox) /\ server = "running"
  BY DEF TypeOK, Receive
<1>2. /\ Len(inbox) \in Nat /\ Len(inbox) > 0
      /\ DOMAIN inbox = 1..Len(inbox) /\ DOMAIN inbox' = 1..(Len(inbox) - 1)
      /\ \A i \in 1..(Len(inbox) - 1) : inbox'[i] = inbox[i + 1]
      /\ Head(inbox) = inbox[1]
  BY <1>1, TailPositions
<1>3. Undisturbed'
  BY ReceiveWaiting DEF Delivered, Undisturbed, SettingsKept
<1>4. ASSUME SettingsKept', server' = "running", NEW f \in Path
      PROVE  LastMessage(f)' /\ (Heard(f)' /\ f \in opened' /\ buf'[f] # NoText => LastEvent(f)')
  <2>1. LastMessage(f) /\ (Heard(f) /\ f \in opened /\ buf[f] # NoText => LastEvent(f))
    BY <1>1, <1>4 DEF Delivered, SettingsKept
  <2>2. \A i \in 1..(Len(inbox) - 1) : i + 1 \in 1..Len(inbox)
    BY <1>2
  <2>3. \A j \in 1..Len(inbox) : j = 1 \/ (j - 1 \in 1..(Len(inbox) - 1) /\ inbox'[j - 1] = inbox[j])
    BY <1>2
  <2>4. LastMessage(f)'
    <3> SUFFICES ASSUME NEW i \in 1..(Len(inbox) - 1), Concerns(inbox'[i], f),
                        \A j \in 1..(Len(inbox) - 1) : j > i => ~Concerns(inbox'[j], f)
                 PROVE  Says(inbox'[i], buf[f])
      BY <1>2 DEF LastMessage
    <3>1. \A j \in 1..Len(inbox) : j > i + 1 => ~Concerns(inbox[j], f)
      BY <1>2, <2>3
    <3>2. QED
      BY <1>2, <2>1, <2>2, <3>1 DEF LastMessage
  <2>5. CASE Concerns(Head(inbox), f)
    <3>1. ASSUME Heard(f)' PROVE Says(Head(inbox), buf[f])
      <4>1. \A j \in 1..Len(inbox) : j > 1 => ~Concerns(inbox[j], f)
        BY <1>2, <2>3, <3>1 DEF Heard
      <4>2. QED
        BY <1>2, <2>1, <2>5, <4>1 DEF LastMessage
    <3>2. QED
      BY <1>4, <2>4, <2>5, <3>1
  <2>6. CASE ~Concerns(Head(inbox), f)
    <3>1. Heard(f)' => Heard(f)
      BY <1>2, <2>3, <2>6 DEF Heard
    <3>2. QED
      BY <1>4, <2>1, <2>4, <2>6, <3>1
  <2>7. QED
    BY <2>5, <2>6
<1>5. QED
  BY <1>3, <1>4 DEF Delivered

\* Steps that touch none of what matters here.
LEMMA DeliveredSame ==
    ASSUME Delivered, UNCHANGED <<buf, inbox, fs_events, opened, db, configuration_request_id>>,
           server' = "running" => server = "running", budget'["settings"] = budget["settings"]
    PROVE  Delivered'
BY DEF Delivered, Undisturbed, SettingsKept, Waiting, LastMessage, Heard, LastEvent, Concerns, Says

LEMMA DeliveredInit == Init => Delivered
<1> SUFFICES ASSUME Init PROVE Delivered
  OBVIOUS
<1>1. inbox = <<>> /\ opened = {} /\ budget = Budget /\ configuration_request_id = 0
  BY DEF Init
<1>2. Waiting = {} /\ \A f \in Path : LastMessage(f)
  BY <1>1 DEF Waiting, LastMessage
<1>3. QED
  BY <1>1, <1>2, ConstantsAssumption DEF Delivered, Undisturbed, Steps

\* Once the user changes the settings nothing is promised any more.
LEMMA DeliveredNot ==
    ASSUME ~SettingsKept', budget'["settings"] <= Budget["settings"]
    PROVE  Delivered'
BY DEF Delivered, Undisturbed

LEMMA DeliveredClient ==
    ASSUME TypeOK, Delivered, Client
    PROVE  Delivered'
<1>s. /\ {"edits", "deletes", "saves", "faults", "exits"} \subseteq Steps \ {"settings", "total"}
      /\ "settings" \in Steps \ {"total"}
  BY DEF Steps
<1>f. Editable \subseteq Path /\ BadUri \notin Path
  BY ConstantsAssumption
<1>b. buf \in [Path -> File]
  BY DEF TypeOK, Files
<1>1. ASSUME NEW f \in Editable, NEW t \in Text, OpenDocument(f, t)
      PROVE  Delivered'
  <2> DEFINE m == [kind |-> "didOpen", uri |-> f, text |-> t]
  <2>1. m.kind = "didOpen" /\ m.uri = f /\ m.text = t
    OBVIOUS
  <2>2. Send(m) /\ buf' = [buf EXCEPT ![f] = t] /\ budget'["settings"] = budget["settings"]
    BY <1>1, <1>s, SpendOne DEF OpenDocument
  <2> HIDE DEF m
  <2>3. \A g \in Path : IF Concerns(m, g) THEN Says(m, buf'[g]) ELSE buf'[g] = buf[g]
    BY <1>b, <1>f, <2>1, <2>2 DEF Concerns, Says
  <2>4. QED
    BY <2>1, <2>2, <2>3, DeliveredSend
<1>2. ASSUME NEW f \in Editable, NEW t \in Text, NEW earlier \in Seq(Text), EditDocument(f, t, earlier)
      PROVE  Delivered'
  <2> DEFINE m == [kind |-> "didChange", uri |-> f, texts |-> Append(earlier, t)]
  <2>1. m.kind = "didChange" /\ m.uri = f /\ m.texts = Append(earlier, t)
    OBVIOUS
  <2>2. Send(m) /\ buf' = [buf EXCEPT ![f] = t] /\ budget'["settings"] = budget["settings"]
    BY <1>2, <1>s, SpendOne DEF EditDocument
  <2> HIDE DEF m
  <2>3. m.texts[Len(m.texts)] = t
    BY <2>1
  <2>4. \A g \in Path : IF Concerns(m, g) THEN Says(m, buf'[g]) ELSE buf'[g] = buf[g]
    BY <1>b, <1>f, <2>1, <2>2, <2>3 DEF Concerns, Says
  <2>5. QED
    BY <2>1, <2>2, <2>4, DeliveredSend
<1>3. ASSUME NEW f \in Editable, CloseDocument(f)
      PROVE  Delivered'
  <2> DEFINE m == [kind |-> "didClose", uri |-> f]
  <2>1. m.kind = "didClose" /\ m.uri = f
    OBVIOUS
  <2>2. Send(m) /\ buf' = [buf EXCEPT ![f] = NoText] /\ budget'["settings"] = budget["settings"]
    BY <1>3, <1>s, SpendOne DEF CloseDocument
  <2> HIDE DEF m
  <2>3. \A g \in Path : IF Concerns(m, g) THEN Says(m, buf'[g]) ELSE buf'[g] = buf[g]
    BY <1>b, <1>f, <2>1, <2>2 DEF Concerns, Says
  <2>4. QED
    BY <2>1, <2>2, <2>3, DeliveredSend
<1>4. ASSUME NEW f \in Editable, SaveDocument(f)
      PROVE  Delivered'
  BY <1>4, <1>s, SpendOne, DeliveredSame DEF SaveDocument, ServerUnchanged, loopVars
<1>5. ASSUME NEW m, Send(m), UNCHANGED buf, budget'["settings"] = budget["settings"],
             m.kind \in {"didChangeWatchedFiles", "response", "shutdown", "hangup"}
      PROVE  Delivered'
  <2>1. \A g \in Path : IF Concerns(m, g) THEN Says(m, buf'[g]) ELSE buf'[g] = buf[g]
    BY <1>5 DEF Says
  <2>2. QED
    BY <1>5, <2>1, DeliveredSend
<1>6. ASSUME NEW d \in Deletions, DeleteFiles(d)
      PROVE  Delivered'
  BY <1>5, <1>6, <1>s, SpendOne DEF DeleteFiles
<1>7. ASSUME NEW c \in Configs, ChangeSettings(c)
      PROVE  Delivered'
  <2>1. budget["settings"] \in Nat /\ budget'["settings"] \in Nat /\ budget'["settings"] < budget["settings"]
    BY <1>7, <1>s, SpendOne DEF ChangeSettings
  <2>2. budget["settings"] <= Budget["settings"] /\ Budget["settings"] \in Nat
    BY <1>s, ConstantsAssumption DEF Delivered
  <2>3. QED
    BY <2>1, <2>2, DeliveredNot DEF SettingsKept
<1>8. ASSUME NEW r \in asked, PrepareAnswer(r)
      PROVE  Delivered'
  BY <1>8, DeliveredSame DEF PrepareAnswer, ServerUnchanged, loopVars
<1>9. ASSUME NEW r \in asked, FailAnswer(r)
      PROVE  Delivered'
  BY <1>9, <1>s, SpendOne, DeliveredSame DEF FailAnswer, ServerUnchanged, loopVars
<1>10. ASSUME NEW r \in asked, SendAnswer(r)
       PROVE  Delivered'
  BY <1>10, <1>5 DEF SendAnswer
<1>11. ASSUME NEW m \in StrayMessages, SendStray(m)
       PROVE  Delivered'
  <2>1. Send(m) /\ UNCHANGED buf /\ budget'["settings"] = budget["settings"]
    BY <1>11, <1>s, SpendOne DEF SendStray
  <2>2. m.kind # "didChangeConfiguration"
    BY DEF StrayMessages
  <2>3. /\ m.kind = "didOpen" => m.uri = BadUri
        /\ m.kind = "didChange" => m.texts = <<>>
    BY DEF StrayMessages
  <2>4. \A g \in Path : IF Concerns(m, g) THEN Says(m, buf'[g]) ELSE buf'[g] = buf[g]
    BY <1>f, <2>1, <2>3 DEF Concerns, Says
  <2>5. QED
    BY <2>1, <2>2, <2>4, DeliveredSend
<1>12. ASSUME NEW kind \in {"shutdown", "hangup"}, Leave(kind)
       PROVE  Delivered'
  BY <1>5, <1>12, <1>s, SpendOne DEF Leave
<1>13. \A f \in Editable, t \in Text : EditDocument(f, t, <<buf[f]>>) => <<buf[f]>> \in Seq(Text)
  BY <1>f, <1>b DEF EditDocument, File
<1>14. <<>> \in Seq(Text)
  OBVIOUS
<1>15. QED
  BY <1>1, <1>2, <1>3, <1>4, <1>6, <1>7, <1>8, <1>9, <1>10, <1>11, <1>12, <1>13, <1>14 DEF Client

\* An event at the end of the queue is the last one about its file.
LEMMA EventAppended ==
    ASSUME TypeOK, NEW e, fs_events' = Append(fs_events, e), UNCHANGED <<db, buf>>, NEW f
    PROVE  /\ e.path # f /\ LastEvent(f) => LastEvent(f)'
           /\ e.path = f /\ e.kind # "RemoveFile" /\ e.text = buf[f] => LastEvent(f)'
<1>1. fs_events \in Seq(FileSystemEvent)
  BY DEF TypeOK
<1>2. /\ Len(fs_events) \in Nat
      /\ DOMAIN fs_events = 1..Len(fs_events) /\ DOMAIN fs_events' = 1..(Len(fs_events) + 1)
      /\ \A i \in 1..Len(fs_events) : fs_events'[i] = fs_events[i]
      /\ fs_events'[Len(fs_events) + 1] = e
  BY <1>1, AppendKeeps
<1>3. CASE e.path # f
  BY <1>2, <1>3 DEF LastEvent
<1>4. CASE e.path = f
  BY <1>2, <1>4 DEF LastEvent
<1>5. QED
  BY <1>3, <1>4

\* Events about other files change nothing.
LEMMA EventsAppended ==
    ASSUME TypeOK, NEW es \in Seq(FileSystemEvent), fs_events' = fs_events \o es, UNCHANGED <<db, buf>>,
           NEW f, \A i \in DOMAIN es : es[i].path # f, LastEvent(f)
    PROVE  LastEvent(f)'
<1>1. fs_events \in Seq(FileSystemEvent)
  BY DEF TypeOK
<1>2. /\ Len(fs_events) \in Nat /\ Len(es) \in Nat
      /\ DOMAIN fs_events = 1..Len(fs_events) /\ DOMAIN es = 1..Len(es)
      /\ DOMAIN fs_events' = 1..(Len(fs_events) + Len(es))
      /\ \A i \in 1..(Len(fs_events) + Len(es)) :
            fs_events'[i] = IF i <= Len(fs_events) THEN fs_events[i] ELSE es[i - Len(fs_events)]
  BY <1>1
<1>3. \A i \in DOMAIN fs_events' :
         \/ i \in DOMAIN fs_events /\ fs_events'[i] = fs_events[i]
         \/ i \notin DOMAIN fs_events /\ fs_events'[i].path # f
  <2> SUFFICES ASSUME NEW i \in 1..(Len(fs_events) + Len(es)), i > Len(fs_events)
               PROVE  fs_events'[i].path # f
    BY <1>2
  <2>1. i - Len(fs_events) \in 1..Len(es)
    BY <1>2
  <2>2. QED
    BY <1>2, <2>1
<1>4. DOMAIN fs_events \subseteq DOMAIN fs_events' /\ \A i \in DOMAIN fs_events : fs_events'[i] = fs_events[i]
  BY <1>2
<1>5. QED
  BY <1>3, <1>4 DEF LastEvent

LEMMA DeliveredTurn ==
    ASSUME TypeOK, Delivered, LspTurn
    PROVE  Delivered'
<1> DEFINE m == Head(inbox)
<1>1. CASE OnDidOpen
  <2>1. Receive("didOpen") /\ UNCHANGED <<buf, budget, configuration_request_id, db>>
    BY <1>1 DEF OnDidOpen, clientVars
  <2>2. m.kind = "didOpen"
    BY <2>1, ReceiveType
  <2> DEFINE e == [kind |-> "AddFile", path |-> m.uri, text |-> m.text]
  <2>3. server' = "running" => fs_events' = Append(fs_events, e) /\ opened' = opened \cup {m.uri}
    BY <1>1 DEF OnDidOpen
  <2>4. e.path = m.uri /\ e.kind = "AddFile" /\ e.text = m.text
    OBVIOUS
  <2> HIDE DEF m, e
  <2>5. \A f : Concerns(m, f) <=> f = m.uri
    BY <2>2 DEF Concerns
  <2>6. server' = "running" => \A f \in Path :
              IF Concerns(m, f)
              THEN Says(m, buf[f]) /\ f \in opened' /\ buf[f] # NoText => LastEvent(f)'
              ELSE (f \in opened' => f \in opened) /\ (LastEvent(f) => LastEvent(f)')
    BY <2>1, <2>2, <2>3, <2>4, <2>5, EventAppended DEF Says
  <2>7. QED
    BY <2>1, <2>6, DeliveredReceive DEF m
<1>2. CASE OnDidChange
  <2>1. Receive("didChange") /\ UNCHANGED <<buf, budget, configuration_request_id, db>>
    BY <1>2 DEF OnDidChange, clientVars
  <2>2. m.kind = "didChange"
    BY <2>1, ReceiveType
  <2> DEFINE e == [kind |-> "ChangeFile", path |-> m.uri, text |-> m.texts[Len(m.texts)]]
  <2>3. server' = "running" =>
           m.texts # <<>> /\ fs_events' = Append(fs_events, e) /\ opened' = opened \cup {m.uri}
    BY <1>2 DEF OnDidChange
  <2>4. e.path = m.uri /\ e.kind = "ChangeFile" /\ e.text = m.texts[Len(m.texts)]
    OBVIOUS
  <2> HIDE DEF m, e
  <2>5. \A f : Concerns(m, f) <=> f = m.uri
    BY <2>2 DEF Concerns
  <2>6. server' = "running" => \A f \in Path :
              IF Concerns(m, f)
              THEN Says(m, buf[f]) /\ f \in opened' /\ buf[f] # NoText => LastEvent(f)'
              ELSE (f \in opened' => f \in opened) /\ (LastEvent(f) => LastEvent(f)')
    BY <2>1, <2>2, <2>3, <2>4, <2>5, EventAppended DEF Says
  <2>7. QED
    BY <2>1, <2>6, DeliveredReceive DEF m
<1>3. CASE OnDidClose
  <2>1. /\ Receive("didClose") /\ opened' = opened \ {m.uri}
        /\ UNCHANGED <<buf, budget, configuration_request_id, db, fs_events>>
    BY <1>3 DEF OnDidClose, clientVars
  <2>2. m.kind = "didClose"
    BY <2>1, ReceiveType
  <2> HIDE DEF m
  <2>3. \A f : (Concerns(m, f) <=> f = m.uri) /\ (LastEvent(f) => LastEvent(f)')
    BY <2>1, <2>2 DEF Concerns, LastEvent
  <2>4. QED
    BY <2>1, <2>3, DeliveredReceive DEF m
<1>4. CASE OnDidChangeWatchedFiles
  <2>1. Receive("didChangeWatchedFiles") /\ UNCHANGED <<buf, budget, configuration_request_id, db>>
    BY <1>4 DEF OnDidChangeWatchedFiles, clientVars
  <2>2. m \in Message /\ m.kind = "didChangeWatchedFiles" /\ m.uris \in Seq(Uri)
    BY <2>1, ReceiveType, MessageFields
  <2>3. PICK n \in 0..Len(m.uris) :
          /\ \A i \in 1..n : m.uris[i] # BadUri
          /\ opened' = opened \ {m.uris[i] : i \in 1..n}
          /\ fs_events' = fs_events \o [i \in 1..n |-> [kind |-> "RemoveFile", path |-> m.uris[i]]]
          /\ server' = IF n < Len(m.uris) THEN "failed" ELSE server
    BY <1>4 DEF OnDidChangeWatchedFiles
  <2> DEFINE es == [i \in 1..n |-> [kind |-> "RemoveFile", path |-> m.uris[i]]]
  <2>4. \A i \in 1..n : m.uris[i] \in Path
    BY <2>2, <2>3 DEF Uri
  <2>5. es \in Seq(FileSystemEvent) /\ DOMAIN es = 1..n /\ \A i \in 1..n : es[i].path = m.uris[i]
    <3>1. \A i \in 1..n : [kind |-> "RemoveFile", path |-> m.uris[i]] \in FileSystemEvent
      BY <2>4 DEF FileSystemEvent
    <3>2. QED
      BY <2>2, <3>1
  <2>6. fs_events' = fs_events \o es
    BY <2>3
  <2> HIDE DEF m, es
  <2>7. ASSUME server' = "running", NEW f \in Path
        PROVE  IF Concerns(m, f)
               THEN Says(m, buf[f]) /\ f \in opened' /\ buf[f] # NoText => LastEvent(f)'
               ELSE (f \in opened' => f \in opened) /\ (LastEvent(f) => LastEvent(f)')
    <3>1. n = Len(m.uris) /\ DOMAIN m.uris = 1..n
      BY <2>2, <2>3, <2>7
    <3>2. CASE Concerns(m, f)
      <4>1. f \notin opened'
        BY <2>2, <2>3, <3>1, <3>2 DEF Concerns
      <4>2. QED
        BY <3>2, <4>1
    <3>3. CASE ~Concerns(m, f)
      <4>1. \A i \in DOMAIN es : es[i].path # f
        BY <2>2, <2>5, <3>1, <3>3 DEF Concerns
      <4>2. LastEvent(f) => LastEvent(f)'
        BY <2>1, <2>5, <2>6, <4>1, EventsAppended
      <4>3. QED
        BY <2>3, <3>3, <4>2
    <3>4. QED
      BY <3>2, <3>3
  <2>8. QED
    BY <2>1, <2>7, DeliveredReceive DEF m
<1>5. CASE OnDidChangeConfiguration
  <2>1. Receive("didChangeConfiguration") /\ UNCHANGED budget
    BY <1>5 DEF OnDidChangeConfiguration
  <2>2. m \in Waiting /\ m.kind = "didChangeConfiguration"
    BY <2>1, ReceiveWaiting
  <2>3. ~SettingsKept /\ budget["settings"] <= Budget["settings"]
    BY <2>2 DEF Delivered, Undisturbed
  <2>4. QED
    BY <2>1, <2>3, DeliveredNot DEF SettingsKept
<1>6. CASE OnResponse
  <2>1. Receive("response") /\ UNCHANGED <<buf, budget, opened, fs_events>>
    BY <1>6 DEF OnResponse, clientVars
  <2>2. m \in Message /\ m.kind = "response" /\ m.id # 0
    BY <2>1, ReceiveType, MessageFields
  <2>3. CASE ~SettingsKept
    BY <2>1, <2>3, DeliveredNot DEF SettingsKept, Delivered
  <2>4. CASE SettingsKept
    <3>1. configuration_request_id = 0
      BY <2>4 DEF Delivered, Undisturbed
    <3>2. UNCHANGED <<configuration_request_id, db>>
      BY <1>6, <2>2, <3>1 DEF OnResponse
    <3> HIDE DEF m
    <3>3. \A f : ~Concerns(m, f) /\ (LastEvent(f) => LastEvent(f)')
      BY <2>1, <2>2, <3>2 DEF Concerns, LastEvent
    <3>4. QED
      BY <2>1, <3>2, <3>3, DeliveredReceive DEF m
  <2>5. QED
    BY <2>3, <2>4
<1>7. CASE OnRequest \/ OnShutdown \/ OnHangup
  <2>1. PICK kind \in {"request", "shutdown", "hangup"} : Receive(kind)
    BY <1>7 DEF OnRequest, OnShutdown, OnHangup
  <2>2. UNCHANGED <<buf, budget, opened, fs_events, configuration_request_id, db>>
    BY <1>7 DEF OnRequest, OnShutdown, OnHangup, clientVars, loopVars
  <2>3. m.kind = kind
    BY <2>1, ReceiveType
  <2> HIDE DEF m
  <2>4. \A f : ~Concerns(m, f) /\ (LastEvent(f) => LastEvent(f)')
    BY <2>2, <2>3 DEF Concerns, LastEvent
  <2>5. QED
    BY <2>1, <2>2, <2>4, DeliveredReceive DEF m
<1>8. QED
  BY <1>1, <1>2, <1>3, <1>4, <1>5, <1>6, <1>7 DEF LspTurn

\* A turn on a file event brings its text into the database.
LEMMA DeliveredEvent ==
    ASSUME TypeOK, Delivered, FileSystemTurn
    PROVE  Delivered'
<1> DEFINE e == Head(fs_events)
<1>1. /\ fs_events \in Seq(FileSystemEvent) /\ fs_events # <<>> /\ fs_events' = Tail(fs_events)
      /\ db' = ApplyChange(db, e) /\ db \in [Path -> File]
      /\ UNCHANGED <<buf, budget, inbox, opened, configuration_request_id, server>>
  BY DEF TypeOK, FileSystemTurn, Files, clientVars
<1>2. /\ Len(fs_events) \in Nat /\ Len(fs_events) > 0
      /\ DOMAIN fs_events = 1..Len(fs_events) /\ DOMAIN fs_events' = 1..(Len(fs_events) - 1)
      /\ \A i \in 1..(Len(fs_events) - 1) : fs_events'[i] = fs_events[i + 1]
      /\ e = fs_events[1]
  BY <1>1, TailPositions
<1> HIDE DEF e
<1>3. \A i \in 1..(Len(fs_events) - 1) : i + 1 \in 1..Len(fs_events)
  BY <1>2
<1>4. \A j \in 1..Len(fs_events) :
         j = 1 \/ (j - 1 \in 1..(Len(fs_events) - 1) /\ fs_events'[j - 1] = fs_events[j])
  BY <1>2
<1>5. ASSUME NEW f \in Path, LastEvent(f)
      PROVE  LastEvent(f)'
  <2>1. ASSUME NEW i \in 1..(Len(fs_events) - 1), fs_events'[i].path = f,
               \A j \in 1..(Len(fs_events) - 1) : j > i => fs_events'[j].path # f
        PROVE  fs_events'[i].kind # "RemoveFile" /\ fs_events'[i].text = buf[f]
    <3>1. \A j \in 1..Len(fs_events) : j > i + 1 => fs_events[j].path # f
      BY <1>2, <1>4, <2>1
    <3>2. QED
      BY <1>2, <1>3, <1>5, <2>1, <3>1 DEF LastEvent
  <2>2. ASSUME \A j \in 1..(Len(fs_events) - 1) : fs_events'[j].path # f
        PROVE  db'[f] = buf[f]
    <3>1. \A j \in 1..Len(fs_events) : j > 1 => fs_events[j].path # f
      BY <1>2, <1>4, <2>2
    <3>2. CASE e.path = f
      <4>1. e.kind # "RemoveFile" /\ e.text = buf[f]
        BY <1>2, <1>5, <3>1, <3>2 DEF LastEvent
      <4>2. QED
        BY <1>1, <3>2, <4>1 DEF ApplyChange
    <3>3. CASE e.path # f
      <4>1. db[f] = buf[f]
        BY <1>2, <1>5, <3>1, <3>3 DEF LastEvent
      <4>2. QED
        BY <1>1, <3>3, <4>1 DEF ApplyChange
    <3>4. QED
      BY <3>2, <3>3
  <2>3. QED
    BY <1>1, <1>2, <2>1, <2>2 DEF LastEvent
<1>6. \A f \in Path : LastMessage(f)' = LastMessage(f) /\ Heard(f)' = Heard(f)
  BY <1>1 DEF LastMessage, Heard, Concerns, Says
<1>7. Undisturbed' /\ SettingsKept' = SettingsKept
  BY <1>1 DEF Delivered, Undisturbed, SettingsKept, Waiting
<1>8. QED
  BY <1>1, <1>5, <1>6, <1>7 DEF Delivered

\* As long as the user leaves the settings alone, the database has the text of every opened
\* buffer when messages and events are worked off: for any number of files, in any order of
\* edits, closes, deletions, turns and checks, stray messages and late answers included.
THEOREM BuffersTheorem == Spec => [](SettingsKept => BuffersInDatabase)
<1>1. TypeOK /\ Delivered /\ [Next]_vars => Delivered'
  <2> SUFFICES ASSUME TypeOK, Delivered, [Next]_vars PROVE Delivered'
    OBVIOUS
  <2>1. CASE ResponseTurn
    BY <2>1, DeliveredSame DEF ResponseTurn, loopVars
  <2>2. CASE Worker
    BY <2>2, DeliveredSame, WorkerFrame DEF WorkerUnchanged, clientVars, loopVars
  <2>3. CASE UNCHANGED vars
    BY <2>3, DeliveredSame DEF vars, clientVars, loopVars
  <2>4. QED
    BY <2>1, <2>2, <2>3, DeliveredClient, DeliveredTurn, DeliveredEvent DEF Next
<1>2. TypeOK /\ Delivered => (SettingsKept => BuffersInDatabase)
  <2> SUFFICES ASSUME TypeOK, Delivered, SettingsKept, server = "running", inbox = <<>>, fs_events = <<>>,
                      NEW f \in opened, buf[f] # NoText
               PROVE  db[f] = buf[f]
    BY DEF BuffersInDatabase
  <2>1. f \in Path
    BY DEF TypeOK
  <2>2. LastEvent(f)
    BY <2>1 DEF Delivered, Heard
  <2>3. QED
    BY <2>2 DEF LastEvent
<1>3. QED
  BY <1>1, <1>2, DeliveredInit, TypeCorrect, PTL DEF Spec

-----------------------------------------------------------------------------
(* The library *)

\* The user edits and deletes no file of a standard library.
LibraryKept == \A c \in Configs : c.stdlib \cap Editable = {}

\* Messages and events are about files of the user, so that the database and every snapshot
\* have the library as it is on disk.
LibraryInSync ==
    /\ \A m \in Waiting : \A f \in Path : Concerns(m, f) => f \in Editable
    /\ \A i \in DOMAIN fs_events : fs_events[i].path \in Editable
    /\ \A f \in config.stdlib : db[f] = disk[f]
    /\ \A j \in DOMAIN jobs : \A f \in jobs[j].config.stdlib : jobs[j].db[f] = disk[f]

-----------------------------------------------------------------------------
(* The diagnostics *)

\* A check of the last snapshot finds an error in f.
Faulty(f) == \E g \in latest.files : f \in ErrorFiles(CompiledFiles(latest.db, latest.config, g))

\* A diagnostic is that of the text in the snapshot.
Sound(d) == d.diagnostic # NoText => d.diagnostic = latest.db[d.fpath] /\ Faulty(d.fpath)

\* The diagnostics say something of f, and last that it does not parse if it does not.
Told(diags, f) ==
    /\ LastOf(diags, f) # {}
    /\ latest.db[f] \in Broken => \A i \in LastOf(diags, f) : diags[i].diagnostic = latest.db[f]

Right(diags, done) ==
    /\ \A i \in DOMAIN diags : Sound(diags[i])
    /\ \A f \in done : Told(diags, f)

\* What the editor shows for f is what the last snapshot calls for.
ShownRight(f) ==
    /\ shown[f] # NoText => shown[f] = latest.db[f] /\ Faulty(f)
    /\ latest.db[f] \in Broken => shown[f] = latest.db[f]

\* An opened file is in the last snapshot or has an event that waits.
OpenCovered ==
    \A f \in opened : f \in latest.files \/ \E i \in DOMAIN fs_events : fs_events[i].path = f

\* The job of the last snapshot is in the queue, or its batch is, or it is published; and on
\* the way its diagnostics are right about the files that are checked.
OnItsWay ==
    /\ latest.n > 0 =>
          /\ ModuleFiles(latest.db, latest.config) \subseteq latest.files
          /\ \/ published = latest.n
             \/ \E i \in DOMAIN resp_events : resp_events[i].n = latest.n
             \/ \E j \in DOMAIN jobs : jobs[j].n = latest.n
    /\ \A j \in DOMAIN jobs : jobs[j].n = latest.n =>
          /\ jobs[j].db = latest.db /\ jobs[j].config = latest.config
          /\ jobs[j].todo \subseteq latest.files
          /\ Right(jobs[j].diags, latest.files \ jobs[j].todo)
    /\ \A i \in DOMAIN resp_events : resp_events[i].n = latest.n =>
          Right(resp_events[i].diags, latest.files)
    /\ published = latest.n /\ latest.n > 0 => \A f \in latest.files : ShownRight(f)

Feed == LibraryInSync /\ OpenCovered /\ OnItsWay

-----------------------------------------------------------------------------
(* What steps do *)

\* Steps of the client send at most one message, about files of the user, and write no other
\* files.
LEMMA ClientStep ==
    ASSUME TypeOK, Client
    PROVE  /\ ServerUnchanged /\ UNCHANGED shown
           /\ \A f \in Path \ Editable : disk'[f] = disk[f]
           /\ \/ UNCHANGED inbox
              \/ \E m : Send(m) /\ \A f \in Path : Concerns(m, f) => f \in Editable
<1> DEFINE Result ==
           /\ ServerUnchanged /\ UNCHANGED shown
           /\ \A f \in Path \ Editable : disk'[f] = disk[f]
           /\ \/ UNCHANGED inbox
              \/ \E m : Send(m) /\ \A f \in Path : Concerns(m, f) => f \in Editable
<1>d. disk \in [Path -> File]
  BY DEF TypeOK, Files
<1>0. ASSUME NEW m, Send(m), \A f \in Path : Concerns(m, f) => f \in Editable,
             UNCHANGED shown, \A f \in Path \ Editable : disk'[f] = disk[f]
      PROVE  Result
  BY <1>0 DEF Send
<1> HIDE DEF Result
<1>1. ASSUME NEW f \in Editable, NEW t \in Text, OpenDocument(f, t)
      PROVE  Result
  <2> DEFINE m == [kind |-> "didOpen", uri |-> f, text |-> t]
  <2>1. \A g : Concerns(m, g) => g = f
    BY DEF Concerns
  <2>2. QED
    BY <1>0, <1>1, <2>1 DEF OpenDocument
<1>2. ASSUME NEW f \in Editable, NEW t \in Text, NEW earlier, EditDocument(f, t, earlier)
      PROVE  Result
  <2> DEFINE m == [kind |-> "didChange", uri |-> f, texts |-> Append(earlier, t)]
  <2>1. \A g : Concerns(m, g) => g = f
    BY DEF Concerns
  <2>2. QED
    BY <1>0, <1>2, <2>1 DEF EditDocument
<1>3. ASSUME NEW f \in Editable, CloseDocument(f)
      PROVE  Result
  <2> DEFINE m == [kind |-> "didClose", uri |-> f]
  <2>1. \A g : Concerns(m, g) => g = f
    BY DEF Concerns
  <2>2. QED
    BY <1>0, <1>3, <2>1 DEF CloseDocument
<1>4. ASSUME NEW f \in Editable, SaveDocument(f)
      PROVE  Result
  BY <1>d, <1>4 DEF SaveDocument, Result
<1>5. ASSUME NEW d \in Deletions, DeleteFiles(d)
      PROVE  Result
  <2>1. \A i \in DOMAIN d : d[i] \in Editable
    <3>1. \A f \in Editable : \A i \in DOMAIN <<f>> : <<f>>[i] \in Editable
      OBVIOUS
    <3>2. \A q \in Editable \X Editable : \A i \in DOMAIN <<q[1], q[2]>> : <<q[1], q[2]>>[i] \in Editable
      OBVIOUS
    <3>3. QED
      BY <3>1, <3>2, Zenon DEF Deletions
  <2> DEFINE m == [kind |-> "didChangeWatchedFiles", uris |-> d]
  <2>2. \A g : Concerns(m, g) => g \in Editable
    BY <2>1 DEF Concerns
  <2>3. \A f \in Path \ Editable : disk'[f] = disk[f]
    BY <1>5, <2>1 DEF DeleteFiles
  <2>4. QED
    BY <1>0, <1>5, <2>2, <2>3 DEF DeleteFiles
<1>6. ASSUME NEW m, Send(m), UNCHANGED <<shown, disk>>,
             m.kind \in {"didChangeConfiguration", "response", "shutdown", "hangup"}
      PROVE  Result
  <2>1. \A f : ~Concerns(m, f)
    BY <1>6 DEF Concerns
  <2>2. QED
    BY <1>0, <1>6, <2>1
<1>7. ASSUME NEW c \in Configs, ChangeSettings(c)
      PROVE  Result
  BY <1>6, <1>7 DEF ChangeSettings
<1>8. ASSUME NEW r \in asked, PrepareAnswer(r)
      PROVE  Result
  BY <1>8 DEF PrepareAnswer, Result
<1>9. ASSUME NEW r \in asked, FailAnswer(r)
      PROVE  Result
  BY <1>9 DEF FailAnswer, Result
<1>10. ASSUME NEW r \in asked, SendAnswer(r)
       PROVE  Result
  BY <1>6, <1>10 DEF SendAnswer
<1>11. ASSUME NEW m \in StrayMessages, SendStray(m)
       PROVE  Result
  <2>1. BadUri \notin Path
    BY ConstantsAssumption
  <2>2. \A f \in Path : Concerns(m, f) => f \in Editable
    <3>1. CASE m.kind = "didChangeWatchedFiles"
      <4>1. PICK f \in Editable : m = [kind |-> "didChangeWatchedFiles", uris |-> <<f, BadUri>>]
        BY <3>1 DEF StrayMessages
      <4>2. \A i \in DOMAIN m.uris : m.uris[i] \in {f, BadUri}
        BY <4>1
      <4>3. QED
        BY <2>1, <3>1, <4>1, <4>2 DEF Concerns
    <3>2. CASE m.kind # "didChangeWatchedFiles"
      BY <2>1, <3>2 DEF StrayMessages, Concerns
    <3>3. QED
      BY <3>1, <3>2
  <2>3. QED
    BY <1>0, <1>11, <2>2 DEF SendStray
<1>12. ASSUME NEW kind \in {"shutdown", "hangup"}, Leave(kind)
       PROVE  Result
  BY <1>6, <1>12 DEF Leave
<1>13. Result
  BY <1>1, <1>2, <1>3, <1>4, <1>5, <1>7, <1>8, <1>9, <1>10, <1>11, <1>12 DEF Client
<1>14. QED
  BY <1>13 DEF Result

\* A turn on a message queues events about the files of the message, counts no other file as
\* opened, and leaves the database alone or reloads it from disk.
MessageTurn ==
    /\ UNCHANGED <<disk, shown, resp_events, jobs, latest, published>>
    /\ Waiting' \subseteq Waiting
    /\ \/ UNCHANGED <<config, db>>
       \/ config' \in Configs /\ db' = LoadFiles(config')
    /\ \A i \in DOMAIN fs_events : i \in DOMAIN fs_events' /\ fs_events'[i] = fs_events[i]
    /\ \A i \in DOMAIN fs_events' \ DOMAIN fs_events : fs_events'[i].path \in Editable
    /\ \A f \in opened' \ opened : \E i \in DOMAIN fs_events' : fs_events'[i].path = f

\* The events that a turn appends.
LEMMA OneEvent ==
    ASSUME TypeOK, NEW e, fs_events' = Append(fs_events, e)
    PROVE  /\ \A i \in DOMAIN fs_events : i \in DOMAIN fs_events' /\ fs_events'[i] = fs_events[i]
           /\ \A i \in DOMAIN fs_events' \ DOMAIN fs_events : fs_events'[i] = e
           /\ \E i \in DOMAIN fs_events' : fs_events'[i] = e
<1>1. fs_events \in Seq(FileSystemEvent)
  BY DEF TypeOK
<1>2. /\ Len(fs_events) \in Nat
      /\ DOMAIN fs_events = 1..Len(fs_events) /\ DOMAIN fs_events' = 1..(Len(fs_events) + 1)
      /\ \A i \in 1..Len(fs_events) : fs_events'[i] = fs_events[i]
      /\ fs_events'[Len(fs_events) + 1] = e
  BY <1>1, AppendKeeps
<1>3. QED
  BY <1>2

LEMMA SomeEvents ==
    ASSUME TypeOK, NEW es \in Seq(FileSystemEvent), fs_events' = fs_events \o es
    PROVE  /\ \A i \in DOMAIN fs_events : i \in DOMAIN fs_events' /\ fs_events'[i] = fs_events[i]
           /\ \A i \in DOMAIN fs_events' \ DOMAIN fs_events :
                 \E k \in DOMAIN es : fs_events'[i] = es[k]
<1>1. fs_events \in Seq(FileSystemEvent)
  BY DEF TypeOK
<1>2. /\ Len(fs_events) \in Nat /\ Len(es) \in Nat
      /\ DOMAIN fs_events = 1..Len(fs_events) /\ DOMAIN es = 1..Len(es)
      /\ DOMAIN fs_events' = 1..(Len(fs_events) + Len(es))
      /\ \A i \in 1..(Len(fs_events) + Len(es)) :
            fs_events'[i] = IF i <= Len(fs_events) THEN fs_events[i] ELSE es[i - Len(fs_events)]
  BY <1>1
<1>3. \A i \in DOMAIN fs_events' \ DOMAIN fs_events :
         i - Len(fs_events) \in DOMAIN es /\ fs_events'[i] = es[i - Len(fs_events)]
  BY <1>2
<1>4. QED
  BY <1>2, <1>3

LEMMA LspStep ==
    ASSUME TypeOK, LibraryInSync, LspTurn
    PROVE  MessageTurn
<1> DEFINE m == Head(inbox)
<1>0. ASSUME NEW kind, Receive(kind)
      PROVE  /\ m \in Message /\ m.kind = kind /\ Waiting' \subseteq Waiting
             /\ \A f \in Path : Concerns(m, f) => f \in Editable
  <2>1. Waiting = Waiting' \cup {m} /\ m \in Message /\ m.kind = kind
    BY <1>0, ReceiveWaiting
  <2>2. QED
    BY <2>1 DEF LibraryInSync
<1>1. CASE OnDidOpen
  <2>1. Receive("didOpen") /\ UNCHANGED <<disk, shown, resp_events, jobs, latest, published, config, db>>
    BY <1>1 DEF OnDidOpen, clientVars, history
  <2> DEFINE e == [kind |-> "AddFile", path |-> m.uri, text |-> m.text]
  <2>2. \/ UNCHANGED <<fs_events, opened>>
        \/ m.uri # BadUri /\ fs_events' = Append(fs_events, e) /\ opened' = opened \cup {m.uri}
    BY <1>1 DEF OnDidOpen
  <2>3. m.uri \in Uri /\ e.path = m.uri /\ (m.uri \in Path => m.uri \in Editable)
    BY <1>0, <2>1, MessageFields DEF Concerns
  <2> HIDE DEF e
  <2>4. CASE UNCHANGED <<fs_events, opened>>
    BY <1>0, <2>1, <2>4 DEF MessageTurn
  <2>5. CASE m.uri # BadUri /\ fs_events' = Append(fs_events, e) /\ opened' = opened \cup {m.uri}
    <3>1. m.uri \in Editable
      BY <2>3, <2>5 DEF Uri
    <3>2. QED
      BY <1>0, <2>1, <2>3, <2>5, <3>1, OneEvent DEF MessageTurn
  <2>6. QED
    BY <2>2, <2>4, <2>5
<1>2. CASE OnDidChange
  <2>1. Receive("didChange") /\ UNCHANGED <<disk, shown, resp_events, jobs, latest, published, config, db>>
    BY <1>2 DEF OnDidChange, clientVars, history
  <2> DEFINE e == [kind |-> "ChangeFile", path |-> m.uri, text |-> m.texts[Len(m.texts)]]
  <2>2. \/ UNCHANGED <<fs_events, opened>>
        \/ m.uri # BadUri /\ fs_events' = Append(fs_events, e) /\ opened' = opened \cup {m.uri}
    BY <1>2 DEF OnDidChange
  <2>3. m.uri \in Uri /\ e.path = m.uri /\ (m.uri \in Path => m.uri \in Editable)
    BY <1>0, <2>1, MessageFields DEF Concerns
  <2> HIDE DEF e
  <2>4. CASE UNCHANGED <<fs_events, opened>>
    BY <1>0, <2>1, <2>4 DEF MessageTurn
  <2>5. CASE m.uri # BadUri /\ fs_events' = Append(fs_events, e) /\ opened' = opened \cup {m.uri}
    <3>1. m.uri \in Editable
      BY <2>3, <2>5 DEF Uri
    <3>2. QED
      BY <1>0, <2>1, <2>3, <2>5, <3>1, OneEvent DEF MessageTurn
  <2>6. QED
    BY <2>2, <2>4, <2>5
<1>3. CASE OnDidClose
  <2>1. /\ Receive("didClose") /\ opened' \subseteq opened
        /\ UNCHANGED <<disk, shown, resp_events, jobs, latest, published, config, db, fs_events>>
    BY <1>3 DEF OnDidClose, clientVars, history
  <2>2. QED
    BY <1>0, <2>1 DEF MessageTurn
<1>4. CASE OnDidChangeWatchedFiles
  <2>1. /\ Receive("didChangeWatchedFiles")
        /\ UNCHANGED <<disk, shown, resp_events, jobs, latest, published, config, db>>
    BY <1>4 DEF OnDidChangeWatchedFiles, clientVars, history
  <2>2. m \in Message /\ m.kind = "didChangeWatchedFiles" /\ m.uris \in Seq(Uri)
    BY <1>0, <2>1, MessageFields
  <2>3. PICK n \in 0..Len(m.uris) :
          /\ \A i \in 1..n : m.uris[i] # BadUri
          /\ opened' = opened \ {m.uris[i] : i \in 1..n}
          /\ fs_events' = fs_events \o [i \in 1..n |-> [kind |-> "RemoveFile", path |-> m.uris[i]]]
    BY <1>4 DEF OnDidChangeWatchedFiles
  <2> DEFINE es == [i \in 1..n |-> [kind |-> "RemoveFile", path |-> m.uris[i]]]
  <2>4. \A i \in 1..n : i \in DOMAIN m.uris /\ m.uris[i] \in Path
    BY <2>2, <2>3 DEF Uri
  <2>5. \A i \in 1..n : m.uris[i] \in Editable
    BY <1>0, <2>1, <2>2, <2>4 DEF Concerns
  <2>6. es \in Seq(FileSystemEvent) /\ DOMAIN es = 1..n /\ \A i \in 1..n : es[i].path = m.uris[i]
    <3>1. \A i \in 1..n : [kind |-> "RemoveFile", path |-> m.uris[i]] \in FileSystemEvent
      BY <2>4 DEF FileSystemEvent
    <3>2. QED
      BY <2>2, <3>1
  <2>7. fs_events' = fs_events \o es
    BY <2>3
  <2> HIDE DEF es
  <2>8. /\ \A i \in DOMAIN fs_events : i \in DOMAIN fs_events' /\ fs_events'[i] = fs_events[i]
        /\ \A i \in DOMAIN fs_events' \ DOMAIN fs_events : fs_events'[i].path \in Editable
    <3>1. /\ \A i \in DOMAIN fs_events : i \in DOMAIN fs_events' /\ fs_events'[i] = fs_events[i]
          /\ \A i \in DOMAIN fs_events' \ DOMAIN fs_events : \E k \in DOMAIN es : fs_events'[i] = es[k]
      BY <2>6, <2>7, SomeEvents
    <3>2. \A k \in DOMAIN es : es[k].path \in Editable
      BY <2>5, <2>6
    <3>3. QED
      BY <3>1, <3>2
  <2>9. opened' \ opened = {}
    BY <2>3
  <2>10. Waiting' \subseteq Waiting
    BY <1>0, <2>1
  <2>11. QED
    BY <2>1, <2>8, <2>9, <2>10 DEF MessageTurn
<1>5. CASE OnDidChangeConfiguration
  <2>1. /\ Receive("didChangeConfiguration")
        /\ UNCHANGED <<disk, shown, resp_events, jobs, latest, published, config, db, fs_events, opened>>
    BY <1>5 DEF OnDidChangeConfiguration, history
  <2>2. QED
    BY <1>0, <2>1 DEF MessageTurn
<1>6. CASE OnResponse
  <2>1. /\ Receive("response")
        /\ UNCHANGED <<disk, shown, resp_events, jobs, latest, published, fs_events, opened>>
    BY <1>6 DEF OnResponse, clientVars, history
  <2>2. m.body \in Body
    BY <1>0, <2>1, MessageFields
  <2>3. m.body.kind = "settings" => m.body.value \in Configs
    BY <2>2, BodyFields
  <2>4. \/ UNCHANGED <<config, db>>
        \/ config' \in Configs /\ db' = LoadFiles(config')
    BY <1>6, <2>3 DEF OnResponse
  <2>5. QED
    BY <1>0, <2>1, <2>4 DEF MessageTurn
<1>7. CASE OnRequest \/ OnShutdown \/ OnHangup
  <2>1. PICK kind : Receive(kind)
    BY <1>7 DEF OnRequest, OnShutdown, OnHangup
  <2>2. UNCHANGED <<disk, shown, resp_events, jobs, latest, published, config, db, fs_events, opened>>
    BY <1>7 DEF OnRequest, OnShutdown, OnHangup, clientVars, loopVars, history
  <2>3. QED
    BY <1>0, <2>1, <2>2 DEF MessageTurn
<1>8. QED
  BY <1>1, <1>2, <1>3, <1>4, <1>5, <1>6, <1>7 DEF LspTurn

\* The library is not among the files of the user.
LEMMA LibraryFiles ==
    ASSUME LibraryKept, NEW c \in Configs
    PROVE  c.stdlib \subseteq Path \ Editable
<1>1. c \in Config
  BY ConstantsAssumption
<1>2. c.stdlib \subseteq Path
  BY <1>1 DEF Config
<1>3. QED
  BY <1>2 DEF LibraryKept

\* As long as the last snapshot stays, and the files that the user does not edit, what the
\* snapshot calls for stays.
LEMMA SameVerdicts ==
    ASSUME LibraryKept, TypeOK, UNCHANGED latest, \A f \in Path \ Editable : disk'[f] = disk[f]
    PROVE  /\ \A f : Faulty(f)' <=> Faulty(f)
           /\ \A diags, done : Right(diags, done)' <=> Right(diags, done)
<1>1. latest.config \in Configs
  BY DEF TypeOK, Snapshot
<1>2. latest.config.stdlib \subseteq Path \ Editable
  BY <1>1, LibraryFiles
<1>3. \A g : CompiledFiles(latest.db, latest.config, g)' = CompiledFiles(latest.db, latest.config, g)
  BY <1>2 DEF CompiledFiles
<1>4. \A f : Faulty(f)' <=> Faulty(f)
  BY <1>3 DEF Faulty
<1>5. \A d : Sound(d)' <=> Sound(d)
  BY <1>4 DEF Sound
<1>6. \A diags, f : Told(diags, f)' <=> Told(diags, f)
  BY DEF Told
<1>7. QED
  BY <1>4, <1>5, <1>6 DEF Right

LEMMA SameWay ==
    ASSUME LibraryKept, TypeOK, OnItsWay, UNCHANGED <<shown, resp_events, jobs, latest, published>>,
           \A f \in Path \ Editable : disk'[f] = disk[f]
    PROVE  OnItsWay'
<1>1. /\ \A f : Faulty(f)' <=> Faulty(f)
      /\ \A diags, done : Right(diags, done)' <=> Right(diags, done)
  BY SameVerdicts
<1>2. \A f : ShownRight(f)' <=> ShownRight(f)
  BY <1>1 DEF ShownRight
<1>3. QED
  BY <1>1, <1>2 DEF OnItsWay

\* A diagnostic at the end is the last one of its file.
LEMMA AppendRight ==
    ASSUME NEW diags \in Seq(FileDiagnostic), NEW d \in FileDiagnostic, NEW done,
           Right(diags, done), Sound(d),
           d.fpath \in done /\ latest.db[d.fpath] \in Broken => d.diagnostic = latest.db[d.fpath]
    PROVE  /\ Right(Append(diags, d), done)
           /\ latest.db[d.fpath] \notin Broken \/ d.diagnostic = latest.db[d.fpath]
                 => Right(Append(diags, d), done \cup {d.fpath})
<1> DEFINE more == Append(diags, d)
<1>1. /\ Len(diags) \in Nat /\ DOMAIN diags = 1..Len(diags) /\ DOMAIN more = 1..(Len(diags) + 1)
      /\ \A i \in 1..Len(diags) : more[i] = diags[i]
      /\ more[Len(diags) + 1] = d
  BY AppendKeeps
<1> HIDE DEF more
<1>2. LastOf(more, d.fpath) = {Len(diags) + 1}
  BY <1>1 DEF LastOf
<1>3. \A f : f # d.fpath => LastOf(more, f) = LastOf(diags, f)
  BY <1>1 DEF LastOf
<1>4. \A f : LastOf(diags, f) \subseteq 1..Len(diags)
  BY <1>1 DEF LastOf
<1>5. \A i \in DOMAIN more : Sound(more[i])
  <2>1. \A i \in DOMAIN more : i \in 1..Len(diags) \/ i = Len(diags) + 1
    BY <1>1
  <2>2. \A i \in 1..Len(diags) : Sound(diags[i])
    BY <1>1 DEF Right
  <2>3. QED
    BY <1>1, <2>1, <2>2
<1>6. \A f : f # d.fpath /\ Told(diags, f) => Told(more, f)
  BY <1>1, <1>3, <1>4 DEF Told
<1>7. latest.db[d.fpath] \notin Broken \/ d.diagnostic = latest.db[d.fpath] => Told(more, d.fpath)
  BY <1>1, <1>2 DEF Told
<1>8. \A f \in done : Told(more, f)
  BY <1>6, <1>7 DEF Right
<1>9. QED
  BY <1>5, <1>7, <1>8 DEF Right, more

\* Every error is in a file that was compiled, with the text of the snapshot, and a target
\* that does not parse is the first.
LEMMA ErrorsFound ==
    ASSUME TypeOK, LibraryInSync, NEW i \in DOMAIN jobs, NEW f \in Path, NEW s,
           s = CompiledFiles(jobs[i].db, jobs[i].config, f)
    PROVE  /\ \A g \in ErrorFiles(s) : g \in Path /\ s[g] = jobs[i].db[g]
           /\ FirstErrorFiles(s, jobs[i].config, f) \subseteq ErrorFiles(s)
           /\ jobs[i].db[f] \in Broken =>
                 ErrorFiles(s) # {} /\ FirstErrorFiles(s, jobs[i].config, f) = {f}
<1>1. NoText \notin Broken
  BY ConstantsAssumption
<1>2. \A g \in Path : s[g] # NoText => s[g] = jobs[i].db[g]
  BY DEF CompiledFiles, LibraryInSync
<1>3. s[f] = jobs[i].db[f]
  BY DEF CompiledFiles
<1>4. \A g \in ErrorFiles(s) : g \in Path /\ s[g] # NoText
  BY <1>1 DEF ErrorFiles, Unparsed, Unresolved
<1>5. FirstErrorFiles(s, jobs[i].config, f) \subseteq ErrorFiles(s)
  BY DEF FirstErrorFiles, ErrorFiles
<1>6. ASSUME jobs[i].db[f] \in Broken
      PROVE  ErrorFiles(s) # {} /\ FirstErrorFiles(s, jobs[i].config, f) = {f}
  <2>1. f \in Unparsed(s)
    BY <1>3, <1>6 DEF Unparsed
  <2>2. QED
    BY <2>1 DEF FirstErrorFiles, ErrorFiles
<1>7. QED
  BY <1>2, <1>4, <1>5, <1>6

-----------------------------------------------------------------------------
(* The invariant is inductive *)

LEMMA FeedInit ==
    ASSUME LibraryKept, Init
    PROVE  Feed
<1>1. /\ inbox = <<>> /\ fs_events = <<>> /\ resp_events = <<>> /\ jobs = <<>> /\ opened = {}
      /\ latest.n = 0 /\ db = LoadFiles(config)
  BY DEF Init
<1>2. config \in Configs
  BY ConstantsAssumption DEF Init
<1>3. Waiting = {}
  BY <1>1 DEF Waiting
<1>4. \A f \in config.stdlib : db[f] = disk[f]
  BY <1>1, <1>2, LibraryFiles DEF LoadFiles
<1>5. QED
  BY <1>1, <1>3, <1>4 DEF Feed, LibraryInSync, OpenCovered, OnItsWay

LEMMA FeedClient ==
    ASSUME LibraryKept, TypeOK, Feed, Client
    PROVE  Feed'
<1>1. /\ ServerUnchanged /\ UNCHANGED shown
      /\ \A f \in Path \ Editable : disk'[f] = disk[f]
      /\ \/ UNCHANGED inbox
         \/ \E m : Send(m) /\ \A f \in Path : Concerns(m, f) => f \in Editable
  BY ClientStep
<1>2. UNCHANGED <<fs_events, resp_events, jobs, opened, db, config, latest, published>>
  BY <1>1 DEF ServerUnchanged, loopVars, history
<1>3. \A m \in Waiting' : \A f \in Path : Concerns(m, f) => f \in Editable
  <2>1. CASE UNCHANGED inbox
    BY <2>1 DEF Feed, LibraryInSync, Waiting
  <2>2. CASE \E m : Send(m) /\ \A f \in Path : Concerns(m, f) => f \in Editable
    <3>1. PICK m : Send(m) /\ \A f \in Path : Concerns(m, f) => f \in Editable
      BY <2>2
    <3>2. Waiting' = Waiting \cup {m}
      BY <3>1, SendWaiting
    <3>3. QED
      BY <3>1, <3>2 DEF Feed, LibraryInSync
  <2>3. QED
    BY <1>1, <2>1, <2>2
<1>4. config \in Configs /\ \A j \in DOMAIN jobs : jobs[j].config \in Configs
  <2>1. \A x \in Job : x.config \in Configs
    BY DEF Job
  <2>2. QED
    BY <2>1 DEF TypeOK
<1>5. LibraryInSync'
  <2>1. \A f \in config.stdlib : disk'[f] = disk[f]
    BY <1>1, <1>4, LibraryFiles
  <2>2. \A j \in DOMAIN jobs : \A f \in jobs[j].config.stdlib : disk'[f] = disk[f]
    BY <1>1, <1>4, LibraryFiles
  <2>3. QED
    BY <1>2, <1>3, <2>1, <2>2 DEF Feed, LibraryInSync
<1>6. OnItsWay'
  BY <1>1, <1>2, SameWay DEF Feed
<1>7. QED
  BY <1>2, <1>5, <1>6 DEF Feed, OpenCovered

LEMMA FeedTurn ==
    ASSUME LibraryKept, TypeOK, Feed, LspTurn
    PROVE  Feed'
<1>1. MessageTurn
  BY LspStep DEF Feed
<1>2. UNCHANGED <<disk, shown, resp_events, jobs, latest, published>>
  BY <1>1 DEF MessageTurn
<1>3. OnItsWay'
  BY <1>2, SameWay DEF Feed
<1>4. \A f \in config'.stdlib : db'[f] = disk'[f]
  <2>1. CASE UNCHANGED <<config, db>>
    BY <1>2, <2>1 DEF Feed, LibraryInSync
  <2>2. CASE config' \in Configs /\ db' = LoadFiles(config')
    BY <1>2, <2>2, LibraryFiles DEF LoadFiles
  <2>3. QED
    BY <1>1, <2>1, <2>2 DEF MessageTurn
<1>5. \A i \in DOMAIN fs_events' : fs_events'[i].path \in Editable
  BY <1>1 DEF MessageTurn, Feed, LibraryInSync
<1>6. LibraryInSync'
  BY <1>1, <1>2, <1>4, <1>5 DEF MessageTurn, Feed, LibraryInSync
<1>7. OpenCovered'
  BY <1>1, <1>2 DEF MessageTurn, Feed, OpenCovered
<1>8. QED
  BY <1>3, <1>6, <1>7 DEF Feed

\* A turn on a file event takes the new snapshot, of which nothing is checked yet.
LEMMA FeedEvent ==
    ASSUME LibraryKept, TypeOK, InOrder, Feed, FileSystemTurn
    PROVE  Feed'
<1> DEFINE e == Head(fs_events)
           n == latest.n + 1
           files == opened \cup ModuleFiles(db', config)
           job == [n |-> n, db |-> db', config |-> config, todo |-> files, diags |-> <<>>]
<1>1. /\ fs_events \in Seq(FileSystemEvent) /\ fs_events # <<>> /\ fs_events' = Tail(fs_events)
      /\ db' = ApplyChange(db, e) /\ db \in [Path -> File]
      /\ jobs' = Append(jobs, job)
      /\ latest' = [n |-> n, db |-> db', config |-> config, files |-> files]
      /\ UNCHANGED <<disk, shown, inbox, resp_events, opened, config, published>>
  BY DEF TypeOK, FileSystemTurn, Files, clientVars
<1>2. /\ job.n = n /\ job.db = db' /\ job.config = config /\ job.todo = files /\ job.diags = <<>>
      /\ latest'.n = n /\ latest'.db = db' /\ latest'.config = config /\ latest'.files = files
  BY <1>1
<1>3. /\ jobs \in Seq(Job) /\ resp_events \in Seq(Batch)
      /\ \A j \in DOMAIN jobs : jobs[j].n \in Nat
      /\ \A j \in DOMAIN resp_events : resp_events[j].n \in Nat
      /\ published \in Nat /\ latest.n \in Nat /\ n = latest.n + 1
  BY QueueNumbers
<1>o. opened \cup ModuleFiles(db', config) \subseteq files
  OBVIOUS
<1> HIDE DEF job, files, n
<1>4. /\ DOMAIN fs_events' = 1..(Len(fs_events) - 1) /\ DOMAIN fs_events = 1..Len(fs_events)
      /\ Len(fs_events) \in Nat /\ Len(fs_events) > 0
      /\ \A k \in 1..(Len(fs_events) - 1) : fs_events'[k] = fs_events[k + 1]
      /\ e = fs_events[1]
  BY <1>1, TailPositions
<1>5. e.path \in Editable /\ \A k \in DOMAIN fs_events' : fs_events'[k].path \in Editable
  <2>1. \A k \in DOMAIN fs_events' : k + 1 \in DOMAIN fs_events
    BY <1>4
  <2>2. QED
    BY <1>4, <2>1 DEF Feed, LibraryInSync
<1> HIDE DEF e
<1>6. \A k \in DOMAIN jobs' :
         \/ k \in DOMAIN jobs /\ jobs'[k] = jobs[k]
         \/ jobs'[k] = job
  <2>1. /\ DOMAIN jobs = 1..Len(jobs) /\ DOMAIN jobs' = 1..(Len(jobs) + 1) /\ Len(jobs) \in Nat
        /\ \A k \in 1..Len(jobs) : jobs'[k] = jobs[k]
        /\ jobs'[Len(jobs) + 1] = job
    BY <1>1, <1>3, AppendKeeps
  <2>2. QED
    BY <2>1
<1>7. \E k \in DOMAIN jobs' : jobs'[k] = job
  <2>1. DOMAIN jobs' = 1..(Len(jobs) + 1) /\ Len(jobs) \in Nat /\ jobs'[Len(jobs) + 1] = job
    BY <1>1, <1>3, AppendKeeps
  <2>2. QED
    BY <2>1
<1>8. LibraryInSync'
  <2>1. \A f \in config.stdlib : db'[f] = disk[f]
    <3>1. config \in Configs /\ config.stdlib \subseteq Path \ Editable
      BY LibraryFiles DEF TypeOK
    <3>2. \A f \in config.stdlib : db'[f] = db[f]
      BY <1>1, <1>5, <3>1 DEF ApplyChange
    <3>3. QED
      BY <3>2 DEF Feed, LibraryInSync
  <2>2. \A k \in DOMAIN jobs' : \A f \in jobs'[k].config.stdlib : jobs'[k].db[f] = disk[f]
    BY <1>2, <1>6, <2>1 DEF Feed, LibraryInSync
  <2>3. Waiting' = Waiting
    BY <1>1 DEF Waiting
  <2>4. QED
    BY <1>1, <1>5, <2>1, <2>2, <2>3 DEF Feed, LibraryInSync
<1>9. OpenCovered'
  BY <1>1, <1>2, <1>o DEF OpenCovered
<1>10. /\ \A k \in DOMAIN jobs : jobs[k].n # n
       /\ \A k \in DOMAIN resp_events : resp_events[k].n # n
       /\ published # n
  BY <1>3 DEF InOrder
<1>11. Right(<<>>, {})'
  BY DEF Right
<1>12. files \ files = {}
  OBVIOUS
<1>13. OnItsWay'
  <2>1. ModuleFiles(latest.db, latest.config)' \subseteq latest'.files
    BY <1>2, <1>o DEF ModuleFiles
  <2>2. ASSUME NEW k \in DOMAIN jobs', jobs'[k].n = latest'.n
        PROVE  /\ jobs'[k].db = latest'.db /\ jobs'[k].config = latest'.config
               /\ jobs'[k].todo \subseteq latest'.files
               /\ Right(jobs[k].diags, latest.files \ jobs[k].todo)'
    <3>1. jobs'[k] = job
      BY <1>2, <1>6, <1>10, <2>2
    <3>2. latest'.files \ jobs'[k].todo = {} /\ jobs'[k].diags = <<>>
      BY <1>2, <1>12, <3>1
    <3>3. Right(jobs[k].diags, latest.files \ jobs[k].todo)'
      BY <3>2 DEF Right
    <3>4. QED
      BY <1>2, <3>1, <3>3
  <2>3. QED
    BY <1>1, <1>2, <1>7, <1>10, <2>1, <2>2 DEF OnItsWay
<1>14. QED
  BY <1>8, <1>9, <1>13 DEF Feed

\* The editor shows the last diagnostic of a file.
LEMMA PublishRight ==
    ASSUME LibraryKept, TypeOK, NEW diags \in Seq(FileDiagnostic), NEW f \in Path,
           f \in latest.files, Right(diags, latest.files), shown' = Publish(diags),
           UNCHANGED <<latest, disk>>
    PROVE  ShownRight(f)'
<1> DEFINE i == CHOOSE k \in LastOf(diags, f) : TRUE
<1>1. Told(diags, f)
  BY DEF Right
<1>2. i \in LastOf(diags, f) /\ LastOf(diags, f) # {}
  BY <1>1 DEF Told
<1>3. shown'[f] = diags[i].diagnostic
  BY <1>2 DEF Publish
<1> HIDE DEF i
<1>4. i \in DOMAIN diags /\ diags[i].fpath = f
  BY <1>2 DEF LastOf
<1>5. Sound(diags[i])
  BY <1>4 DEF Right
<1>6. Faulty(f)' <=> Faulty(f)
  BY SameVerdicts
<1>7. shown'[f] # NoText => shown'[f] = latest.db[f] /\ Faulty(f)
  BY <1>3, <1>4, <1>5 DEF Sound
<1>8. latest.db[f] \in Broken => shown'[f] = latest.db[f]
  BY <1>1, <1>2, <1>3 DEF Told
<1>9. QED
  BY <1>6, <1>7, <1>8 DEF ShownRight

\* A turn on a batch publishes it: the last one, with the diagnostics of the last snapshot,
\* or one after which another follows.
LEMMA FeedPublish ==
    ASSUME LibraryKept, TypeOK, InOrder, Feed, ResponseTurn
    PROVE  Feed'
<1> DEFINE b == Head(resp_events)
<1>1. /\ resp_events \in Seq(Batch) /\ resp_events # <<>> /\ resp_events' = Tail(resp_events)
      /\ shown' = Publish(b.diags) /\ published' = b.n
      /\ UNCHANGED <<disk, inbox, fs_events, jobs, opened, db, config, latest>>
  BY DEF TypeOK, ResponseTurn, loopVars
<1>2. /\ \A j \in DOMAIN jobs : jobs[j].n \in Nat
      /\ \A j \in DOMAIN resp_events : resp_events[j].n \in Nat
      /\ published \in Nat /\ latest.n \in Nat
  BY QueueNumbers
<1>3. /\ DOMAIN resp_events' = 1..(Len(resp_events) - 1) /\ DOMAIN resp_events = 1..Len(resp_events)
      /\ Len(resp_events) \in Nat /\ Len(resp_events) > 0
      /\ \A k \in 1..(Len(resp_events) - 1) : resp_events'[k] = resp_events[k + 1]
      /\ b = resp_events[1]
  BY <1>1, TailPositions
<1>4. b \in Batch /\ b.n \in Nat /\ b.diags \in Seq(FileDiagnostic)
  <2>1. b \in Batch
    BY <1>1, HeadTailProperties
  <2>2. \A x \in Batch : x.n \in Nat /\ x.diags \in Seq(FileDiagnostic)
    BY DEF Batch
  <2>3. QED
    BY <2>1, <2>2
<1> HIDE DEF b
<1>5. 1 \in DOMAIN resp_events
  BY <1>3
<1>6. \A k \in DOMAIN resp_events' : k + 1 \in DOMAIN resp_events /\ resp_events'[k] = resp_events[k + 1]
  BY <1>3
<1>7. /\ \A f : Faulty(f)' <=> Faulty(f)
      /\ \A diags, done : Right(diags, done)' <=> Right(diags, done)
  BY <1>1, SameVerdicts
<1>8. LibraryInSync' /\ OpenCovered'
  BY <1>1 DEF Feed, LibraryInSync, OpenCovered, Waiting
<1>9. ModuleFiles(latest.db, latest.config)' = ModuleFiles(latest.db, latest.config)
  BY <1>1 DEF ModuleFiles
<1>10. latest.n > 0 =>
         \/ published' = latest.n
         \/ \E k \in DOMAIN resp_events' : resp_events'[k].n = latest.n
         \/ \E j \in DOMAIN jobs : jobs[j].n = latest.n
  <2> SUFFICES ASSUME latest.n > 0, published' # latest.n, ~\E j \in DOMAIN jobs : jobs[j].n = latest.n
               PROVE  \E k \in DOMAIN resp_events' : resp_events'[k].n = latest.n
    OBVIOUS
  <2>1. published # latest.n
    BY <1>2, <1>5 DEF InOrder
  <2>2. PICK k \in DOMAIN resp_events : resp_events[k].n = latest.n
    BY <2>1 DEF Feed, OnItsWay
  <2>3. k # 1
    BY <1>1, <1>3, <2>2
  <2>4. k - 1 \in DOMAIN resp_events' /\ resp_events'[k - 1] = resp_events[k]
    BY <1>3, <2>3
  <2>5. QED
    BY <2>2, <2>4
<1>11. \A k \in DOMAIN resp_events' : resp_events'[k].n = latest.n => Right(resp_events'[k].diags, latest.files)
  BY <1>6 DEF Feed, OnItsWay
<1>12. ASSUME published' = latest.n, NEW f \in latest.files
       PROVE  ShownRight(f)'
  <2>1. Right(b.diags, latest.files)
    BY <1>1, <1>3, <1>5, <1>12 DEF Feed, OnItsWay
  <2>2. f \in Path
    BY DEF TypeOK, Snapshot
  <2>3. QED
    BY <1>1, <1>4, <1>12, <2>1, <2>2, PublishRight
<1>13. OnItsWay'
  BY <1>1, <1>7, <1>9, <1>10, <1>11, <1>12 DEF Feed, OnItsWay
<1>14. QED
  BY <1>8, <1>13 DEF Feed

\* Checking a file adds diagnostics to its job and leaves the other jobs alone.
LEMMA CheckedJob ==
    ASSUME TypeOK, NEW i \in DOMAIN jobs, NEW f, NEW ds \in Seq(FileDiagnostic), Checked(i, f, ds)
    PROVE  /\ DOMAIN jobs' = DOMAIN jobs
           /\ \A j \in DOMAIN jobs : j # i => jobs'[j] = jobs[j]
           /\ jobs'[i].n = jobs[i].n /\ jobs'[i].db = jobs[i].db /\ jobs'[i].config = jobs[i].config
           /\ jobs'[i].todo = jobs[i].todo \ {f} /\ jobs'[i].diags = jobs[i].diags \o ds
<1>1. jobs \in Seq(Job) /\ jobs[i] \in Job /\ i \in 1..Len(jobs)
  BY DEF TypeOK
<1> DEFINE job == [jobs[i] EXCEPT !.todo = @ \ {f}, !.diags = @ \o ds]
<1>2. /\ job.n = jobs[i].n /\ job.db = jobs[i].db /\ job.config = jobs[i].config
      /\ job.todo = jobs[i].todo \ {f} /\ job.diags = jobs[i].diags \o ds
  BY <1>1 DEF Job
<1>3. jobs' = [jobs EXCEPT ![i] = job]
  BY DEF Checked
<1> HIDE DEF job
<1>4. DOMAIN jobs' = DOMAIN jobs /\ \A j \in DOMAIN jobs : jobs'[j] = IF j = i THEN job ELSE jobs[j]
  BY <1>1, <1>3
<1>5. QED
  BY <1>2, <1>4

\* A file that is checked leaves the job right if its diagnostics are.
LEMMA FeedChecked ==
    ASSUME LibraryKept, TypeOK, Feed, NEW i \in DOMAIN jobs, NEW f, NEW ds \in Seq(FileDiagnostic),
           Checked(i, f, ds),
           jobs[i].n = latest.n => Right(jobs[i].diags \o ds, latest.files \ (jobs[i].todo \ {f}))
    PROVE  Feed'
<1>1. /\ DOMAIN jobs' = DOMAIN jobs
      /\ \A j \in DOMAIN jobs : j # i => jobs'[j] = jobs[j]
      /\ jobs'[i].n = jobs[i].n /\ jobs'[i].db = jobs[i].db /\ jobs'[i].config = jobs[i].config
      /\ jobs'[i].todo = jobs[i].todo \ {f} /\ jobs'[i].diags = jobs[i].diags \o ds
  BY CheckedJob
<1>2. UNCHANGED <<disk, shown, inbox, fs_events, resp_events, opened, db, config, latest, published>>
  BY DEF Checked, WorkerUnchanged, clientVars, loopVars, history
<1>3. /\ \A g : Faulty(g)' <=> Faulty(g)
      /\ \A diags, done : Right(diags, done)' <=> Right(diags, done)
  BY <1>2, SameVerdicts
<1>4. \A g : ShownRight(g)' <=> ShownRight(g)
  BY <1>2, <1>3 DEF ShownRight
<1>5. OpenCovered'
  BY <1>2 DEF Feed, OpenCovered
<1>6. LibraryInSync'
  <2>1. \A j \in DOMAIN jobs : jobs'[j].db = jobs[j].db /\ jobs'[j].config = jobs[j].config
    BY <1>1
  <2>2. QED
    BY <1>1, <1>2, <2>1 DEF Feed, LibraryInSync, Waiting
<1>7. \A j \in DOMAIN jobs : jobs'[j].n = jobs[j].n
  BY <1>1
<1>8. ModuleFiles(latest.db, latest.config)' = ModuleFiles(latest.db, latest.config)
  BY <1>2 DEF ModuleFiles
<1>9. \A j \in DOMAIN jobs : jobs'[j].n = latest.n =>
         /\ jobs'[j].db = latest.db /\ jobs'[j].config = latest.config
         /\ jobs'[j].todo \subseteq latest.files
         /\ Right(jobs'[j].diags, latest.files \ jobs'[j].todo)
  BY <1>1 DEF Feed, OnItsWay
<1>10. OnItsWay'
  BY <1>1, <1>2, <1>3, <1>4, <1>7, <1>8, <1>9 DEF Feed, OnItsWay
<1>11. QED
  BY <1>5, <1>6, <1>10 DEF Feed

\* A job whose files are all checked becomes a batch.
LEMMA FeedSent ==
    ASSUME LibraryKept, TypeOK, InOrder, Feed, NEW i \in Running, SendBatch(i)
    PROVE  Feed'
<1> DEFINE b == [n |-> jobs[i].n, diags |-> jobs[i].diags]
<1>1. /\ i = 1 /\ jobs # <<>> /\ jobs' = Tail(jobs) /\ jobs[1].todo = {}
      /\ resp_events' = Append(resp_events, b)
  <2>1. jobs \in Seq(Job)
    BY DEF TypeOK
  <2>2. FinishJob(i) /\ jobs[i].todo = {} /\ resp_events' = Append(resp_events, b)
    BY DEF SendBatch
  <2>3. QED
    BY <2>1, <2>2, FinishIsTail
<1>2. b.n = jobs[1].n /\ b.diags = jobs[1].diags
  BY <1>1
<1> HIDE DEF b
<1>3. UNCHANGED <<disk, shown, inbox, fs_events, opened, db, config, latest, published>>
  BY DEF SendBatch, WorkerUnchanged, clientVars, loopVars, history
<1>4. jobs \in Seq(Job) /\ resp_events \in Seq(Batch)
  BY QueueNumbers
<1>5. /\ DOMAIN jobs' = 1..(Len(jobs) - 1) /\ DOMAIN jobs = 1..Len(jobs)
      /\ Len(jobs) \in Nat /\ Len(jobs) > 0
      /\ \A k \in 1..(Len(jobs) - 1) : jobs'[k] = jobs[k + 1]
  BY <1>1, <1>4, TailPositions
<1>6. \A k \in DOMAIN jobs' : k + 1 \in DOMAIN jobs /\ jobs'[k] = jobs[k + 1]
  BY <1>5
<1>7. \A k \in DOMAIN jobs : k = 1 \/ (k - 1 \in DOMAIN jobs' /\ jobs'[k - 1] = jobs[k])
  <2> SUFFICES ASSUME NEW k \in DOMAIN jobs, k # 1
               PROVE  k - 1 \in DOMAIN jobs' /\ jobs'[k - 1] = jobs[k]
    OBVIOUS
  <2>1. k - 1 \in 1..(Len(jobs) - 1) /\ (k - 1) + 1 = k
    BY <1>5
  <2>2. QED
    BY <1>5, <2>1
<1>8. /\ DOMAIN resp_events = 1..Len(resp_events) /\ Len(resp_events) \in Nat
      /\ DOMAIN resp_events' = 1..(Len(resp_events) + 1)
      /\ \A k \in 1..Len(resp_events) : resp_events'[k] = resp_events[k]
      /\ resp_events'[Len(resp_events) + 1] = b
  BY <1>1, <1>4, AppendKeeps
<1>9. \A k \in DOMAIN resp_events' :
         \/ k \in DOMAIN resp_events /\ resp_events'[k] = resp_events[k]
         \/ resp_events'[k] = b
  BY <1>8
<1>10. /\ \A k \in DOMAIN resp_events : k \in DOMAIN resp_events' /\ resp_events'[k] = resp_events[k]
       /\ Len(resp_events) + 1 \in DOMAIN resp_events' /\ 1 \in DOMAIN jobs
  BY <1>5, <1>8
<1>11. /\ \A g : Faulty(g)' <=> Faulty(g)
       /\ \A diags, done : Right(diags, done)' <=> Right(diags, done)
  BY <1>3, SameVerdicts
<1>12. \A g : ShownRight(g)' <=> ShownRight(g)
  BY <1>3, <1>11 DEF ShownRight
<1>13. LibraryInSync'
  BY <1>3, <1>6 DEF Feed, LibraryInSync, Waiting
<1>14. OpenCovered'
  BY <1>3 DEF Feed, OpenCovered
<1>15. ModuleFiles(latest.db, latest.config)' = ModuleFiles(latest.db, latest.config)
  BY <1>3 DEF ModuleFiles
<1>16. latest.n > 0 =>
         \/ published = latest.n
         \/ \E k \in DOMAIN resp_events' : resp_events'[k].n = latest.n
         \/ \E j \in DOMAIN jobs' : jobs'[j].n = latest.n
  <2> SUFFICES ASSUME latest.n > 0, published # latest.n, ~\E j \in DOMAIN jobs' : jobs'[j].n = latest.n
               PROVE  \E k \in DOMAIN resp_events' : resp_events'[k].n = latest.n
    OBVIOUS
  <2>1. CASE \E k \in DOMAIN resp_events : resp_events[k].n = latest.n
    BY <1>10, <2>1
  <2>2. CASE \E j \in DOMAIN jobs : jobs[j].n = latest.n
    <3>1. jobs[1].n = latest.n
      BY <1>7, <2>2
    <3>2. QED
      BY <1>2, <1>8, <1>10, <3>1
  <2>3. QED
    BY <2>1, <2>2 DEF Feed, OnItsWay
<1>17. \A k \in DOMAIN resp_events' : resp_events'[k].n = latest.n => Right(resp_events'[k].diags, latest.files)
  <2>1. b.n = latest.n => Right(b.diags, latest.files)
    <3>1. latest.files \ jobs[1].todo = latest.files
      BY <1>1
    <3>2. QED
      BY <1>2, <1>10, <3>1 DEF Feed, OnItsWay
  <2>2. QED
    BY <1>9, <2>1 DEF Feed, OnItsWay
<1>18. \A j \in DOMAIN jobs' : jobs'[j].n = latest.n =>
         /\ jobs'[j].db = latest.db /\ jobs'[j].config = latest.config
         /\ jobs'[j].todo \subseteq latest.files
         /\ Right(jobs'[j].diags, latest.files \ jobs'[j].todo)
  BY <1>6 DEF Feed, OnItsWay
<1>19. OnItsWay'
  BY <1>3, <1>11, <1>12, <1>15, <1>16, <1>17, <1>18 DEF Feed, OnItsWay
<1>20. QED
  BY <1>13, <1>14, <1>19 DEF Feed

\* A step of the worker keeps the diagnostics of the last snapshot right: a file is cleared
\* before its first error is put down, and no job panics.
LEMMA FeedWorker ==
    ASSUME LibraryKept, TypeOK, InOrder, Feed, Worker
    PROVE  Feed'
<1>1. PICK i \in Running :
        \/ \E f \in jobs[i].todo : CheckUntracked(i, f) \/ CheckTracked(i, f) \/ CheckPanics(i, f)
        \/ SendBatch(i)
  BY DEF Worker
<1>2. i \in DOMAIN jobs /\ jobs[i] \in Job
  BY DEF Running, TypeOK
<1>3. /\ jobs[i].diags \in Seq(FileDiagnostic) /\ jobs[i].todo \subseteq Path
      /\ \A f \in Path : Clear(f) \in FileDiagnostic /\ Fault(jobs[i], f) \in FileDiagnostic
  BY <1>2 DEF Clear, Fault, FileDiagnostic, Job, Files, File
<1>4. /\ \A f : Clear(f).fpath = f /\ Clear(f).diagnostic = NoText
      /\ \A f : Fault(jobs[i], f).fpath = f /\ Fault(jobs[i], f).diagnostic = jobs[i].db[f]
  BY DEF Clear, Fault
<1>5. LibraryInSync
  BY DEF Feed
<1>6. ASSUME NEW f \in jobs[i].todo, jobs[i].n = latest.n
      PROVE  /\ Right(Append(jobs[i].diags, Clear(f)), latest.files \ jobs[i].todo)
             /\ latest.db[f] \notin Broken =>
                   Right(Append(jobs[i].diags, Clear(f)), (latest.files \ jobs[i].todo) \cup {f})
             /\ jobs[i].db = latest.db /\ jobs[i].config = latest.config
             /\ f \in latest.files
             /\ latest.files \ (jobs[i].todo \ {f}) = (latest.files \ jobs[i].todo) \cup {f}
  <2>1. /\ jobs[i].db = latest.db /\ jobs[i].config = latest.config
        /\ jobs[i].todo \subseteq latest.files
        /\ Right(jobs[i].diags, latest.files \ jobs[i].todo)
    BY <1>2, <1>6 DEF Feed, OnItsWay
  <2>2. Sound(Clear(f))
    BY <1>4 DEF Sound
  <2>3. /\ Right(Append(jobs[i].diags, Clear(f)), latest.files \ jobs[i].todo)
        /\ latest.db[f] \notin Broken =>
              Right(Append(jobs[i].diags, Clear(f)), (latest.files \ jobs[i].todo) \cup {f})
    <3>1. Clear(f) \in FileDiagnostic /\ Clear(f).fpath = f /\ f \notin latest.files \ jobs[i].todo
      BY <1>3, <1>4
    <3>2. QED
      BY <1>3, <2>1, <2>2, <3>1, AppendRight
  <2>4. QED
    BY <2>1, <2>3
<1>7. ASSUME NEW f \in jobs[i].todo, jobs[i].db[f] \notin Broken, Checked(i, f, <<Clear(f)>>)
      PROVE  Feed'
  <2>1. <<Clear(f)>> \in Seq(FileDiagnostic) /\ jobs[i].diags \o <<Clear(f)>> = Append(jobs[i].diags, Clear(f))
    BY <1>3
  <2>2. QED
    BY <1>2, <1>6, <1>7, <2>1, FeedChecked
<1>8. ASSUME NEW f \in jobs[i].todo, CheckUntracked(i, f)
      PROVE  Feed'
  <2>1. NoText \notin Broken
    BY ConstantsAssumption
  <2>2. QED
    BY <1>7, <1>8, <2>1 DEF CheckUntracked
<1>9. ASSUME NEW f \in jobs[i].todo, NEW s, s = CompiledFiles(jobs[i].db, jobs[i].config, f),
             NEW g \in FirstErrorFiles(s, jobs[i].config, f), Checked(i, f, <<Clear(f), Fault(jobs[i], g)>>)
      PROVE  Feed'
  <2> DEFINE cleared == Append(jobs[i].diags, Clear(f))
             d == Fault(jobs[i], g)
  <2>1. /\ g \in Path /\ g \in ErrorFiles(s)
        /\ jobs[i].db[f] \in Broken => g = f
    <3>1. f \in Path
      BY <1>3
    <3>2. /\ \A h \in ErrorFiles(s) : h \in Path
          /\ FirstErrorFiles(s, jobs[i].config, f) \subseteq ErrorFiles(s)
          /\ jobs[i].db[f] \in Broken => FirstErrorFiles(s, jobs[i].config, f) = {f}
      BY <1>2, <1>5, <1>9, <3>1, ErrorsFound
    <3>3. QED
      BY <3>2
  <2>2. /\ <<Clear(f), d>> \in Seq(FileDiagnostic) /\ d \in FileDiagnostic
        /\ cleared \in Seq(FileDiagnostic)
        /\ jobs[i].diags \o <<Clear(f), d>> = Append(cleared, d)
    <3>1. jobs[i].diags \in Seq(FileDiagnostic) /\ Clear(f) \in FileDiagnostic /\ d \in FileDiagnostic
      BY <1>3, <2>1
    <3>2. \A ds \in Seq(FileDiagnostic), a, b \in FileDiagnostic :
             /\ <<a, b>> \in Seq(FileDiagnostic) /\ Append(ds, a) \in Seq(FileDiagnostic)
             /\ ds \o <<a, b>> = Append(Append(ds, a), b)
      BY ConcatTwo
    <3>3. QED
      BY <3>1, <3>2, Zenon
  <2>3. ASSUME jobs[i].n = latest.n
        PROVE  Right(Append(cleared, d), (latest.files \ jobs[i].todo) \cup {f})
    <3>1. d.fpath = g /\ d.diagnostic = latest.db[g]
      BY <1>4, <1>6, <2>3
    <3>2. Sound(d)
      <4>1. f \in latest.files /\ g \in ErrorFiles(CompiledFiles(latest.db, latest.config, f))
        BY <1>6, <1>9, <2>1, <2>3
      <4>2. QED
        BY <3>1, <4>1 DEF Sound, Faulty
    <3>3. CASE latest.db[f] \notin Broken
      <4>1. Right(cleared, (latest.files \ jobs[i].todo) \cup {f})
        BY <1>6, <2>3, <3>3
      <4> HIDE DEF cleared, d
      <4>2. QED
        BY <2>2, <3>1, <3>2, <4>1, AppendRight
    <3>4. CASE latest.db[f] \in Broken
      <4>1. g = f /\ Right(cleared, latest.files \ jobs[i].todo)
        BY <1>6, <2>1, <2>3, <3>4
      <4> HIDE DEF cleared, d
      <4>2. QED
        BY <2>2, <3>1, <3>2, <4>1, AppendRight
    <3>5. QED
      BY <3>3, <3>4
  <2>4. jobs[i].n = latest.n =>
           Right(jobs[i].diags \o <<Clear(f), d>>, latest.files \ (jobs[i].todo \ {f}))
    BY <1>6, <2>2, <2>3
  <2> HIDE DEF cleared
  <2>5. QED
    BY <1>2, <1>9, <2>2, <2>4, FeedChecked
<1>10. ASSUME NEW f \in jobs[i].todo, CheckTracked(i, f)
       PROVE  Feed'
  <2> DEFINE s == CompiledFiles(jobs[i].db, jobs[i].config, f)
  <2>1. \/ ErrorFiles(s) = {} /\ Checked(i, f, <<Clear(f)>>)
        \/ \E g \in FirstErrorFiles(s, jobs[i].config, f) : Checked(i, f, <<Clear(f), Fault(jobs[i], g)>>)
    BY <1>10, Zenon DEF CheckTracked
  <2>2. ErrorFiles(s) = {} => jobs[i].db[f] \notin Broken
    BY <1>2, <1>3, <1>5, ErrorsFound
  <2> HIDE DEF s
  <2>3. QED
    BY <1>7, <1>9, <2>1, <2>2 DEF s
<1>11. ASSUME NEW f \in jobs[i].todo, CheckPanics(i, f)
       PROVE  FALSE
  <2> DEFINE s == CompiledFiles(jobs[i].db, jobs[i].config, f)
  <2>1. \E g \in ErrorFiles(s) : jobs[i].db[g] # s[g]
    BY <1>11, Zenon DEF CheckPanics, Panics
  <2>2. \A g \in ErrorFiles(s) : s[g] = jobs[i].db[g]
    BY <1>2, <1>3, <1>5, ErrorsFound
  <2>3. QED
    BY <2>1, <2>2
<1>12. SendBatch(i) => Feed'
  BY FeedSent
<1>13. QED
  BY <1>1, <1>8, <1>10, <1>11, <1>12

\* Once the loop and the worker are idle, the editor shows exactly what the database calls
\* for, for every number of files, edits, deletions, faults and settings changes, as long as
\* the user leaves the files of the standard library alone.
THEOREM ShownTheorem == LibraryKept /\ Spec => []ShownIsCurrent
<1> SUFFICES ASSUME LibraryKept PROVE Spec => []ShownIsCurrent
  OBVIOUS
<1>1. Init => Feed
  BY FeedInit
<1>2. TypeOK /\ InOrder /\ Feed /\ [Next]_vars => Feed'
  <2> SUFFICES ASSUME TypeOK, InOrder, Feed, [Next]_vars PROVE Feed'
    OBVIOUS
  <2>1. CASE Client
    BY <2>1, FeedClient
  <2>2. CASE LspTurn
    BY <2>2, FeedTurn
  <2>3. CASE FileSystemTurn
    BY <2>3, FeedEvent
  <2>4. CASE ResponseTurn
    BY <2>4, FeedPublish
  <2>5. CASE Worker
    BY <2>5, FeedWorker
  <2>6. CASE UNCHANGED vars
    <3>1. /\ UNCHANGED <<disk, shown, resp_events, jobs, latest, published>>
          /\ UNCHANGED <<inbox, fs_events, opened, db, config>>
      BY <2>6 DEF vars, clientVars, loopVars, history
    <3>2. OnItsWay'
      BY <3>1, SameWay DEF Feed
    <3>3. QED
      BY <3>1, <3>2 DEF Feed, LibraryInSync, OpenCovered, Waiting
  <2>7. QED
    BY <2>1, <2>2, <2>3, <2>4, <2>5, <2>6 DEF Next
<1>3. TypeOK /\ Feed => ShownIsCurrent
  <2> SUFFICES ASSUME TypeOK, Feed, Idle, Analysed, NEW f \in opened \cup ModuleFiles(db, config)
               PROVE  /\ shown[f] # NoText =>
                           /\ shown[f] = db[f]
                           /\ \E g \in latest.files : f \in ErrorFiles(CompiledFiles(db, config, g))
                      /\ db[f] \in Broken => shown[f] = db[f]
    BY DEF ShownIsCurrent
  <2>1. fs_events = <<>> /\ jobs = <<>> /\ resp_events = <<>>
    BY DEF Idle
  <2>2. latest.n > 0 /\ latest.db = db /\ latest.config = config
    BY DEF Analysed
  <2>3. published = latest.n /\ ModuleFiles(db, config) \subseteq latest.files
    BY <2>1, <2>2 DEF Feed, OnItsWay
  <2>4. opened \subseteq latest.files
    BY <2>1 DEF Feed, OpenCovered
  <2>5. ShownRight(f)
    BY <2>2, <2>3, <2>4 DEF Feed, OnItsWay
  <2>6. QED
    BY <2>2, <2>5 DEF ShownRight, Faulty
<1>4. QED
  BY <1>1, <1>2, <1>3, TypeCorrect, OrderTheorem, PTL DEF Spec

=============================================================================
