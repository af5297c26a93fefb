----------------------------- MODULE LspSession -----------------------------
(***************************************************************************)
(* xray lsp: one thread that reads frames from the editor, lints, and      *)
(* writes its answers back, while documents are opened, saved, closed and  *)
(* written by other programs.                                              *)
(***************************************************************************)
EXTENDS Integers, Sequences, FiniteSets

CONSTANTS
  Doc,        \* documents, by URI
  FileDoc,    \* those whose URI is file://
  Content,
  Finding,
  Findings,   \* what lint_text makes of a content, and nothing if it does not parse
  Ignored,    \* <<d, "uri">>, <<d, "path">>: per_file_ignores match this spelling of d
  MaxFrames,  \* how many frames the editor sends
  PipeSize,   \* how many frames a pipe holds
  None

ASSUME LspAssumption ==
  /\ FileDoc \subseteq Doc
  /\ Findings \in [Content -> SUBSET Finding]
  /\ MaxFrames \in Nat /\ PipeSize \in Nat \ {0}
  /\ None \notin Doc /\ None \notin Content

Id == 1 .. MaxFrames

Request == {"initialize", "unknown", "shutdown"}

\* "skipped" is a notification that the server does not serve or a body that is not
\* JSON, "unframed" what read_message gives up on.
Kind == {"didOpen", "didSave", "didClose", "exit", "skipped", "unframed"} \cup Request

Frame ==
  {f \in [kind : Kind, doc : Doc \cup {None}, text : Content \cup {None}, id : Id \cup {None}] :
     /\ f.kind = "didOpen" => f.text # None
     /\ f.doc # None <=> f.kind \in {"didOpen", "didSave", "didClose"}
     /\ f.id # None <=> f.kind \in Request}

\* publishDiagnostics for doc, or the response to id.
Message ==
  {m \in [doc : Doc \cup {None}, findings : SUBSET Finding, id : Id \cup {None}] :
     m.doc = None <=> m.id # None}

ASSUME NoneAssumption == None \notin Id /\ None \notin Message

VARIABLES
  disk,      \* the content of each file
  inbox,     \* the server's stdin
  reply,     \* what the server is writing
  outbox,    \* its stdout
  server,    \* "up", "ended"
  shutdown_requested,
  editor,    \* "up", "exiting", "gone"
  open,      \* the documents open in the editor
  shown,     \* the diagnostics it shows of each
  asked,     \* the requests it has sent
  answered,  \* the ids of those it has a response to
  sent,      \* how many frames it has sent
  told,      \* what it last told the server of each document: the text sent, or
             \* what the file has held since it was saved
  saved      \* the documents that it told of by saving

\* What the server never changes.
world == <<disk, editor, open, shown, asked, answered, sent, told, saved>>
vars == <<inbox, reply, outbox, server, shutdown_requested, world>>

TypeOK ==
  /\ disk \in [FileDoc -> Content \cup {None}]
  /\ inbox \in Seq(Frame)
  /\ reply \in Message \cup {None}
  /\ outbox \in Seq(Message)
  /\ server \in {"up", "ended"}
  /\ shutdown_requested \in BOOLEAN
  /\ editor \in {"up", "exiting", "gone"}
  /\ open \subseteq Doc
  /\ shown \in [Doc -> SUBSET Finding]
  /\ asked \subseteq Frame
  /\ answered \subseteq Id
  /\ sent \in 0 .. MaxFrames
  /\ told \in [Doc -> SUBSET (Content \cup {None})]
  /\ saved \subseteq Doc

-----------------------------------------------------------------------------
(* The server.                                                             *)

lint_text(d, text) == IF <<d, "uri">> \in Ignored THEN {} ELSE Findings[text]

\* The file as it is when the frame is handled; none if it cannot be read.
lint_path(d, text) == IF text = None \/ <<d, "path">> \in Ignored THEN {} ELSE Findings[text]

Publish(d, findings) == [doc |-> d, findings |-> findings, id |-> None]
Respond(id) == [doc |-> None, findings |-> {}, id |-> id]

\* Mutant: nothing is published for a closed document.
PublishIfOpen(f) ==
  CASE f.kind = "didOpen" -> Publish(f.doc, lint_text(f.doc, f.text))
    [] f.kind = "didSave" /\ f.doc \in FileDoc -> Publish(f.doc, lint_path(f.doc, disk[f.doc]))
    [] OTHER -> None

AnswerDocument(f) ==
  CASE f.kind = "didOpen" -> Publish(f.doc, lint_text(f.doc, f.text))
    [] f.kind = "didSave" /\ f.doc \in FileDoc -> Publish(f.doc, lint_path(f.doc, disk[f.doc]))
    [] f.kind = "didClose" -> Publish(f.doc, {})
    [] OTHER -> None

\* Mutant: after shutdown no request is answered.
AnswerUntilShutdown(f) ==
  IF f.kind \in Request /\ ~shutdown_requested THEN Respond(f.id) ELSE None

AnswerRequest(f) ==
  IF f.kind \in {"initialize", "shutdown"} \/ (f.kind = "unknown" /\ ~shutdown_requested)
  THEN Respond(f.id) ELSE None

Answer(f) == IF f.doc # None THEN AnswerDocument(f) ELSE AnswerRequest(f)

\* Mutant: exit ends the server only after shutdown.
HandleExitAfterShutdown ==
  /\ server = "up" /\ reply = None /\ inbox # <<>>
  /\ inbox' = Tail(inbox)
  /\ reply' = Answer(Head(inbox))
  /\ shutdown_requested' = (shutdown_requested \/ Head(inbox).kind = "shutdown")
  /\ server' = IF \/ Head(inbox).kind = "exit" /\ shutdown_requested
                  \/ Head(inbox).kind = "unframed"
               THEN "ended" ELSE "up"
  /\ UNCHANGED <<outbox, world>>

Handle ==
  /\ server = "up" /\ reply = None /\ inbox # <<>>
  /\ inbox' = Tail(inbox)
  /\ reply' = Answer(Head(inbox))
  /\ shutdown_requested' = (shutdown_requested \/ Head(inbox).kind = "shutdown")
  /\ server' = IF Head(inbox).kind \in {"exit", "unframed"} THEN "ended" ELSE "up"
  /\ UNCHANGED <<outbox, world>>

\* Mutant: a message that is not flushed leaves with the next one.
WriteUnflushed ==
  /\ reply # None
  /\ \/ editor = "gone" /\ outbox' = outbox
     \/ inbox # <<>> /\ Len(outbox) < PipeSize /\ outbox' = Append(outbox, reply)
  /\ reply' = None
  /\ UNCHANGED <<inbox, server, shutdown_requested, world>>

\* write_message flushes, waits for room in the pipe, and ignores a closed one.
Write ==
  /\ reply # None
  /\ \/ editor = "gone" /\ outbox' = outbox
     \/ editor # "gone" /\ Len(outbox) < PipeSize /\ outbox' = Append(outbox, reply)
  /\ reply' = None
  /\ UNCHANGED <<inbox, server, shutdown_requested, world>>

\* read_message returns None.
EndOfInput ==
  /\ server = "up" /\ reply = None /\ inbox = <<>> /\ editor = "gone"
  /\ server' = "ended"
  /\ UNCHANGED <<inbox, reply, outbox, shutdown_requested, world>>

Server == Handle \/ Write \/ EndOfInput

-----------------------------------------------------------------------------
(* The editor and other programs.                                          *)

NewFrame(kind, d, text) ==
  [kind |-> kind, doc |-> d, text |-> text, id |-> IF kind \in Request THEN sent + 1 ELSE None]

Send(f) ==
  /\ editor = "up" /\ sent < MaxFrames /\ Len(inbox) < PipeSize
  /\ inbox' = Append(inbox, f)
  /\ sent' = sent + 1
  /\ UNCHANGED <<reply, outbox, server, shutdown_requested, shown, answered>>

\* The text need not be that of the file.
Open(d, text) ==
  /\ d \notin open
  /\ Send(NewFrame("didOpen", d, text))
  /\ open' = open \cup {d}
  /\ told' = [told EXCEPT ![d] = {text}]
  /\ saved' = saved \ {d}
  /\ UNCHANGED <<disk, editor, asked>>

\* The document is edited, written, and the server told of it.
Save(d, text) ==
  /\ d \in open
  /\ Send(NewFrame("didSave", d, None))
  /\ \/ /\ d \in FileDoc
        /\ disk' = [disk EXCEPT ![d] = text]
        /\ told' = [told EXCEPT ![d] = {text}]
        /\ saved' = saved \cup {d}
     \/ /\ d \notin FileDoc
        /\ UNCHANGED <<disk, told, saved>>
  /\ UNCHANGED <<editor, open, asked>>

Close(d) ==
  /\ d \in open
  /\ Send(NewFrame("didClose", d, None))
  /\ open' = open \ {d}
  /\ told' = [told EXCEPT ![d] = {}]
  /\ saved' = saved \ {d}
  /\ UNCHANGED <<disk, editor, asked>>

Ask(method) ==
  /\ Send(NewFrame(method, None, None))
  /\ asked' = asked \cup {NewFrame(method, None, None)}
  /\ UNCHANGED <<disk, editor, open, told, saved>>

Noise(kind) ==
  /\ Send(NewFrame(kind, None, None))
  /\ UNCHANGED <<disk, editor, open, asked, told, saved>>

Exit ==
  /\ Send(NewFrame("exit", None, None))
  /\ editor' = "exiting"
  /\ UNCHANGED <<disk, open, asked, told, saved>>

Receive ==
  /\ editor # "gone" /\ outbox # <<>>
  /\ outbox' = Tail(outbox)
  /\ LET m == Head(outbox)
     IN  IF m.doc # None
         THEN shown' = [shown EXCEPT ![m.doc] = m.findings] /\ UNCHANGED answered
         ELSE answered' = answered \cup {m.id} /\ UNCHANGED shown
  /\ UNCHANGED <<disk, inbox, reply, server, shutdown_requested, editor, open, asked, sent, told, saved>>

\* It is killed, or ends.
Vanish ==
  /\ editor # "gone"
  /\ editor' = "gone"
  /\ UNCHANGED <<disk, inbox, reply, outbox, server, shutdown_requested, open, shown,
                 asked, answered, sent, told, saved>>

\* Another program writes a file, or removes it.
Touch(d, text) ==
  /\ disk' = [disk EXCEPT ![d] = text]
  /\ told' = IF d \in saved THEN [told EXCEPT ![d] = @ \cup {text}] ELSE told
  /\ UNCHANGED <<inbox, reply, outbox, server, shutdown_requested, editor, open, shown,
                 asked, answered, sent, saved>>

Editor ==
  \/ \E d \in Doc : Close(d) \/ \E text \in Content : Open(d, text) \/ Save(d, text)
  \/ \E method \in Request : Ask(method)
  \/ \E kind \in {"skipped", "unframed"} : Noise(kind)
  \/ Exit \/ Receive \/ Vanish

Init ==
  /\ disk \in [FileDoc -> Content \cup {None}]
  /\ inbox = <<>> /\ reply = None /\ outbox = <<>>
  /\ server = "up" /\ shutdown_requested = FALSE
  /\ editor = "up" /\ open = {} /\ shown = [d \in Doc |-> {}]
  /\ asked = {} /\ answered = {} /\ sent = 0
  /\ told = [d \in Doc |-> {}] /\ saved = {}

Next ==
  \/ Server \/ Editor
  \/ \E d \in FileDoc, text \in Content \cup {None} : Touch(d, text)

\* The server waits for nothing but its pipes; the editor reads what it is sent.
Spec == Init /\ [][Next]_vars /\ WF_vars(Server) /\ WF_vars(Receive)

-----------------------------------------------------------------------------
(* Correctness.                                                            *)

\* A frame about d that will change what is shown of it.
Tells(f, d) == f.doc = d /\ (f.kind = "didSave" => d \in FileDoc)

InboxTells(d) == \E i \in DOMAIN inbox : Tells(inbox[i], d)
ReplyTells(d) == reply # None /\ reply.doc = d
OutboxTells(d) == \E i \in DOMAIN outbox : outbox[i].doc = d

Settled(d) == ~InboxTells(d) /\ ~ReplyTells(d) /\ ~OutboxTells(d)

\* What may be shown of d: the findings of the text it was opened with, or of what its
\* file has held since it was saved; nothing once it is closed.
Allowed(d) ==
  CASE d \notin open -> {{}}
    [] d \in open /\ d \notin saved -> {lint_text(d, text) : text \in told[d]}
    [] d \in open /\ d \in saved -> {lint_path(d, text) : text \in told[d]}

\* A document of which nothing is under way shows what the editor last told of it,
\* however opens, saves, closes, answers and writes by others interleaved.
ShownIsCurrent ==
  editor # "gone" => \A d \in Doc : Settled(d) => shown[d] \in Allowed(d)

\* The inductive invariant: of what is under way about a document, the last leads to
\* what may be shown of it.
Leads(f, d) ==
  \/ f.kind = "didOpen" /\ d \in open \ saved /\ told[d] = {f.text}
  \/ f.kind = "didSave" /\ d \in open \cap saved /\ disk[d] \in told[d]
  \/ f.kind = "didClose" /\ d \notin open

LastInInbox(i, d) ==
  Tells(inbox[i], d) /\ \A j \in DOMAIN inbox : j > i => ~Tells(inbox[j], d)

LastInOutbox(i, d) ==
  outbox[i].doc = d /\ \A j \in DOMAIN outbox : j > i => outbox[j].doc # d

InboxLeads(d) == \A i \in DOMAIN inbox : LastInInbox(i, d) => Leads(inbox[i], d)

ReplyLeads(d) == ~InboxTells(d) /\ ReplyTells(d) => reply.findings \in Allowed(d)

OutboxLeads(d) ==
  ~InboxTells(d) /\ ~ReplyTells(d) =>
    \A i \in DOMAIN outbox : LastInOutbox(i, d) => outbox[i].findings \in Allowed(d)

IInv ==
  /\ TypeOK
  /\ editor # "gone" =>
       \A d \in Doc : InboxLeads(d) /\ ReplyLeads(d) /\ OutboxLeads(d)
  /\ ShownIsCurrent

Copies(id) ==
  Cardinality({i \in DOMAIN inbox : inbox[i].id = id})
  + Cardinality({i \in DOMAIN outbox : outbox[i].id = id})
  + (IF reply # None /\ reply.id = id THEN 1 ELSE 0)
  + (IF id \in answered THEN 1 ELSE 0)

\* A request is answered once; only one for an unknown method, sent after shutdown, may
\* remain without an answer.  No message answers nobody.
RequestsAnsweredOnce ==
  /\ editor # "gone" =>
       \A f \in asked :
         \/ Copies(f.id) = 1
         \/ /\ Copies(f.id) = 0 /\ f.kind = "unknown"
            /\ \E g \in asked : g.kind = "shutdown" /\ g.id < f.id
  /\ \A i \in DOMAIN outbox : outbox[i].doc = None => \E f \in asked : f.id = outbox[i].id

\* Whatever the editor tells of a document reaches the screen.
Refreshed ==
  \A d \in Doc : ~Settled(d) ~> (Settled(d) \/ server = "ended" \/ editor = "gone")

\* No server outlives its editor, whether it says exit or is gone.
ServerEnds == (editor # "up") ~> (server = "ended")
=============================================================================
