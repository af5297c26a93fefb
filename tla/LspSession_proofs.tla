------------------------- MODULE LspSession_proofs -------------------------
(***************************************************************************)
(* What the editor shows of a document is what it last told of it, and a   *)
(* request is answered once, for every set of documents and contents,      *)
(* pipes of every size, and every interleaving.                            *)
(***************************************************************************)
EXTENDS LspSession, FiniteSetTheorems, TLAPS

LEMMA AppendFacts ==
  ASSUME NEW S, NEW s \in Seq(S), NEW e \in S
  PROVE  /\ Append(s, e) \in Seq(S)
         /\ DOMAIN Append(s, e) = DOMAIN s \cup {Len(s) + 1}
         /\ \A i \in DOMAIN s : Append(s, e)[i] = s[i] /\ i < Len(s) + 1
         /\ Append(s, e)[Len(s) + 1] = e
         /\ Len(s) + 1 \notin DOMAIN s
  OBVIOUS

LEMMA TailFacts ==
  ASSUME NEW S, NEW s \in Seq(S), s # <<>>
  PROVE  /\ Tail(s) \in Seq(S) /\ Head(s) \in S
         /\ Head(s) = s[1] /\ 1 \in DOMAIN s
         /\ \A i \in DOMAIN Tail(s) : i \in Nat /\ i + 1 \in DOMAIN s /\ Tail(s)[i] = s[i + 1]
         /\ \A i \in DOMAIN s : i \in Nat /\ i >= 1
         /\ \A i \in DOMAIN s : i # 1 => i - 1 \in DOMAIN Tail(s) /\ Tail(s)[i - 1] = s[i]
  OBVIOUS

-----------------------------------------------------------------------------
(* Types.                                                                  *)

LEMMA FrameFields ==
  ASSUME NEW f \in Frame
  PROVE  /\ f.kind \in Kind /\ f.doc \in Doc \cup {None}
         /\ f.kind = "didOpen" => f.text \in Content
         /\ f.doc # None <=> f.kind \in {"didOpen", "didSave", "didClose"}
         /\ f.kind \in Request => f.id \in Id
  BY DEF Frame

LEMMA AnswerType ==
  ASSUME TypeOK, NEW f \in Frame
  PROVE  Answer(f) \in Message \cup {None}
<1>1. \A text \in Content, d \in Doc : lint_text(d, text) \in SUBSET Finding
  BY LspAssumption DEF lint_text
<1>2. \A d \in FileDoc : lint_path(d, disk[d]) \in SUBSET Finding
  BY LspAssumption DEF lint_path, TypeOK
<1>3. \A d \in Doc, findings \in SUBSET Finding : Publish(d, findings) \in Message
  BY LspAssumption DEF Publish, Message
<1>4. \A id \in Id : Respond(id) \in Message
  BY NoneAssumption DEF Respond, Message
<1>5. CASE f.doc # None
  <2>1. f.doc \in Doc
    BY <1>5, FrameFields
  <2>2. f.kind = "didOpen" => Publish(f.doc, lint_text(f.doc, f.text)) \in Message
    BY <1>1, <1>3, <2>1, FrameFields
  <2>3. f.doc \in FileDoc => Publish(f.doc, lint_path(f.doc, disk[f.doc])) \in Message
    BY <1>2, <1>3, <2>1
  <2>4. Publish(f.doc, {}) \in Message
    BY <1>3, <2>1
  <2>5. AnswerDocument(f) \in Message \cup {None}
    BY <2>2, <2>3, <2>4 DEF AnswerDocument
  <2> QED BY <1>5, <2>5 DEF Answer
<1>6. CASE f.doc = None
  BY <1>4, <1>6, FrameFields DEF Answer, AnswerRequest, Request
<1> QED BY <1>5, <1>6

LEMMA NewFrameType ==
  ASSUME TypeOK, sent < MaxFrames, NEW kind \in Kind, NEW d \in Doc \cup {None},
         NEW text \in Content \cup {None},
         kind = "didOpen" => text # None,
         d # None <=> kind \in {"didOpen", "didSave", "didClose"}
  PROVE  NewFrame(kind, d, text) \in Frame
<1>1. kind \in Request => sent + 1 \in Id /\ sent + 1 # None
  BY LspAssumption, NoneAssumption DEF TypeOK, Id
<1> QED BY <1>1 DEF NewFrame, Frame

LEMMA SendType ==
  ASSUME TypeOK, NEW f \in Frame, Send(f)
  PROVE  /\ inbox' \in Seq(Frame) /\ sent' \in 0 .. MaxFrames
         /\ UNCHANGED <<reply, outbox, server, shutdown_requested, shown, answered>>
<1>1. inbox' \in Seq(Frame)
  BY AppendFacts DEF TypeOK, Send
<1>2. sent' \in 0 .. MaxFrames
  BY LspAssumption DEF TypeOK, Send
<1> QED BY <1>1, <1>2 DEF Send

LEMMA TypeInit == Init => TypeOK
<1> SUFFICES ASSUME Init PROVE TypeOK
  OBVIOUS
<1>1. inbox \in Seq(Frame) /\ outbox \in Seq(Message)
  BY DEF Init
<1>2. told \in [Doc -> SUBSET (Content \cup {None})] /\ shown \in [Doc -> SUBSET Finding]
  BY DEF Init
<1>3. sent \in 0 .. MaxFrames
  BY LspAssumption DEF Init
<1> QED BY <1>1, <1>2, <1>3 DEF Init, TypeOK

LEMMA TypeStep == TypeOK /\ [Next]_vars => TypeOK'
<1> SUFFICES ASSUME TypeOK, [Next]_vars PROVE TypeOK'
  OBVIOUS
<1>1. CASE Handle
  <2>1. Head(inbox) \in Frame /\ Tail(inbox) \in Seq(Frame)
    BY <1>1, TailFacts DEF Handle, TypeOK
  <2>2. reply' \in Message \cup {None}
    BY <1>1, <2>1, AnswerType DEF Handle
  <2> QED BY <1>1, <2>1, <2>2 DEF Handle, TypeOK, world
<1>2. CASE Write
  <2>1. reply \in Message
    BY <1>2 DEF Write, TypeOK
  <2>2. outbox' \in Seq(Message)
    BY <1>2, <2>1, AppendFacts DEF Write, TypeOK
  <2> QED BY <1>2, <2>2 DEF Write, TypeOK, world
<1>3. CASE EndOfInput
  BY <1>3 DEF EndOfInput, TypeOK, world
<1>4. ASSUME NEW d \in Doc, NEW text \in Content, Open(d, text)
      PROVE  TypeOK'
  <2>1. NewFrame("didOpen", d, text) \in Frame
    BY <1>4, NewFrameType, LspAssumption DEF Open, Send, Kind
  <2> QED BY <1>4, <2>1, SendType DEF Open, TypeOK
<1>5. ASSUME NEW d \in Doc, NEW text \in Content, Save(d, text)
      PROVE  TypeOK'
  <2>1. NewFrame("didSave", d, None) \in Frame
    BY <1>5, NewFrameType, LspAssumption DEF Save, Send, Kind
  <2>2. CASE d \in FileDoc
    <3>1. disk' = [disk EXCEPT ![d] = text] /\ told' = [told EXCEPT ![d] = {text}]
          /\ saved' = saved \cup {d}
      BY <1>5, <2>2 DEF Save
    <3>2. /\ disk' \in [FileDoc -> Content \cup {None}]
          /\ told' \in [Doc -> SUBSET (Content \cup {None})] /\ saved' \subseteq Doc
      BY <2>2, <3>1 DEF TypeOK
    <3> QED BY <1>5, <2>1, <3>2, SendType DEF Save, TypeOK
  <2>3. CASE d \notin FileDoc
    BY <1>5, <2>1, <2>3, SendType DEF Save, TypeOK
  <2> QED BY <2>2, <2>3
<1>6. ASSUME NEW d \in Doc, Close(d)
      PROVE  TypeOK'
  <2>1. NewFrame("didClose", d, None) \in Frame
    BY <1>6, NewFrameType, LspAssumption DEF Close, Send, Kind
  <2> QED BY <1>6, <2>1, SendType DEF Close, TypeOK
<1>7. ASSUME NEW kind \in {"exit", "skipped", "unframed"} \cup Request,
             Send(NewFrame(kind, None, None))
      PROVE  NewFrame(kind, None, None) \in Frame
  BY <1>7, NewFrameType DEF Send, Kind, Request
<1>8. ASSUME NEW method \in Request, Ask(method)
      PROVE  TypeOK'
  <2>1. NewFrame(method, None, None) \in Frame
    BY <1>7, <1>8 DEF Ask
  <2> QED BY <1>8, <2>1, SendType DEF Ask, TypeOK
<1>9. ASSUME NEW kind \in {"skipped", "unframed"}, Noise(kind)
      PROVE  TypeOK'
  <2>1. NewFrame(kind, None, None) \in Frame
    BY <1>7, <1>9 DEF Noise
  <2> QED BY <1>9, <2>1, SendType DEF Noise, TypeOK
<1>10. CASE Exit
  <2>1. NewFrame("exit", None, None) \in Frame
    BY <1>7, <1>10 DEF Exit
  <2> QED BY <1>10, <2>1, SendType DEF Exit, TypeOK
<1>11. CASE Receive
  <2>1. Head(outbox) \in Message /\ Tail(outbox) \in Seq(Message)
    BY <1>11, TailFacts DEF Receive, TypeOK
  <2>2. shown' \in [Doc -> SUBSET Finding] /\ answered' \in SUBSET Id
    BY <1>11, <2>1 DEF Receive, TypeOK, Message
  <2> QED BY <1>11, <2>1, <2>2 DEF Receive, TypeOK
<1>12. CASE Vanish
  BY <1>12 DEF Vanish, TypeOK
<1>13. ASSUME NEW d \in FileDoc, NEW text \in Content \cup {None}, Touch(d, text)
       PROVE  TypeOK'
  BY <1>13, LspAssumption DEF Touch, TypeOK
<1>14. CASE UNCHANGED vars
  BY <1>14 DEF vars, world, TypeOK
<1> QED BY <1>1, <1>2, <1>3, <1>4, <1>5, <1>6, <1>8, <1>9, <1>10, <1>11, <1>12, <1>13, <1>14
        DEF Next, Server, Editor

-----------------------------------------------------------------------------
(* The last word on a document.                                            *)

Chain(d) ==
  InboxLeads(d) /\ ReplyLeads(d) /\ OutboxLeads(d) /\ (Settled(d) => shown[d] \in Allowed(d))

LEMMA AnswerLeads ==
  ASSUME TypeOK, NEW f \in Frame, NEW d \in Doc, Tells(f, d), Leads(f, d)
  PROVE  Answer(f) # None /\ Answer(f).doc = d /\ Answer(f).findings \in Allowed(d)
<1>1. f.doc = d /\ f.doc # None
  BY LspAssumption DEF Tells
<1>2. CASE f.kind = "didOpen" /\ d \in open \ saved /\ told[d] = {f.text}
  <2>1. Answer(f) = Publish(d, lint_text(d, f.text))
    BY <1>1, <1>2 DEF Answer, AnswerDocument
  <2>2. Allowed(d) = {lint_text(d, text) : text \in told[d]}
    BY <1>2 DEF Allowed
  <2>3. lint_text(d, f.text) \in Allowed(d)
    BY <1>2, <2>2
  <2>4. Answer(f) \in Message
    BY <1>1, <2>1, LspAssumption, FrameFields, <1>2 DEF Publish, Message, lint_text
  <2> QED BY <2>1, <2>3, <2>4, NoneAssumption DEF Publish
<1>3. CASE f.kind = "didSave" /\ d \in open \cap saved /\ disk[d] \in told[d]
  <2>1. d \in FileDoc
    BY <1>3 DEF Tells
  <2>2. Answer(f) = Publish(d, lint_path(d, disk[d]))
    BY <1>1, <1>3, <2>1 DEF Answer, AnswerDocument
  <2>3. Allowed(d) = {lint_path(d, text) : text \in told[d]}
    BY <1>3 DEF Allowed
  <2>4. lint_path(d, disk[d]) \in Allowed(d)
    BY <1>3, <2>3
  <2>5. Answer(f) \in Message
    BY <2>1, <2>2, LspAssumption DEF Publish, Message, lint_path, TypeOK
  <2> QED BY <2>2, <2>4, <2>5, NoneAssumption DEF Publish
<1>4. CASE f.kind = "didClose" /\ d \notin open
  <2>1. Answer(f) = Publish(d, {})
    BY <1>1, <1>4 DEF Answer, AnswerDocument
  <2>2. {} \in Allowed(d)
    BY <1>4 DEF Allowed
  <2>3. Answer(f) \in Message
    BY <2>1, LspAssumption DEF Publish, Message
  <2> QED BY <2>1, <2>2, <2>3, NoneAssumption DEF Publish
<1> QED BY <1>2, <1>3, <1>4 DEF Leads

LEMMA AnswerElsewhere ==
  ASSUME NEW f \in Frame, NEW d \in Doc, ~Tells(f, d)
  PROVE  ~(Answer(f) # None /\ Answer(f).doc = d)
<1>1. CASE f.doc = None
  BY <1>1, LspAssumption DEF Answer, AnswerRequest, Respond
<1>2. CASE f.doc # None /\ f.doc # d
  BY <1>2 DEF Answer, AnswerDocument, Publish
<1>3. CASE f.doc = d /\ f.kind = "didSave" /\ d \notin FileDoc
  BY <1>3, LspAssumption DEF Answer, AnswerDocument
<1> QED BY <1>1, <1>2, <1>3 DEF Tells

\* A step that leaves alone what the editor knows of d, except that a file saved may
\* have held another content since.
Kept(d) ==
  /\ d \in open' <=> d \in open
  /\ d \in saved' <=> d \in saved
  /\ told[d] \subseteq told'[d] /\ (d \notin saved => told'[d] = told[d])
  /\ d \in FileDoc => (disk'[d] = disk[d] \/ disk'[d] \in told'[d] \/ d \notin saved)

LEMMA KeptAllows ==
  ASSUME NEW d \in Doc, Kept(d)
  PROVE  /\ Allowed(d) \subseteq Allowed(d)'
         /\ \A f : Tells(f, d) /\ Leads(f, d) => Leads(f, d)'
<1>1. CASE d \notin open
  BY <1>1 DEF Kept, Allowed, Leads
<1>2. CASE d \in open /\ d \notin saved
  <2>1. Allowed(d)' = Allowed(d)
    BY <1>2 DEF Kept, Allowed, lint_text
  <2> QED BY <1>2, <2>1 DEF Kept, Leads
<1>3. CASE d \in open /\ d \in saved
  <2>1. /\ Allowed(d) = {lint_path(d, text) : text \in told[d]}
        /\ Allowed(d)' = {lint_path(d, text) : text \in told'[d]}
    BY <1>3 DEF Kept, Allowed, lint_path
  <2>2. Allowed(d) \subseteq Allowed(d)'
    BY <2>1 DEF Kept
  <2> QED BY <1>3, <2>2 DEF Kept, Leads, Tells
<1> QED BY <1>1, <1>2, <1>3

LEMMA KeptChain ==
  ASSUME NEW d \in Doc, Chain(d), Kept(d), UNCHANGED <<inbox, reply, outbox, shown>>
  PROVE  Chain(d)'
<1> USE KeptAllows
<1>1. /\ \A f : Tells(f, d)' <=> Tells(f, d)
      /\ InboxTells(d)' <=> InboxTells(d)
      /\ ReplyTells(d)' <=> ReplyTells(d)
      /\ Settled(d)' <=> Settled(d)
  BY DEF Tells, InboxTells, ReplyTells, OutboxTells, Settled
<1>2. InboxLeads(d)'
  BY <1>1 DEF Chain, InboxLeads, LastInInbox
<1>3. ReplyLeads(d)'
  BY <1>1 DEF Chain, ReplyLeads
<1>4. OutboxLeads(d)'
  BY <1>1 DEF Chain, OutboxLeads, LastInOutbox
<1> QED BY <1>1, <1>2, <1>3, <1>4 DEF Chain

\* A frame is sent that tells of d, and d is as the frame says.
LEMMA TellingChain ==
  ASSUME TypeOK, NEW d \in Doc, NEW f \in Frame, Send(f), Tells(f, d), Leads(f, d)'
  PROVE  Chain(d)'
<1>1. inbox' = Append(inbox, f) /\ inbox \in Seq(Frame)
  BY DEF Send, TypeOK
<1>2. /\ DOMAIN inbox' = DOMAIN inbox \cup {Len(inbox) + 1}
      /\ inbox'[Len(inbox) + 1] = f
      /\ \A i \in DOMAIN inbox : i < Len(inbox) + 1
  BY <1>1, AppendFacts
<1>3. Tells(f, d)'
  BY DEF Tells
<1>4. InboxTells(d)'
  BY <1>2, <1>3 DEF InboxTells, Tells
<1>5. InboxLeads(d)'
  BY <1>2, <1>3 DEF InboxLeads, LastInInbox, Tells
<1> QED BY <1>4, <1>5 DEF Chain, ReplyLeads, OutboxLeads, Settled

\* A frame is sent that tells nothing of d.
LEMMA SilentChain ==
  ASSUME TypeOK, NEW d \in Doc, NEW f \in Frame, Send(f), ~Tells(f, d), Kept(d), Chain(d)
  PROVE  Chain(d)'
<1> USE KeptAllows
<1>1. inbox' = Append(inbox, f) /\ inbox \in Seq(Frame)
  BY DEF Send, TypeOK
<1>2. /\ DOMAIN inbox' = DOMAIN inbox \cup {Len(inbox) + 1}
      /\ inbox'[Len(inbox) + 1] = f
      /\ \A i \in DOMAIN inbox : inbox'[i] = inbox[i]
  BY <1>1, AppendFacts
<1>3. \A i \in DOMAIN inbox' : Tells(inbox'[i], d) => i \in DOMAIN inbox /\ Tells(inbox[i], d)
  BY <1>2
<1>4. \A i \in DOMAIN inbox : Tells(inbox[i], d) => Tells(inbox'[i], d)
  BY <1>2
<1>5. UNCHANGED <<reply, outbox, shown>>
  BY DEF Send
<1>6. InboxTells(d)' <=> InboxTells(d)
  BY <1>2, <1>3, <1>4 DEF InboxTells, Tells
<1>7. (ReplyTells(d)' <=> ReplyTells(d)) /\ (Settled(d)' <=> Settled(d))
  BY <1>5, <1>6 DEF ReplyTells, OutboxTells, Settled
<1>8. InboxLeads(d)'
  <2>1. ASSUME NEW i \in DOMAIN inbox', NEW g, g = inbox'[i], Tells(g, d),
               \A j \in DOMAIN inbox' : j > i => ~Tells(inbox'[j], d)
        PROVE  Leads(g, d)'
    <3>1. i \in DOMAIN inbox /\ g = inbox[i]
      BY <1>2, <1>3, <2>1
    <3>2. \A j \in DOMAIN inbox : j > i => ~Tells(inbox[j], d)
      BY <1>2, <1>4, <2>1
    <3>3. Leads(g, d)
      BY <2>1, <3>1, <3>2 DEF Chain, InboxLeads, LastInInbox
    <3> QED BY <2>1, <3>3
  <2> QED BY <2>1 DEF InboxLeads, LastInInbox, Tells, Leads
<1>9. ReplyLeads(d)'
  BY <1>5, <1>6, <1>7 DEF Chain, ReplyLeads
<1>10. OutboxLeads(d)'
  BY <1>5, <1>6, <1>7 DEF Chain, OutboxLeads, LastInOutbox
<1> QED BY <1>5, <1>7, <1>8, <1>9, <1>10 DEF Chain

LEMMA HandleChain ==
  ASSUME TypeOK, NEW d \in Doc, Handle, Chain(d)
  PROVE  Chain(d)'
<1> DEFINE f == Head(inbox)
<1>1. /\ reply = None /\ inbox' = Tail(inbox) /\ reply' = Answer(f)
      /\ UNCHANGED <<outbox, world>>
  BY DEF Handle
<1>2. inbox \in Seq(Frame) /\ inbox # <<>>
  BY DEF Handle, TypeOK
<1>3. /\ f \in Frame /\ f = inbox[1] /\ 1 \in DOMAIN inbox
      /\ \A i \in DOMAIN inbox' : i \in Nat /\ i + 1 \in DOMAIN inbox /\ inbox'[i] = inbox[i + 1]
      /\ \A i \in DOMAIN inbox : i \in Nat /\ i >= 1
      /\ \A i \in DOMAIN inbox : i # 1 => i - 1 \in DOMAIN inbox' /\ inbox'[i - 1] = inbox[i]
  BY <1>1, <1>2, TailFacts
<1>4. /\ Allowed(d)' = Allowed(d)
      /\ \A g : Leads(g, d)' <=> Leads(g, d)
  BY <1>1 DEF world, Allowed, Leads, lint_text, lint_path
<1> HIDE DEF f
<1>5. InboxTells(d) <=> Tells(f, d) \/ InboxTells(d)'
  BY <1>3 DEF InboxTells, Tells
<1>6. InboxLeads(d)'
  <2>1. ASSUME NEW i \in DOMAIN inbox', NEW g, g = inbox'[i], Tells(g, d),
               \A j \in DOMAIN inbox' : j > i => ~Tells(inbox'[j], d)
        PROVE  Leads(g, d)
    <3>1. i + 1 \in DOMAIN inbox /\ g = inbox[i + 1]
      BY <1>3, <2>1
    <3>2. ASSUME NEW j \in DOMAIN inbox, j > i + 1
          PROVE  ~Tells(inbox[j], d)
      <4>1. j \in Nat /\ i \in Nat /\ j # 1 /\ j - 1 > i
        BY <1>3, <3>2
      <4> QED BY <1>3, <2>1, <3>2, <4>1
    <3> QED BY <2>1, <3>1, <3>2 DEF Chain, InboxLeads, LastInInbox
  <2> QED BY <1>4, <2>1 DEF InboxLeads, LastInInbox, Tells
<1>7. CASE Tells(f, d) /\ ~InboxTells(d)'
  <2>1. \A j \in DOMAIN inbox : j > 1 => ~Tells(inbox[j], d)
    BY <1>3, <1>7 DEF InboxTells, Tells
  <2>2. Leads(f, d)
    BY <1>3, <1>7, <2>1 DEF Chain, InboxLeads, LastInInbox
  <2>3. reply' # None /\ reply'.doc = d /\ reply'.findings \in Allowed(d)
    BY <1>1, <1>3, <1>7, <2>2, AnswerLeads
  <2> QED BY <1>4, <1>6, <2>3 DEF Chain, ReplyLeads, ReplyTells, OutboxLeads, Settled
<1>8. CASE InboxTells(d)'
  BY <1>6, <1>8 DEF Chain, ReplyLeads, OutboxLeads, Settled
<1>9. CASE ~Tells(f, d) /\ ~InboxTells(d)'
  <2>1. ~ReplyTells(d)' /\ ~ReplyTells(d) /\ ~InboxTells(d)
    BY <1>1, <1>3, <1>5, <1>9, AnswerElsewhere DEF ReplyTells
  <2>2. OutboxLeads(d)' /\ (Settled(d)' => shown'[d] \in Allowed(d)')
    BY <1>1, <1>4, <1>9, <2>1
       DEF Chain, OutboxLeads, LastInOutbox, Settled, OutboxTells, world
  <2> QED BY <1>6, <2>1, <2>2 DEF Chain, ReplyLeads
<1> QED BY <1>7, <1>8, <1>9

LEMMA WriteChain ==
  ASSUME TypeOK, NEW d \in Doc, Write, editor # "gone", Chain(d)
  PROVE  Chain(d)'
<1>1. /\ reply # None /\ reply' = None /\ outbox' = Append(outbox, reply)
      /\ UNCHANGED <<inbox, world>>
  BY DEF Write
<1>2. reply \in Message /\ outbox \in Seq(Message)
  BY <1>1 DEF TypeOK
<1>3. /\ DOMAIN outbox' = DOMAIN outbox \cup {Len(outbox) + 1}
      /\ outbox'[Len(outbox) + 1] = reply
      /\ \A i \in DOMAIN outbox : outbox'[i] = outbox[i] /\ i < Len(outbox) + 1
      /\ Len(outbox) + 1 \notin DOMAIN outbox
  BY <1>1, <1>2, AppendFacts
<1>4. /\ Allowed(d)' = Allowed(d)
      /\ \A g : Leads(g, d)' <=> Leads(g, d)
  BY <1>1 DEF world, Allowed, Leads, lint_text, lint_path
<1>5. (InboxTells(d)' <=> InboxTells(d)) /\ InboxLeads(d)'
  BY <1>1, <1>4 DEF Chain, InboxLeads, LastInInbox, InboxTells, Tells
<1>6. ~ReplyTells(d)'
  BY <1>1 DEF ReplyTells
<1>7. CASE reply.doc = d
  <2>1. ReplyTells(d) /\ OutboxTells(d)'
    BY <1>1, <1>3, <1>7 DEF ReplyTells, OutboxTells
  <2>2. \A i \in DOMAIN outbox' : LastInOutbox(i, d)' => i = Len(outbox) + 1
    BY <1>3, <1>7 DEF LastInOutbox
  <2>3. OutboxLeads(d)'
    BY <1>3, <1>4, <1>5, <2>1, <2>2 DEF Chain, ReplyLeads, OutboxLeads
  <2> QED BY <1>5, <1>6, <2>1, <2>3 DEF Chain, ReplyLeads, Settled
<1>8. CASE reply.doc # d
  <2>1. ~ReplyTells(d) /\ (OutboxTells(d)' <=> OutboxTells(d))
    BY <1>3, <1>8 DEF ReplyTells, OutboxTells
  <2>2. \A i \in DOMAIN outbox' : LastInOutbox(i, d)' =>
          i \in DOMAIN outbox /\ LastInOutbox(i, d) /\ outbox'[i] = outbox[i]
    BY <1>3, <1>8 DEF LastInOutbox
  <2>3. OutboxLeads(d)'
    BY <1>4, <1>5, <2>1, <2>2 DEF Chain, OutboxLeads
  <2>4. Settled(d)' => shown'[d] \in Allowed(d)'
    BY <1>1, <1>4, <1>5, <2>1 DEF Chain, Settled, world
  <2> QED BY <1>5, <1>6, <2>3, <2>4 DEF Chain, ReplyLeads
<1> QED BY <1>7, <1>8

LEMMA ReceiveChain ==
  ASSUME TypeOK, NEW d \in Doc, Receive, Chain(d)
  PROVE  Chain(d)'
<1> DEFINE m == Head(outbox)
<1>1. /\ outbox' = Tail(outbox) /\ UNCHANGED <<disk, inbox, reply, open, told, saved>>
      /\ m.doc = d => shown' = [shown EXCEPT ![d] = m.findings]
      /\ m.doc # d => shown' = shown \/ shown' = [shown EXCEPT ![m.doc] = m.findings]
  BY LspAssumption DEF Receive
<1>2. outbox \in Seq(Message) /\ outbox # <<>> /\ shown \in [Doc -> SUBSET Finding]
  BY DEF Receive, TypeOK
<1>3. /\ m \in Message /\ m = outbox[1] /\ 1 \in DOMAIN outbox
      /\ \A i \in DOMAIN outbox' : i \in Nat /\ i + 1 \in DOMAIN outbox /\ outbox'[i] = outbox[i + 1]
      /\ \A i \in DOMAIN outbox : i \in Nat /\ i >= 1
      /\ \A i \in DOMAIN outbox : i # 1 => i - 1 \in DOMAIN outbox' /\ outbox'[i - 1] = outbox[i]
  BY <1>1, <1>2, TailFacts
<1>4. /\ Allowed(d)' = Allowed(d)
      /\ \A g : Leads(g, d)' <=> Leads(g, d)
  BY <1>1 DEF Allowed, Leads, lint_text, lint_path
<1>5. /\ InboxTells(d)' <=> InboxTells(d)
      /\ ReplyTells(d)' <=> ReplyTells(d)
      /\ InboxLeads(d)' /\ ReplyLeads(d)'
  BY <1>1, <1>4
     DEF Chain, InboxLeads, LastInInbox, InboxTells, Tells, ReplyTells, ReplyLeads
<1> HIDE DEF m
<1>6. OutboxTells(d) <=> (m.doc = d \/ OutboxTells(d)')
  BY <1>3 DEF OutboxTells
<1>7. OutboxLeads(d)'
  <2> SUFFICES ASSUME NEW i \in DOMAIN outbox', ~InboxTells(d), ~ReplyTells(d),
                      outbox'[i].doc = d,
                      \A j \in DOMAIN outbox' : j > i => outbox'[j].doc # d
               PROVE  outbox'[i].findings \in Allowed(d)
    BY <1>4, <1>5 DEF OutboxLeads, LastInOutbox
  <2>1. i \in Nat /\ i + 1 \in DOMAIN outbox /\ outbox'[i] = outbox[i + 1]
    BY <1>3
  <2>2. ASSUME NEW j \in DOMAIN outbox, j > i + 1
        PROVE  outbox[j].doc # d
    <3>1. j \in Nat /\ j # 1 /\ j - 1 > i
      BY <1>3, <2>1, <2>2
    <3> QED BY <1>3, <3>1
  <2> QED BY <2>1, <2>2 DEF Chain, OutboxLeads, LastInOutbox
<1>8. Settled(d)' => shown'[d] \in Allowed(d)'
  <2> SUFFICES ASSUME ~InboxTells(d), ~ReplyTells(d), ~OutboxTells(d)'
               PROVE  shown'[d] \in Allowed(d)
    BY <1>4, <1>5 DEF Settled
  <2>1. CASE m.doc = d
    <3>1. \A j \in DOMAIN outbox : j > 1 => outbox[j].doc # d
      BY <1>3 DEF OutboxTells
    <3>2. m.findings \in Allowed(d)
      BY <1>3, <2>1, <3>1 DEF Chain, OutboxLeads, LastInOutbox
    <3> QED BY <1>1, <1>2, <2>1, <3>2
  <2>2. CASE m.doc # d
    <3>1. shown'[d] = shown[d]
      BY <1>1, <1>2, <2>2
    <3> QED BY <1>6, <2>2, <3>1 DEF Chain, Settled
  <2> QED BY <2>1, <2>2
<1> QED BY <1>5, <1>7, <1>8 DEF Chain

-----------------------------------------------------------------------------
(* The invariant.                                                          *)

LEMMA IInvIsChains ==
  IInv <=> TypeOK /\ (editor # "gone" => \A d \in Doc : Chain(d))
  BY DEF IInv, ShownIsCurrent, Chain

LEMMA InitChains == Init => \A d \in Doc : Chain(d)
  BY DEF Init, Chain, InboxLeads, ReplyLeads, OutboxLeads, ReplyTells, Allowed

\* The steps of the editor other than reading an answer and vanishing.
LEMMA SendChains ==
  ASSUME TypeOK, NEW e \in Doc, Chain(e),
         \/ \E d \in Doc : Close(d) \/ \E text \in Content : Open(d, text) \/ Save(d, text)
         \/ \E method \in Request : Ask(method)
         \/ \E kind \in {"skipped", "unframed"} : Noise(kind)
         \/ Exit
  PROVE  Chain(e)'
<1> USE LspAssumption
<1>1. ASSUME NEW kind \in Kind, kind \notin {"didOpen", "didSave", "didClose"},
             Send(NewFrame(kind, None, None)), UNCHANGED <<disk, open, told, saved>>
      PROVE  Chain(e)'
  <2>1. NewFrame(kind, None, None) \in Frame
    BY <1>1, NewFrameType DEF Send
  <2>2. ~Tells(NewFrame(kind, None, None), e)
    BY DEF Tells, NewFrame
  <2>3. Kept(e)
    BY <1>1 DEF Kept
  <2> QED BY <1>1, <2>1, <2>2, <2>3, SilentChain
<1>2. ASSUME NEW method \in Request, Ask(method)
      PROVE  Chain(e)'
  BY <1>1, <1>2 DEF Ask, Request, Kind
<1>3. ASSUME NEW kind \in {"skipped", "unframed"}, Noise(kind)
      PROVE  Chain(e)'
  BY <1>1, <1>3 DEF Noise, Kind
<1>4. CASE Exit
  BY <1>1, <1>4 DEF Exit, Kind
<1>5. ASSUME NEW d \in Doc, Close(d)
      PROVE  Chain(e)'
  <2>0. NewFrame("didClose", d, None) \in Frame
    BY <1>5, NewFrameType DEF Close, Send, Kind
  <2>1. PICK f : f \in Frame /\ Send(f) /\ f.kind = "didClose" /\ f.doc = d
    BY <1>5, <2>0 DEF Close, NewFrame
  <2>2. /\ open' = open \ {d} /\ told' = [told EXCEPT ![d] = {}] /\ saved' = saved \ {d}
        /\ disk' = disk
    BY <1>5 DEF Close
  <2>3. CASE e = d
    <3>1. Tells(f, e) /\ Leads(f, e)'
      BY <2>1, <2>2, <2>3 DEF Tells, Leads
    <3> QED BY <2>1, <3>1, TellingChain
  <2>4. CASE e # d
    <3>1. Kept(e) /\ ~Tells(f, e)
      BY <2>1, <2>2, <2>4 DEF Kept, Tells, TypeOK
    <3> QED BY <2>1, <3>1, SilentChain
  <2> QED BY <2>3, <2>4
<1>6. ASSUME NEW d \in Doc, NEW text \in Content, Open(d, text)
      PROVE  Chain(e)'
  <2>0. NewFrame("didOpen", d, text) \in Frame
    BY <1>6, NewFrameType DEF Open, Send, Kind
  <2>1. PICK f : f \in Frame /\ Send(f) /\ f.kind = "didOpen" /\ f.doc = d /\ f.text = text
    BY <1>6, <2>0 DEF Open, NewFrame
  <2>2. /\ open' = open \cup {d} /\ told' = [told EXCEPT ![d] = {text}] /\ saved' = saved \ {d}
        /\ disk' = disk
    BY <1>6 DEF Open
  <2>3. CASE e = d
    <3>1. Tells(f, e) /\ Leads(f, e)'
      BY <2>1, <2>2, <2>3 DEF Tells, Leads, TypeOK
    <3> QED BY <2>1, <3>1, TellingChain
  <2>4. CASE e # d
    <3>1. Kept(e) /\ ~Tells(f, e)
      BY <2>1, <2>2, <2>4 DEF Kept, Tells, TypeOK
    <3> QED BY <2>1, <3>1, SilentChain
  <2> QED BY <2>3, <2>4
<1>7. ASSUME NEW d \in Doc, NEW text \in Content, Save(d, text)
      PROVE  Chain(e)'
  <2>0. NewFrame("didSave", d, None) \in Frame
    BY <1>7, NewFrameType DEF Save, Send, Kind
  <2>1. PICK f : f \in Frame /\ Send(f) /\ f.kind = "didSave" /\ f.doc = d
    BY <1>7, <2>0 DEF Save, NewFrame
  <2>2. d \in open /\ open' = open
    BY <1>7 DEF Save
  <2>3. CASE d \in FileDoc
    <3>1. /\ disk' = [disk EXCEPT ![d] = text] /\ told' = [told EXCEPT ![d] = {text}]
          /\ saved' = saved \cup {d}
      BY <1>7, <2>3 DEF Save
    <3>2. CASE e = d
      <4>1. Tells(f, e) /\ Leads(f, e)'
        BY <2>1, <2>2, <2>3, <3>1, <3>2 DEF Tells, Leads, TypeOK
      <4> QED BY <2>1, <4>1, TellingChain
    <3>3. CASE e # d
      <4>1. Kept(e) /\ ~Tells(f, e)
        BY <2>1, <2>2, <3>1, <3>3 DEF Kept, Tells, TypeOK
      <4> QED BY <2>1, <4>1, SilentChain
    <3> QED BY <3>2, <3>3
  <2>4. CASE d \notin FileDoc
    <3>1. UNCHANGED <<disk, told, saved>>
      BY <1>7, <2>4 DEF Save
    <3>2. Kept(e) /\ ~Tells(f, e)
      BY <2>1, <2>2, <2>4, <3>1 DEF Kept, Tells
    <3> QED BY <2>1, <3>2, SilentChain
  <2> QED BY <2>3, <2>4
<1> QED BY <1>2, <1>3, <1>4, <1>5, <1>6, <1>7

LEMMA ChainStep ==
  ASSUME TypeOK, [Next]_vars, editor' # "gone", NEW e \in Doc, editor # "gone" => Chain(e)
  PROVE  Chain(e)'
<1>1. editor # "gone"
  BY DEF Next, Server, Handle, Write, EndOfInput, Editor, Close, Open, Save, Ask, Noise, Exit, Send,
         Receive, Vanish, Touch, vars, world
<1>2. Chain(e)
  BY <1>1
<1>3. CASE Handle
  BY <1>2, <1>3, HandleChain
<1>4. CASE Write
  BY <1>1, <1>2, <1>4, WriteChain
<1>5. CASE EndOfInput \/ Vanish
  BY <1>1, <1>5 DEF EndOfInput, Vanish
<1>6. CASE Receive
  BY <1>2, <1>6, ReceiveChain
<1>7. ASSUME NEW d \in FileDoc, NEW text \in Content \cup {None}, Touch(d, text)
      PROVE  Chain(e)'
  <2>1. Kept(e)
    BY <1>7, LspAssumption DEF Touch, Kept, TypeOK
  <2> QED BY <1>2, <1>7, <2>1, KeptChain DEF Touch
<1>8. CASE UNCHANGED vars
  <2>1. Kept(e)
    BY <1>8 DEF vars, world, Kept
  <2> QED BY <1>2, <1>8, <2>1, KeptChain DEF vars, world
<1> QED BY <1>2, <1>3, <1>4, <1>5, <1>6, <1>7, <1>8, SendChains DEF Next, Server, Editor

\* Of what is under way about a document the last leads to what may be shown of it.
THEOREM SessionInvariant == Spec => []IInv
<1>1. Init => IInv
  BY TypeInit, InitChains, IInvIsChains
<1>2. IInv /\ [Next]_vars => IInv'
  <2> SUFFICES ASSUME IInv, [Next]_vars PROVE IInv'
    OBVIOUS
  <2>1. TypeOK /\ (editor # "gone" => \A d \in Doc : Chain(d))
    BY IInvIsChains
  <2>2. TypeOK'
    BY <2>1, TypeStep
  <2>3. editor' # "gone" => \A d \in Doc : Chain(d)'
    BY <2>1, ChainStep
  <2>4. ShownIsCurrent' /\ (editor' # "gone" =>
          \A d \in Doc : InboxLeads(d)' /\ ReplyLeads(d)' /\ OutboxLeads(d)')
    BY <2>3 DEF ShownIsCurrent, Chain
  <2> QED BY <2>2, <2>4 DEF IInv
<1> QED BY <1>1, <1>2, PTL DEF Spec

\* A document of which nothing is under way shows the findings of the text it was
\* opened with, or of what its file has held since it was saved; a closed one, none.
THEOREM ScreenIsCurrent == Spec => []ShownIsCurrent
<1>1. IInv => ShownIsCurrent
  BY DEF IInv
<1> QED BY <1>1, SessionInvariant, PTL
-----------------------------------------------------------------------------
(* Requests.                                                               *)

\* How many elements of a queue carry an id.
Count(s, id) == Cardinality({i \in DOMAIN s : s[i].id = id})

One(b) == IF b THEN 1 ELSE 0

LEMMA CountType ==
  ASSUME NEW S, NEW s \in Seq(S), NEW id
  PROVE  IsFiniteSet({i \in DOMAIN s : s[i].id = id}) /\ Count(s, id) \in Nat
<1>1. IsFiniteSet(1 .. Len(s)) /\ DOMAIN s = 1 .. Len(s)
  BY FS_Interval
<1>2. IsFiniteSet({i \in DOMAIN s : s[i].id = id})
  BY <1>1, FS_Subset
<1> QED BY <1>2, FS_CardinalityType DEF Count

LEMMA CountAppend ==
  ASSUME NEW S, NEW s \in Seq(S), NEW e \in S, NEW id
  PROVE  Count(Append(s, e), id) = Count(s, id) + One(e.id = id)
<1> DEFINE old == {i \in DOMAIN s : s[i].id = id}
           new == {i \in DOMAIN Append(s, e) : Append(s, e)[i].id = id}
<1>1. IsFiniteSet(old) /\ Cardinality(old) \in Nat
  BY CountType DEF Count
<1>2. Len(s) + 1 \notin old
  BY AppendFacts
<1>3. new = IF e.id = id THEN old \cup {Len(s) + 1} ELSE old
  BY AppendFacts
<1> HIDE DEF old, new
<1>4. Cardinality(new) = Cardinality(old) + One(e.id = id)
  <2>1. Cardinality(old \cup {Len(s) + 1}) = Cardinality(old) + 1
    BY <1>1, <1>2, FS_AddElement
  <2>2. CASE e.id = id
    BY <1>3, <2>1, <2>2 DEF One
  <2>3. CASE e.id # id
    BY <1>1, <1>3, <2>3 DEF One
  <2> QED BY <2>2, <2>3
<1> QED BY <1>4 DEF Count, old, new

LEMMA CountTail ==
  ASSUME NEW S, NEW s \in Seq(S), s # <<>>, NEW id
  PROVE  Count(s, id) = Count(Tail(s), id) + One(Head(s).id = id)
<1> DEFINE all  == {i \in DOMAIN s : s[i].id = id}
           rest == {i \in all : i # 1}
           tail == {i \in DOMAIN Tail(s) : Tail(s)[i].id = id}
           up   == [i \in tail |-> i + 1]
<1>1. IsFiniteSet(tail) /\ Cardinality(tail) \in Nat
  <2>1. Tail(s) \in Seq(S)
    BY TailFacts
  <2> QED BY <2>1, CountType DEF Count
<1>2. up \in [tail -> rest]
  BY TailFacts
<1>3. \A i, j \in tail : up[i] = up[j] => i = j
  BY TailFacts
<1>4. \A k \in rest : \E i \in tail : up[i] = k
  <2> SUFFICES ASSUME NEW k \in rest PROVE \E i \in tail : up[i] = k
    OBVIOUS
  <2>1. k - 1 \in tail /\ up[k - 1] = k
    BY TailFacts
  <2> QED BY <2>1
<1>5. IsFiniteSet(rest) /\ Cardinality(rest) = Cardinality(tail)
  <2> HIDE DEF up, rest, tail
  <2>1. up \in Bijection(tail, rest)
    BY <1>2, <1>3, <1>4 DEF Bijection, Injection, IsInjective, Surjection
  <2> QED BY <1>1, <2>1, FS_Bijection DEF ExistsBijection
<1>6. all = IF Head(s).id = id THEN rest \cup {1} ELSE rest
  BY TailFacts
<1>7. 1 \notin rest
  OBVIOUS
<1> HIDE DEF all, rest, tail
<1>8. Cardinality(all) = Cardinality(rest) + One(Head(s).id = id)
  <2>1. Cardinality(rest \cup {1}) = Cardinality(rest) + 1
    BY <1>1, <1>5, <1>7, FS_AddElement
  <2>2. CASE Head(s).id = id
    BY <1>6, <2>1, <2>2 DEF One
  <2>3. CASE Head(s).id # id
    BY <1>1, <1>5, <1>6, <2>3 DEF One
  <2> QED BY <2>2, <2>3
<1> QED BY <1>5, <1>8 DEF Count, all, tail

-----------------------------------------------------------------------------
\* The requests under way: each has an id of its own, they are handled in the order
\* they were asked in, and what answers is asked for.
AskedInOrder ==
  /\ \A f \in asked : f.kind \in Request /\ f.id \in 1 .. sent
  /\ \A f, g \in asked : f.id = g.id => f = g
  /\ \A i \in DOMAIN inbox : inbox[i].id # None => inbox[i] \in asked
  /\ \A i, j \in DOMAIN inbox :
       i < j /\ inbox[i].id # None /\ inbox[j].id # None => inbox[i].id < inbox[j].id
  /\ shutdown_requested =>
       \E g \in asked : /\ g.kind = "shutdown"
                        /\ \A i \in DOMAIN inbox : inbox[i].id # None => g.id < inbox[i].id

AnswersAreAsked ==
  /\ reply # None /\ reply.doc = None => \E f \in asked : f.id = reply.id
  /\ \A i \in DOMAIN outbox : outbox[i].doc = None => \E f \in asked : f.id = outbox[i].id
  /\ \A id \in answered : \E f \in asked : f.id = id

\* What RequestsAnsweredOnce says of one request.
AnsweredOnce(f) ==
  \/ Copies(f.id) = 1
  \/ /\ Copies(f.id) = 0 /\ f.kind = "unknown"
     /\ \E g \in asked : g.kind = "shutdown" /\ g.id < f.id

RequestsInv ==
  /\ AskedInOrder /\ AnswersAreAsked
  /\ editor # "gone" => \A f \in asked : AnsweredOnce(f)

LEMMA CopiesSum ==
  ASSUME NEW id
  PROVE  Copies(id) = Count(inbox, id) + Count(outbox, id)
                        + One(reply # None /\ reply.id = id) + One(id \in answered)
BY DEF Copies, Count, One

LEMMA CopiesSumAfter ==
  ASSUME NEW id
  PROVE  Copies(id)' = Count(inbox', id) + Count(outbox', id)
                        + One(reply' # None /\ reply'.id = id) + One(id \in answered')
BY DEF Copies, Count, One

LEMMA CountsAreNumbers ==
  ASSUME TypeOK, NEW id
  PROVE  Count(inbox, id) \in Nat /\ Count(outbox, id) \in Nat
BY CountType DEF TypeOK

\* A frame has an id if it is a request, and a message if it is a response.
LEMMA IdFields ==
  /\ \A f \in Frame : (f.id # None <=> f.kind \in Request) /\ (f.kind \in Request => f.doc = None)
  /\ \A m \in Message : m.doc = None <=> m.id # None
  /\ \A m \in Message : m.id # None => m.id \in Id
BY DEF Frame, Message, Request, Kind

LEMMA RequestsInit == Init => RequestsInv
BY DEF Init, RequestsInv, AskedInOrder, AnswersAreAsked

LEMMA SendRequests ==
  ASSUME TypeOK, RequestsInv, NEW f \in Frame, f.id = None, Send(f), UNCHANGED asked
  PROVE  RequestsInv'
<1>1. /\ inbox' = Append(inbox, f) /\ sent' = sent + 1 /\ editor = "up"
      /\ UNCHANGED <<reply, outbox, shutdown_requested, answered, asked>>
  BY DEF Send
<1>2. inbox \in Seq(Frame) /\ sent \in Nat
  BY DEF TypeOK
<1>3. AskedInOrder'
  <2>1. \A i \in DOMAIN inbox' : inbox'[i].id # None => i \in DOMAIN inbox /\ inbox'[i] = inbox[i]
    BY <1>1, <1>2, AppendFacts
  <2>2. \A g \in asked : g.kind \in Request /\ g.id \in 1 .. sent'
    BY <1>1, <1>2 DEF RequestsInv, AskedInOrder
  <2> QED BY <1>1, <2>1, <2>2 DEF RequestsInv, AskedInOrder
<1>4. AnswersAreAsked'
  BY <1>1 DEF RequestsInv, AnswersAreAsked
<1>5. ASSUME NEW g \in asked PROVE AnsweredOnce(g)'
  <2>1. g.id # None
    BY LspAssumption, NoneAssumption DEF RequestsInv, AskedInOrder, TypeOK, Id
  <2>2. Count(inbox', g.id) = Count(inbox, g.id)
    BY <1>1, <1>2, <2>1, CountAppend, CountsAreNumbers DEF One
  <2>3. Copies(g.id)' = Copies(g.id)
    BY <1>1, <2>2, CopiesSum, CopiesSumAfter
  <2> QED BY <1>1, <2>3 DEF RequestsInv, AnsweredOnce
<1> QED BY <1>1, <1>3, <1>4, <1>5 DEF RequestsInv

LEMMA NoneCounted ==
  ASSUME NEW S, NEW s \in Seq(S), NEW id, \A i \in DOMAIN s : s[i].id # id
  PROVE  Count(s, id) = 0
<1>1. {i \in DOMAIN s : s[i].id = id} = {}
  OBVIOUS
<1> QED BY <1>1, FS_EmptySet DEF Count

\* A new id is nowhere yet.
LEMMA AskRequests ==
  ASSUME TypeOK, RequestsInv, NEW method \in Request, Ask(method)
  PROVE  RequestsInv'
<1>3. PICK f \in Frame : f = NewFrame(method, None, None)
  BY NewFrameType DEF Ask, Send, Request, Kind
<1>1. /\ inbox' = Append(inbox, f) /\ sent' = sent + 1 /\ editor = "up" /\ sent < MaxFrames
      /\ UNCHANGED <<reply, outbox, shutdown_requested, answered>>
      /\ asked' = asked \cup {f}
  BY <1>3 DEF Ask, Send
<1>2. inbox \in Seq(Frame) /\ outbox \in Seq(Message) /\ sent \in Nat
  BY DEF TypeOK
<1>4. f.id = sent + 1 /\ f.kind = method /\ f.id # None
  BY <1>3, IdFields DEF NewFrame
<1>5. \A g \in asked : g.kind \in Request /\ g.id \in 1 .. sent /\ g.id # f.id /\ g.id < f.id
  BY <1>2, <1>4 DEF RequestsInv, AskedInOrder
<1>6. \A i \in DOMAIN inbox' : \/ i \in DOMAIN inbox /\ inbox'[i] = inbox[i]
                               \/ i = Len(inbox) + 1 /\ inbox'[i] = f
  <2>1. /\ DOMAIN inbox' = DOMAIN inbox \cup {Len(inbox) + 1}
        /\ \A i \in DOMAIN inbox : inbox'[i] = inbox[i]
        /\ inbox'[Len(inbox) + 1] = f
    BY <1>1, <1>2, AppendFacts
  <2> QED BY <2>1
<1>7. \A i \in DOMAIN inbox : i < Len(inbox) + 1
  BY <1>2
<1>8. AskedInOrder'
  <2>1. \A g \in asked' : g.kind \in Request /\ g.id \in 1 .. sent'
    BY <1>1, <1>2, <1>4, <1>5
  <2>2. \A g, h \in asked' : g.id = h.id => g = h
    BY <1>1, <1>5 DEF RequestsInv, AskedInOrder
  <2>3. \A i \in DOMAIN inbox' : inbox'[i].id # None => inbox'[i] \in asked'
    BY <1>1, <1>6 DEF RequestsInv, AskedInOrder
  <2>4. ASSUME NEW i \in DOMAIN inbox', NEW j \in DOMAIN inbox', i < j,
               inbox'[i].id # None, inbox'[j].id # None
        PROVE  inbox'[i].id < inbox'[j].id
    <3>1. i \in DOMAIN inbox /\ inbox'[i] = inbox[i]
      BY <1>2, <1>6, <1>7, <2>4
    <3>2. CASE j \in DOMAIN inbox /\ inbox'[j] = inbox[j]
      BY <2>4, <3>1, <3>2 DEF RequestsInv, AskedInOrder
    <3>3. CASE inbox'[j] = f
      <4>1. inbox[i] \in asked
        BY <2>4, <3>1 DEF RequestsInv, AskedInOrder
      <4> QED BY <1>5, <3>1, <3>3, <4>1
    <3> QED BY <1>6, <3>2, <3>3
  <2>5. ASSUME shutdown_requested'
        PROVE  \E g \in asked' : /\ g.kind = "shutdown"
                 /\ \A i \in DOMAIN inbox' : inbox'[i].id # None => g.id < inbox'[i].id
    <3>1. PICK g \in asked : /\ g.kind = "shutdown"
                             /\ \A i \in DOMAIN inbox : inbox[i].id # None => g.id < inbox[i].id
      BY <1>1, <2>5 DEF RequestsInv, AskedInOrder
    <3>2. \A i \in DOMAIN inbox' : inbox'[i].id # None => g.id < inbox'[i].id
      BY <1>5, <1>6, <3>1
    <3> QED BY <1>1, <3>1, <3>2
  <2> QED BY <2>1, <2>2, <2>3, <2>4, <2>5 DEF AskedInOrder
<1>9. AnswersAreAsked'
  BY <1>1 DEF RequestsInv, AnswersAreAsked
<1>10. ASSUME NEW g \in asked PROVE AnsweredOnce(g)'
  <2>1. Count(inbox', g.id) = Count(inbox, g.id)
    BY <1>1, <1>2, <1>3, <1>5, CountAppend, CountsAreNumbers DEF One
  <2>2. Copies(g.id)' = Copies(g.id)
    BY <1>1, <2>1, CopiesSum, CopiesSumAfter
  <2> QED BY <1>1, <2>2 DEF RequestsInv, AnsweredOnce
<1>11. Copies(f.id)' = 1
  <2>1. Count(inbox, f.id) = 0
    <3>1. \A i \in DOMAIN inbox : inbox[i].id # f.id
      BY <1>4, <1>5 DEF RequestsInv, AskedInOrder
    <3> QED BY <1>2, <3>1, NoneCounted
  <2>2. Count(outbox, f.id) = 0
    <3>1. ASSUME NEW i \in DOMAIN outbox PROVE outbox[i].id # f.id
      <4>1. outbox[i] \in Message
        BY <1>2
      <4>2. outbox[i].doc = None => \E g \in asked : g.id = outbox[i].id
        BY DEF RequestsInv, AnswersAreAsked
      <4> QED BY <1>4, <1>5, <4>1, <4>2, IdFields
    <3> QED BY <1>2, <3>1, NoneCounted
  <2>3. ~(reply # None /\ reply.id = f.id)
    <3>1. reply # None => reply \in Message
      BY DEF TypeOK
    <3> QED BY <1>4, <1>5, <3>1, IdFields DEF RequestsInv, AnswersAreAsked
  <2>4. f.id \notin answered
    BY <1>5 DEF RequestsInv, AnswersAreAsked
  <2>5. Count(inbox', f.id) = 1
    BY <1>1, <1>2, <1>3, <2>1, CountAppend DEF One
  <2>6. One(reply' # None /\ reply'.id = f.id) = 0 /\ One(f.id \in answered') = 0
    BY <1>1, <2>3, <2>4 DEF One
  <2> QED BY <1>1, <2>2, <2>5, <2>6, CopiesSumAfter
<1>12. AnsweredOnce(f)'
  BY <1>11 DEF AnsweredOnce
<1> QED BY <1>1, <1>8, <1>9, <1>10, <1>12 DEF RequestsInv

\* A request leaves the inbox for the reply, or is dropped because of a shutdown.
LEMMA HandleRequests ==
  ASSUME TypeOK, RequestsInv, Handle
  PROVE  RequestsInv'
<1>1. PICK f \in Frame : f = Head(inbox)
  BY TailFacts DEF Handle, TypeOK
<1>2. /\ inbox' = Tail(inbox) /\ inbox # <<>> /\ reply = None /\ reply' = Answer(f)
      /\ shutdown_requested' = (shutdown_requested \/ f.kind = "shutdown")
      /\ UNCHANGED <<outbox, world>>
  BY <1>1 DEF Handle
<1>3. inbox \in Seq(Frame) /\ inbox' \in Seq(Frame) /\ f = inbox[1] /\ 1 \in DOMAIN inbox
  BY <1>1, <1>2, TailFacts DEF TypeOK
<1>4. \A i \in DOMAIN inbox' : /\ i + 1 \in DOMAIN inbox /\ inbox'[i] = inbox[i + 1]
                               /\ i \in Nat /\ 1 < i + 1
  BY <1>2, <1>3, TailFacts
<1>5. asked' = asked /\ sent' = sent /\ answered' = answered /\ editor' = editor /\ outbox' = outbox
  BY <1>2 DEF world
<1>6. f.id # None => f \in asked /\ \A i \in DOMAIN inbox' : inbox'[i].id # None => f.id < inbox'[i].id
  BY <1>3, <1>4 DEF RequestsInv, AskedInOrder
<1>7. \/ reply' = None
      \/ reply' # None /\ reply'.doc # None /\ reply'.id = None
      \/ reply' # None /\ reply'.id = f.id /\ f.kind \in Request
  <2>1. CASE f.doc # None
    BY <1>2, <2>1, FrameFields, LspAssumption DEF Answer, AnswerDocument, Publish
  <2>2. CASE f.doc = None
    BY <1>2, <2>2, NoneAssumption DEF Answer, AnswerRequest, Respond, Request
  <2> QED BY <2>1, <2>2
<1>8. AskedInOrder'
  <2>1. \A i \in DOMAIN inbox' : inbox'[i].id # None => inbox'[i] \in asked'
    BY <1>4, <1>5 DEF RequestsInv, AskedInOrder
  <2>2. \A i, j \in DOMAIN inbox' :
          i < j /\ inbox'[i].id # None /\ inbox'[j].id # None => inbox'[i].id < inbox'[j].id
    BY <1>4 DEF RequestsInv, AskedInOrder
  <2>3. ASSUME shutdown_requested'
        PROVE  \E g \in asked' : /\ g.kind = "shutdown"
                 /\ \A i \in DOMAIN inbox' : inbox'[i].id # None => g.id < inbox'[i].id
    <3>1. CASE shutdown_requested
      <4>1. PICK g \in asked : /\ g.kind = "shutdown"
                               /\ \A i \in DOMAIN inbox : inbox[i].id # None => g.id < inbox[i].id
        BY <3>1 DEF RequestsInv, AskedInOrder
      <4> QED BY <1>4, <1>5, <4>1
    <3>2. CASE f.kind = "shutdown"
      BY <1>5, <1>6, <3>2, IdFields DEF Request
    <3> QED BY <1>2, <2>3, <3>1, <3>2
  <2> QED BY <1>5, <2>1, <2>2, <2>3 DEF RequestsInv, AskedInOrder
<1>9. AnswersAreAsked'
  BY <1>5, <1>6, <1>7, IdFields DEF RequestsInv, AnswersAreAsked
<1>10. ASSUME NEW g \in asked, AnsweredOnce(g) PROVE AnsweredOnce(g)'
  <2> g.id # None
    BY LspAssumption, NoneAssumption DEF RequestsInv, AskedInOrder, TypeOK, Id
  <2>1. Count(inbox, g.id) = Count(inbox', g.id) + One(f.id = g.id)
    BY <1>1, <1>2, <1>3, CountTail
  <2>2. /\ Count(inbox', g.id) \in Nat /\ Count(outbox, g.id) \in Nat
        /\ One(g.id \in answered) \in Nat
    BY <1>3, CountType, CountsAreNumbers DEF One
  <2>3. /\ Copies(g.id) = Count(inbox', g.id) + One(f.id = g.id) + Count(outbox, g.id)
                            + One(g.id \in answered)
        /\ Copies(g.id)' = Count(inbox', g.id) + Count(outbox, g.id)
                             + One(reply' # None /\ reply'.id = g.id) + One(g.id \in answered)
    <3>1. One(reply # None /\ reply.id = g.id) = 0
      BY <1>2 DEF One
    <3>2. One(f.id = g.id) \in Nat
      BY DEF One
    <3> QED BY <1>5, <2>1, <2>2, <3>1, <3>2, CopiesSum, CopiesSumAfter
  <2>4. CASE f.id # g.id
    <3>1. One(f.id = g.id) = 0 /\ One(reply' # None /\ reply'.id = g.id) = 0
      BY <1>7, <2>4 DEF One
    <3>2. Copies(g.id)' = Copies(g.id)
      BY <2>2, <2>3, <3>1
    <3> QED BY <1>5, <1>10, <3>2 DEF AnsweredOnce
  <2>5. CASE f.id = g.id
    <3>1. f = g /\ f.kind \in Request /\ f.doc = None
      BY <1>6, <2>5, IdFields DEF RequestsInv, AskedInOrder
    <3>2. One(f.id = g.id) = 1
      BY <2>5 DEF One
    <3>3. Copies(g.id) = 1
      BY <1>10, <2>2, <2>3, <3>2 DEF AnsweredOnce
    <3>4. CASE reply' # None /\ reply'.id = g.id
      <4>1. One(reply' # None /\ reply'.id = g.id) = 1
        BY <3>4 DEF One
      <4>2. Copies(g.id)' = 1
        BY <2>2, <2>3, <3>2, <3>3, <4>1
      <4> QED BY <4>2 DEF AnsweredOnce
    <3>5. CASE ~(reply' # None /\ reply'.id = g.id)
      <4>1. One(reply' # None /\ reply'.id = g.id) = 0
        BY <3>5 DEF One
      <4>2. Copies(g.id)' = 0
        BY <2>2, <2>3, <3>2, <3>3, <4>1
      <4>3. f.kind = "unknown" /\ shutdown_requested
        <5>1. f.id \in Id /\ Respond(f.id) # None
          BY <3>1, FrameFields, NoneAssumption, AnswerType DEF Respond, Message
        <5> QED BY <1>2, <3>1, <3>5, <5>1 DEF Answer, AnswerRequest, Request, Respond
      <4>4. \E h \in asked : h.kind = "shutdown" /\ h.id < f.id
        BY <1>3, <2>5, <4>3 DEF RequestsInv, AskedInOrder
      <4> QED BY <1>5, <3>1, <4>2, <4>3, <4>4 DEF AnsweredOnce
    <3> QED BY <3>4, <3>5
  <2> QED BY <2>4, <2>5
<1> QED BY <1>5, <1>8, <1>9, <1>10 DEF RequestsInv

LEMMA WriteRequests ==
  ASSUME TypeOK, RequestsInv, Write
  PROVE  RequestsInv'
<1>1. /\ reply \in Message /\ reply # None /\ reply' = None
      /\ UNCHANGED <<inbox, asked, sent, answered, editor, shutdown_requested>>
      /\ (editor = "gone" /\ outbox' = outbox) \/ outbox' = Append(outbox, reply)
  BY DEF Write, TypeOK, world
<1>2. outbox \in Seq(Message)
  BY DEF TypeOK
<1>3. AskedInOrder'
  BY <1>1 DEF RequestsInv, AskedInOrder
<1>4. AnswersAreAsked'
  <2>1. CASE outbox' = outbox
    BY <1>1, <2>1 DEF RequestsInv, AnswersAreAsked
  <2>2. CASE outbox' = Append(outbox, reply)
    <3>1. \A i \in DOMAIN outbox' : outbox'[i] = reply \/ (i \in DOMAIN outbox /\ outbox'[i] = outbox[i])
      BY <1>1, <1>2, <2>2, AppendFacts
    <3> QED BY <1>1, <3>1 DEF RequestsInv, AnswersAreAsked
  <2> QED BY <1>1, <2>1, <2>2
<1>5. ASSUME editor # "gone", NEW g \in asked, AnsweredOnce(g) PROVE AnsweredOnce(g)'
  <2>1. Count(outbox', g.id) = Count(outbox, g.id) + One(reply.id = g.id)
    <3>1. outbox' = Append(outbox, reply)
      BY <1>1, <1>5
    <3> QED BY <1>1, <1>2, <3>1, CountAppend
  <2>2. /\ One(reply # None /\ reply.id = g.id) = One(reply.id = g.id)
        /\ One(reply' # None /\ reply'.id = g.id) = 0
        /\ One(reply.id = g.id) \in Nat /\ One(g.id \in answered) \in Nat
    BY <1>1 DEF One
  <2>3. Copies(g.id)' = Copies(g.id)
    BY <1>1, <2>1, <2>2, CopiesSum, CopiesSumAfter, CountsAreNumbers
  <2> QED BY <1>1, <1>5, <2>3 DEF AnsweredOnce
<1> QED BY <1>1, <1>3, <1>4, <1>5 DEF RequestsInv

\* A response is received once: a copy in the pipe leaves no room for another.
LEMMA ReceiveRequests ==
  ASSUME TypeOK, RequestsInv, Receive
  PROVE  RequestsInv'
<1>1. PICK m \in Message : m = Head(outbox)
  BY TailFacts DEF Receive, TypeOK
<1>2. /\ outbox # <<>> /\ outbox' = Tail(outbox) /\ editor # "gone"
      /\ answered' = IF m.doc # None THEN answered ELSE answered \cup {m.id}
      /\ UNCHANGED <<inbox, reply, asked, sent, editor, shutdown_requested>>
  BY <1>1 DEF Receive
<1>3. /\ outbox \in Seq(Message) /\ outbox' \in Seq(Message) /\ m = outbox[1] /\ 1 \in DOMAIN outbox
      /\ \A i \in DOMAIN outbox' : i + 1 \in DOMAIN outbox /\ outbox'[i] = outbox[i + 1]
  BY <1>1, <1>2, TailFacts DEF TypeOK
<1>4. AskedInOrder'
  BY <1>2 DEF RequestsInv, AskedInOrder
<1>5. AnswersAreAsked'
  BY <1>2, <1>3 DEF RequestsInv, AnswersAreAsked
<1>6. ASSUME NEW g \in asked, AnsweredOnce(g) PROVE AnsweredOnce(g)'
  <2> g.id # None
    BY LspAssumption, NoneAssumption DEF RequestsInv, AskedInOrder, TypeOK, Id
  <2>1. Count(outbox, g.id) = Count(outbox', g.id) + One(m.id = g.id)
    BY <1>1, <1>2, <1>3, CountTail
  <2>2. /\ Count(outbox', g.id) \in Nat /\ Count(inbox, g.id) \in Nat
        /\ One(reply # None /\ reply.id = g.id) \in Nat
    BY <1>3, CountType, CountsAreNumbers DEF One
  <2>3. /\ Copies(g.id) = Count(inbox, g.id) + Count(outbox', g.id) + One(m.id = g.id)
                            + One(reply # None /\ reply.id = g.id) + One(g.id \in answered)
        /\ Copies(g.id)' = Count(inbox, g.id) + Count(outbox', g.id)
                             + One(reply # None /\ reply.id = g.id) + One(g.id \in answered')
    <3>1. One(m.id = g.id) \in Nat /\ One(g.id \in answered) \in Nat
      BY DEF One
    <3> QED BY <1>2, <2>1, <2>2, <3>1, CopiesSum, CopiesSumAfter
  <2>4. CASE m.id # g.id
    <3>1. One(m.id = g.id) = 0 /\ One(g.id \in answered') = One(g.id \in answered)
      BY <1>2, <2>4 DEF One
    <3>2. One(g.id \in answered) \in Nat
      BY DEF One
    <3>3. Copies(g.id)' = Copies(g.id)
      BY <2>2, <2>3, <3>1, <3>2
    <3> QED BY <1>2, <1>6, <3>3 DEF AnsweredOnce
  <2>5. CASE m.id = g.id
    <3>1. One(m.id = g.id) = 1 /\ One(g.id \in answered') = 1
      BY <1>2, <2>5, IdFields DEF One
    <3>2. One(g.id \in answered) \in Nat
      BY DEF One
    <3>3. Copies(g.id) = 1
      BY <1>6, <2>2, <2>3, <3>1, <3>2 DEF AnsweredOnce
    <3>4. Copies(g.id)' = 1
      BY <2>2, <2>3, <3>1, <3>2, <3>3
    <3> QED BY <3>4 DEF AnsweredOnce
  <2> QED BY <2>4, <2>5
<1> QED BY <1>2, <1>4, <1>5, <1>6 DEF RequestsInv

\* A step that leaves the queues and the requests alone.
LEMMA OtherRequests ==
  ASSUME RequestsInv, UNCHANGED <<inbox, reply, outbox, asked, sent, answered, shutdown_requested>>,
         editor' # "gone" => editor # "gone"
  PROVE  RequestsInv'
<1>1. AskedInOrder' /\ AnswersAreAsked'
  BY DEF RequestsInv, AskedInOrder, AnswersAreAsked
<1>2. ASSUME NEW g \in asked, AnsweredOnce(g) PROVE AnsweredOnce(g)'
  BY <1>2 DEF AnsweredOnce, Copies
<1> QED BY <1>1, <1>2 DEF RequestsInv

LEMMA RequestsStep == TypeOK /\ RequestsInv /\ [Next]_vars => RequestsInv'
<1> SUFFICES ASSUME TypeOK, RequestsInv, [Next]_vars PROVE RequestsInv'
  OBVIOUS
<1>1. CASE Handle
  BY <1>1, HandleRequests
<1>2. CASE Write
  BY <1>2, WriteRequests
<1>3. CASE Receive
  BY <1>3, ReceiveRequests
<1>4. ASSUME NEW method \in Request, Ask(method) PROVE RequestsInv'
  BY <1>4, AskRequests
<1>5. ASSUME NEW kind \in Kind \ Request, NEW d \in Doc \cup {None},
             NEW text \in Content \cup {None}, kind = "didOpen" => text # None,
             d # None <=> kind \in {"didOpen", "didSave", "didClose"},
             Send(NewFrame(kind, d, text)), UNCHANGED asked
      PROVE  RequestsInv'
  <2>1. NewFrame(kind, d, text) \in Frame /\ NewFrame(kind, d, text).id = None
    <3>1. sent < MaxFrames
      BY <1>5 DEF Send
    <3> QED BY <1>5, <3>1, NewFrameType DEF NewFrame
  <2> QED BY <1>5, <2>1, SendRequests
<1>6. ASSUME NEW d \in Doc, Close(d) PROVE RequestsInv'
  BY <1>5, <1>6, LspAssumption DEF Close, Kind, Request
<1>7. ASSUME NEW d \in Doc, NEW text \in Content, Open(d, text) \/ Save(d, text) PROVE RequestsInv'
  BY <1>5, <1>7, LspAssumption DEF Open, Save, Kind, Request
<1>8. ASSUME NEW kind \in {"skipped", "unframed"}, Noise(kind) PROVE RequestsInv'
  BY <1>5, <1>8 DEF Noise, Kind, Request
<1>9. CASE Exit
  BY <1>5, <1>9 DEF Exit, Kind, Request
<1>10. CASE EndOfInput \/ Vanish \/ UNCHANGED vars
  BY <1>10, OtherRequests DEF EndOfInput, Vanish, vars, world
<1>11. ASSUME NEW d \in FileDoc, NEW text \in Content \cup {None}, Touch(d, text) PROVE RequestsInv'
  BY <1>11, OtherRequests DEF Touch
<1> QED BY <1>1, <1>2, <1>3, <1>4, <1>6, <1>7, <1>8, <1>9, <1>10, <1>11 DEF Next, Server, Editor

\* However requests, documents, shutdown and answers interleave, while the editor lives
\* each request is on its way, being answered, or answered, in one copy; only one for an
\* unknown method after shutdown may be dropped.
THEOREM EveryRequestIsAnsweredOnce == Spec => []RequestsAnsweredOnce
<1>1. Init => TypeOK /\ RequestsInv
  BY TypeInit, RequestsInit
<1>2. TypeOK /\ RequestsInv /\ [Next]_vars => (TypeOK /\ RequestsInv)'
  BY TypeStep, RequestsStep
<1>3. RequestsInv => RequestsAnsweredOnce
  BY DEF RequestsInv, RequestsAnsweredOnce, AnsweredOnce, AnswersAreAsked
<1> QED BY <1>1, <1>2, <1>3, PTL DEF Spec
=============================================================================
