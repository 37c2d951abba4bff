-------------------------- MODULE ChatWindow_proofs ---------------------------
(***************************************************************************)
(* Proofs that answers stand behind their questions and that late ones are *)
(* dropped, for any number of conversations and messages.                  *)
(***************************************************************************)
EXTENDS ChatWindow, TLAPS

-----------------------------------------------------------------------------
(***************************************************************************)
(* The inductive invariant.                                                *)
(***************************************************************************)

Message == [id : Nat, role : {"user", "assistant"}, model : Models \union {Null}]

\* A conversation has messages; of the other fields only that they exist.
IsConversation(conv) ==
  /\ conv = [folder |-> conv.folder, title |-> conv.title, model |-> conv.model, msgs |-> conv.msgs,
             pinned |-> conv.pinned, archived |-> conv.archived, tags |-> conv.tags]
  /\ conv.msgs \in Seq(Message)
  /\ conv.model \in Models \union {Null}

IsChat(s) ==
  /\ s = [convs |-> s.convs, folders |-> s.folders, active |-> s.active, error |-> s.error]
  /\ s.convs = [c \in DOMAIN s.convs |-> s.convs[c]]
  /\ \A c \in DOMAIN s.convs : IsConversation(s.convs[c])

\* A sequence of messages in which each answer is where it belongs.
Answered(msgs, asked) ==
  \A i \in DOMAIN msgs :
    msgs[i].role = "assistant" =>
      /\ i > 1
      /\ msgs[i - 1].role = "user"
      /\ msgs[i].model = asked[msgs[i - 1].id]

\* It ends with a question to the given model.
Asks(msgs, asked, model) ==
  /\ msgs # <<>>
  /\ msgs[Len(msgs)].role = "user"
  /\ asked[msgs[Len(msgs)].id] = model

\* The ids of messages were issued, and a model is on record for each question.
Recorded(msgs) ==
  \A i \in DOMAIN msgs :
    /\ msgs[i].id <= messageIds
    /\ msgs[i].role = "user" => msgs[i].id \in DOMAIN modelAsked

TypesOK ==
  /\ IsChat(chat)
  /\ convIds \in Nat /\ messageIds \in Nat
  /\ \A c \in Conversations : c \in Nat /\ c <= convIds /\ Recorded(chat.convs[c].msgs)
  /\ \A r \in responses : r.conv \in Nat /\ r.conv <= convIds /\ r.model \in Models

\* Only one answer is awaited at a time, and as long as its conversation is
\* there, its question is the last message.
AwaitedOK ==
  /\ \A r, q \in responses : r = q
  /\ responses # {} => isResponding
  /\ \A r \in responses : r.conv \in Conversations =>
       Asks(chat.convs[r.conv].msgs, modelAsked, r.model)

WInv == TypesOK /\ AwaitedOK /\ AnswersFollowQuestions

LEMMA AnsweredEverywhere ==
  AnswersFollowQuestions <=> \A c \in Conversations : Answered(chat.convs[c].msgs, modelAsked)
BY DEF AnswersFollowQuestions, Answered

-----------------------------------------------------------------------------
(***************************************************************************)
(* Sequences of messages.                                                  *)
(***************************************************************************)

LEMMA MessageTyped ==
  ASSUME NEW msgs \in Seq(Message), NEW i \in DOMAIN msgs
  PROVE  msgs[i].id \in Nat
<1>1. msgs[i] \in Message
  OBVIOUS
<1> QED BY <1>1 DEF Message

\* The record of a new question says nothing new about the messages there are.
LEMMA RecordKept ==
  ASSUME NEW msgs \in Seq(Message), NEW asked, NEW id, NEW model, Answered(msgs, asked),
         \A i \in DOMAIN msgs : msgs[i].role = "user" => msgs[i].id \in DOMAIN asked /\ msgs[i].id # id
  PROVE  Answered(msgs, Update(asked, id, model))
<1> SUFFICES ASSUME NEW i \in DOMAIN msgs, msgs[i].role = "assistant"
             PROVE  i > 1 /\ msgs[i - 1].role = "user"
                    /\ msgs[i].model = Update(asked, id, model)[msgs[i - 1].id]
  BY DEF Answered
<1>1. i > 1 /\ msgs[i - 1].role = "user" /\ msgs[i].model = asked[msgs[i - 1].id]
  BY DEF Answered
<1>2. i - 1 \in DOMAIN msgs
  BY <1>1
<1>3. msgs[i - 1].id \in DOMAIN asked /\ msgs[i - 1].id # id
  BY <1>1, <1>2
<1> QED BY <1>1, <1>3 DEF Update

\* Appending a question, or the answer to the question at the end.
LEMMA AppendAnswered ==
  ASSUME NEW msgs \in Seq(Message), NEW m \in Message, NEW asked, Answered(msgs, asked),
         m.role = "assistant" => Asks(msgs, asked, m.model)
  PROVE  Answered(Append(msgs, m), asked)
<1>1. /\ Len(msgs) \in Nat /\ DOMAIN msgs = 1..Len(msgs) /\ DOMAIN Append(msgs, m) = 1..(Len(msgs) + 1)
      /\ Append(msgs, m)[Len(msgs) + 1] = m
      /\ \A i \in DOMAIN msgs : Append(msgs, m)[i] = msgs[i]
  OBVIOUS
<1>2. SUFFICES ASSUME NEW i \in 1..(Len(msgs) + 1), Append(msgs, m)[i].role = "assistant"
               PROVE  i > 1 /\ Append(msgs, m)[i - 1].role = "user"
                      /\ Append(msgs, m)[i].model = asked[Append(msgs, m)[i - 1].id]
  BY <1>1 DEF Answered
<1>3. CASE i \in 1..Len(msgs)
  <2>1. i \in DOMAIN msgs /\ msgs[i].role = "assistant" /\ Append(msgs, m)[i] = msgs[i]
    BY <1>1, <1>2, <1>3
  <2>2. i > 1 /\ msgs[i - 1].role = "user" /\ msgs[i].model = asked[msgs[i - 1].id]
    BY <2>1 DEF Answered
  <2>3. i - 1 \in DOMAIN msgs
    BY <1>1, <2>1, <2>2
  <2> QED BY <1>1, <2>1, <2>2, <2>3
<1>4. CASE i = Len(msgs) + 1
  <2>1. Asks(msgs, asked, m.model) /\ Append(msgs, m)[i] = m
    BY <1>1, <1>2, <1>4
  <2>2. Len(msgs) \in DOMAIN msgs /\ i - 1 = Len(msgs) /\ i > 1
    BY <1>1, <1>4, <2>1 DEF Asks
  <2>3. Append(msgs, m)[i - 1] = msgs[Len(msgs)]
    BY <1>1, <2>2
  <2> QED BY <2>1, <2>2, <2>3 DEF Asks
<1> QED BY <1>1, <1>2, <1>3, <1>4

-----------------------------------------------------------------------------
(***************************************************************************)
(* What the reducer does to the conversations.                             *)
(***************************************************************************)

LEMMA WithTitle ==
  ASSUME NEW conv, IsConversation(conv), NEW title
  PROVE  IsConversation([conv EXCEPT !.title = title]) /\ [conv EXCEPT !.title = title].msgs = conv.msgs
<1> DEFINE new == [conv EXCEPT !.title = title]
<1>1. new = [folder |-> conv.folder, title |-> title, model |-> conv.model, msgs |-> conv.msgs,
             pinned |-> conv.pinned, archived |-> conv.archived, tags |-> conv.tags]
  BY DEF IsConversation
<1> HIDE DEF new
<1>2. IsConversation(new) /\ new.msgs = conv.msgs
  BY <1>1 DEF IsConversation
<1> QED BY <1>2 DEF new

LEMMA WithModel ==
  ASSUME NEW conv, IsConversation(conv), NEW model \in Models \union {Null}
  PROVE  IsConversation([conv EXCEPT !.model = model]) /\ [conv EXCEPT !.model = model].msgs = conv.msgs
<1> DEFINE new == [conv EXCEPT !.model = model]
<1>1. new = [folder |-> conv.folder, title |-> conv.title, model |-> model, msgs |-> conv.msgs,
             pinned |-> conv.pinned, archived |-> conv.archived, tags |-> conv.tags]
  BY DEF IsConversation
<1> HIDE DEF new
<1>2. IsConversation(new) /\ new.msgs = conv.msgs
  BY <1>1 DEF IsConversation
<1> QED BY <1>2 DEF new

LEMMA WithMessages ==
  ASSUME NEW conv, IsConversation(conv), NEW msgs \in Seq(Message)
  PROVE  IsConversation([conv EXCEPT !.msgs = msgs]) /\ [conv EXCEPT !.msgs = msgs].msgs = msgs
<1> DEFINE new == [conv EXCEPT !.msgs = msgs]
<1>1. new = [folder |-> conv.folder, title |-> conv.title, model |-> conv.model, msgs |-> msgs,
             pinned |-> conv.pinned, archived |-> conv.archived, tags |-> conv.tags]
  BY DEF IsConversation
<1> HIDE DEF new
<1>2. IsConversation(new) /\ new.msgs = msgs
  BY <1>1 DEF IsConversation
<1> QED BY <1>2 DEF new

LEMMA WithConversation ==
  ASSUME NEW s, IsChat(s), NEW c \in DOMAIN s.convs, NEW conv, IsConversation(conv)
  PROVE  LET t == [s EXCEPT !.convs = [s.convs EXCEPT ![c] = conv]] IN
         /\ IsChat(t) /\ DOMAIN t.convs = DOMAIN s.convs
         /\ t.convs[c] = conv
         /\ \A d \in DOMAIN s.convs \ {c} : t.convs[d] = s.convs[d]
<1> DEFINE convs == [s.convs EXCEPT ![c] = conv]
           t == [s EXCEPT !.convs = convs]
<1>1. /\ DOMAIN convs = DOMAIN s.convs /\ convs[c] = conv
      /\ \A d \in DOMAIN s.convs \ {c} : convs[d] = s.convs[d]
      /\ convs = [d \in DOMAIN convs |-> convs[d]]
  OBVIOUS
<1>2. \A d \in DOMAIN convs : IsConversation(convs[d])
  BY <1>1 DEF IsChat
<1> HIDE DEF convs
<1>3. t.convs = convs /\ t = [convs |-> t.convs, folders |-> t.folders, active |-> t.active, error |-> t.error]
  BY DEF IsChat
<1>4. IsChat(t)
  BY <1>1, <1>2, <1>3 DEF IsChat
<1> QED BY <1>1, <1>3, <1>4 DEF convs

LEMMA AddMessageDoes ==
  ASSUME NEW s, IsChat(s), NEW c \in DOMAIN s.convs, NEW m \in Message
  PROVE  LET t == AddMessage(s, c, m) IN
         /\ IsChat(t) /\ DOMAIN t.convs = DOMAIN s.convs
         /\ t.convs[c].msgs = Append(s.convs[c].msgs, m)
         /\ \A d \in DOMAIN s.convs \ {c} : t.convs[d] = s.convs[d]
<1> DEFINE title == IF s.convs[c].msgs = <<>> /\ m.role = "user" THEN "auto" ELSE s.convs[c].title
           msgs == Append(s.convs[c].msgs, m)
           longer == [s.convs[c] EXCEPT !.msgs = msgs]
           conv == [longer EXCEPT !.title = title]
<1>1. AddMessage(s, c, m) = [s EXCEPT !.convs = [s.convs EXCEPT ![c] = conv]]
  BY DEF AddMessage, IsChat, IsConversation
<1>2. IsConversation(s.convs[c])
  BY DEF IsChat
<1>3. msgs \in Seq(Message)
  BY <1>2 DEF IsConversation
<1> HIDE DEF msgs, title
<1>4. IsConversation(longer) /\ longer.msgs = msgs
  BY <1>2, <1>3, WithMessages
<1> HIDE DEF longer
<1>5. IsConversation(conv) /\ conv.msgs = msgs
  BY <1>4, WithTitle
<1> HIDE DEF conv
<1> QED BY <1>1, <1>5, WithConversation DEF msgs

\* A message for a conversation that is gone.
LEMMA AddMessageDropped ==
  ASSUME NEW s, IsChat(s), NEW c, c \notin DOMAIN s.convs, NEW m
  PROVE  IsChat(AddMessage(s, c, m)) /\ AddMessage(s, c, m).convs = s.convs
BY DEF AddMessage, IsChat

\* The actions that leave messages alone.
LEMMA OthersDo ==
  ASSUME NEW s, IsChat(s), NEW c, NEW x, x \in Models \union {Null} \/ x = "user", NEW t,
         \/ t = SetActiveConversation(s, c)
         \/ t = SetTitle(s, c, x)
         \/ x \in Models \union {Null} /\ t = SetModel(s, c, x)
         \/ t = DeleteConversation(s, c)
  PROVE  /\ IsChat(t) /\ DOMAIN t.convs \subseteq DOMAIN s.convs
         /\ \A d \in DOMAIN t.convs : t.convs[d].msgs = s.convs[d].msgs
<1>1. CASE t = SetActiveConversation(s, c)
  BY <1>1 DEF SetActiveConversation, IsChat
<1>5. CASE c \notin DOMAIN s.convs
  BY <1>5, <1>1 DEF SetTitle, SetModel, DeleteConversation
<1>2. CASE c \in DOMAIN s.convs /\ t = SetTitle(s, c, x)
  <2> DEFINE conv == [s.convs[c] EXCEPT !.title = x]
  <2>1. t = [s EXCEPT !.convs = [s.convs EXCEPT ![c] = conv]]
    BY <1>2 DEF SetTitle
  <2>2. IsConversation(s.convs[c])
    BY <1>2 DEF IsChat
  <2>3. IsConversation(conv) /\ conv.msgs = s.convs[c].msgs
    BY <2>2, WithTitle
  <2> HIDE DEF conv
  <2> QED BY <1>2, <2>1, <2>3, WithConversation
<1>3. CASE c \in DOMAIN s.convs /\ x \in Models \union {Null} /\ t = SetModel(s, c, x)
  <2> DEFINE conv == [s.convs[c] EXCEPT !.model = x]
  <2>1. t = [s EXCEPT !.convs = [s.convs EXCEPT ![c] = conv]]
    BY <1>3 DEF SetModel
  <2>2. IsConversation(s.convs[c])
    BY <1>3 DEF IsChat
  <2>3. IsConversation(conv) /\ conv.msgs = s.convs[c].msgs
    BY <1>3, <2>2, WithModel
  <2> HIDE DEF conv
  <2> QED BY <1>3, <2>1, <2>3, WithConversation
<1>4. CASE t = DeleteConversation(s, c)
  BY <1>4 DEF DeleteConversation, Restrict, IsChat
<1> QED BY <1>1, <1>2, <1>3, <1>4, <1>5

LEMMA CreateConversationDoes ==
  ASSUME NEW s, IsChat(s), NEW c, c \notin DOMAIN s.convs, NEW conv, IsConversation(conv)
  PROVE  LET t == CreateConversation(s, c, conv) IN
         /\ IsChat(t) /\ DOMAIN t.convs = DOMAIN s.convs \union {c}
         /\ t.convs[c] = conv
         /\ \A d \in DOMAIN s.convs : t.convs[d] = s.convs[d]
BY DEF CreateConversation, Update, IsChat

-----------------------------------------------------------------------------
(***************************************************************************)
(* The invariant holds at first and is kept by each action.                *)
(***************************************************************************)

LEMMA InitWInv == Init => WInv
BY DEF Init, WInv, TypesOK, AwaitedOK, AnswersFollowQuestions, IsChat, initialState, Conversations

\* A step that keeps messages and records: conversations come from old ones,
\* under their own id or one issued in this step.
LEMMA MessagesKept ==
  ASSUME WInv, IsChat(chat)', convIds' \in Nat, convIds <= convIds',
         UNCHANGED <<messageIds, modelAsked>>, responses' \subseteq responses,
         responses' # {} => isResponding',
         \A c \in Conversations' :
           \/ c \in Conversations /\ chat'.convs[c].msgs = chat.convs[c].msgs
           \/ /\ c = convIds' /\ convIds < convIds'
              /\ \/ chat'.convs[c].msgs = <<>>
                 \/ \E d \in Conversations : chat'.convs[c].msgs = chat.convs[d].msgs
  PROVE  WInv'
<1>1. \A c \in Conversations' : /\ c \in Nat /\ c <= convIds'
                                /\ Recorded(chat.convs[c].msgs)'
                                /\ Answered(chat.convs[c].msgs, modelAsked)'
  <2> SUFFICES ASSUME NEW c \in Conversations'
               PROVE  /\ c \in Nat /\ c <= convIds'
                      /\ Recorded(chat.convs[c].msgs)'
                      /\ Answered(chat.convs[c].msgs, modelAsked)'
    OBVIOUS
  <2>1. c \in Nat /\ c <= convIds'
    BY DEF WInv, TypesOK
  <2>2. CASE chat'.convs[c].msgs = <<>>
    BY <2>1, <2>2 DEF Recorded, Answered
  <2>3. CASE \E d \in Conversations : chat'.convs[c].msgs = chat.convs[d].msgs
    <3>1. PICK d \in Conversations : chat'.convs[c].msgs = chat.convs[d].msgs
      BY <2>3
    <3>2. Recorded(chat.convs[d].msgs) /\ Answered(chat.convs[d].msgs, modelAsked)
      BY AnsweredEverywhere DEF WInv, TypesOK
    <3> QED BY <2>1, <3>1, <3>2 DEF Recorded, Answered
  <2> QED BY <2>2, <2>3
<1>2. TypesOK'
  BY <1>1 DEF WInv, TypesOK
<1>3. AwaitedOK'
  <2>1. ASSUME NEW r \in responses', r.conv \in Conversations'
        PROVE  Asks(chat'.convs[r.conv].msgs, modelAsked', r.model)
    <3>1. r.conv \in Nat /\ r.conv <= convIds
      BY <2>1 DEF WInv, TypesOK
    <3>2. r.conv \in Conversations /\ chat'.convs[r.conv].msgs = chat.convs[r.conv].msgs
      BY <2>1, <3>1 DEF WInv, TypesOK
    <3> QED BY <2>1, <3>2 DEF WInv, AwaitedOK
  <2> QED BY <2>1 DEF WInv, AwaitedOK
<1>4. AnswersFollowQuestions'
  BY <1>1 DEF AnswersFollowQuestions, Answered
<1> QED BY <1>2, <1>3, <1>4 DEF WInv

LEMMA StepHandleSend == ASSUME WInv, HandleSend PROVE WInv'
<1> DEFINE c == chat.active
           m == [id |-> messageIds + 1, role |-> "user", model |-> Null]
           model == ModelOf(chat.active)
<1>1. /\ c \in Conversations /\ chat' = AddMessage(chat, c, m) /\ messageIds' = messageIds + 1
      /\ isResponding' /\ responses = {}
      /\ responses' = responses \union {[conv |-> c, model |-> model]}
      /\ modelAsked' = Update(modelAsked, messageIds + 1, model) /\ convIds' = convIds
  BY DEF HandleSend, WInv, AwaitedOK
<1>2. m \in Message /\ m.role = "user" /\ m.id = messageIds + 1 /\ messageIds \in Nat
  BY DEF Message, WInv, TypesOK
<1>3. model \in Models
  BY <1>1, WindowAssumption DEF WindowAssumption, ModelOf, WInv, TypesOK, IsChat, IsConversation, Conversations
<1> HIDE DEF c, m, model
<1>4. /\ IsChat(chat)' /\ Conversations' = Conversations
      /\ chat'.convs[c].msgs = Append(chat.convs[c].msgs, m)
      /\ \A d \in Conversations \ {c} : chat'.convs[d] = chat.convs[d]
  BY <1>1, <1>2, AddMessageDoes DEF WInv, TypesOK, Conversations
<1>5. \A d \in Conversations : /\ d \in Nat /\ d <= convIds /\ Recorded(chat.convs[d].msgs)
                               /\ chat.convs[d].msgs \in Seq(Message)
                               /\ Answered(chat.convs[d].msgs, modelAsked)
  BY AnsweredEverywhere DEF WInv, TypesOK, IsChat, IsConversation, Conversations
<1>6. \A d \in Conversations : Answered(chat.convs[d].msgs, modelAsked')
  <2> SUFFICES ASSUME NEW d \in Conversations PROVE Answered(chat.convs[d].msgs, modelAsked')
    OBVIOUS
  <2>1. \A i \in DOMAIN chat.convs[d].msgs :
          /\ chat.convs[d].msgs[i].id <= messageIds /\ chat.convs[d].msgs[i].id \in Nat
          /\ chat.convs[d].msgs[i].role = "user" => chat.convs[d].msgs[i].id \in DOMAIN modelAsked
    BY <1>5, MessageTyped DEF Recorded
  <2> QED BY <1>1, <1>2, <1>5, <2>1, RecordKept
<1>7. DOMAIN modelAsked' = DOMAIN modelAsked \union {messageIds + 1} /\ modelAsked'[messageIds + 1] = model
  BY <1>1 DEF Update
<1>8. \A d \in Conversations : Answered(chat'.convs[d].msgs, modelAsked')
  BY <1>1, <1>2, <1>4, <1>5, <1>6, AppendAnswered
<1>9. \A d \in Conversations : Recorded(chat.convs[d].msgs)'
  <2> SUFFICES ASSUME NEW d \in Conversations, NEW i \in DOMAIN chat'.convs[d].msgs
               PROVE  /\ chat'.convs[d].msgs[i].id <= messageIds'
                      /\ chat'.convs[d].msgs[i].role = "user" =>
                           chat'.convs[d].msgs[i].id \in DOMAIN modelAsked'
    BY DEF Recorded
  <2>1. CASE i \in DOMAIN chat.convs[d].msgs /\ chat'.convs[d].msgs[i] = chat.convs[d].msgs[i]
    <3>1. chat.convs[d].msgs[i].id \in Nat
      BY <1>5, <2>1, MessageTyped
    <3> QED BY <1>1, <1>2, <1>5, <1>7, <2>1, <3>1 DEF Recorded
  <2>2. CASE d = c /\ i = Len(chat.convs[c].msgs) + 1
    BY <1>1, <1>2, <1>4, <1>5, <1>7, <2>2
  <2>3. d # c \/ i \in DOMAIN chat.convs[c].msgs \/ i = Len(chat.convs[c].msgs) + 1
    BY <1>4, <1>5
  <2>4. i \in DOMAIN chat.convs[c].msgs /\ d = c => chat'.convs[d].msgs[i] = chat.convs[d].msgs[i]
    BY <1>4, <1>5
  <2> QED BY <1>4, <2>1, <2>2, <2>3, <2>4
<1>10. Asks(chat'.convs[c].msgs, modelAsked', model)
  <2> DEFINE old == chat.convs[c].msgs
             new == chat'.convs[c].msgs
  <2>1. old \in Seq(Message) /\ Len(old) \in Nat
    BY <1>1, <1>5
  <2>2. Len(new) = Len(old) + 1 /\ new[Len(old) + 1] = m
    BY <1>2, <1>4, <2>1
  <2> HIDE DEF old, new
  <2>3. new # <<>> /\ new[Len(new)] = m
    BY <2>1, <2>2
  <2>4. Asks(new, modelAsked', model)
    BY <1>2, <1>7, <2>3 DEF Asks
  <2> QED BY <2>4 DEF new
<1>11. \A r \in responses' : r.conv = c /\ r.model = model /\ r = [conv |-> c, model |-> model]
  BY <1>1
<1>12. TypesOK'
  BY <1>1, <1>2, <1>3, <1>4, <1>5, <1>9, <1>11 DEF WInv, TypesOK
<1>13. AwaitedOK'
  BY <1>1, <1>10, <1>11 DEF AwaitedOK
<1>14. AnswersFollowQuestions'
  BY <1>4, <1>8 DEF AnswersFollowQuestions, Answered
<1> QED BY <1>12, <1>13, <1>14 DEF WInv

\* An index of a list with one more message is an old one or the new one.
LEMMA AppendIndex ==
  ASSUME NEW msgs \in Seq(Message), NEW m \in Message, NEW i \in DOMAIN Append(msgs, m)
  PROVE  \/ i \in DOMAIN msgs /\ Append(msgs, m)[i] = msgs[i]
         \/ i = Len(msgs) + 1 /\ Append(msgs, m)[i] = m
OBVIOUS

LEMMA StepReceive == ASSUME WInv, NEW r \in responses, Receive(r) PROVE WInv'
<1> DEFINE m == [id |-> messageIds + 1, role |-> "assistant", model |-> r.model]
<1>1. /\ chat' = AddMessage(chat, r.conv, m) /\ messageIds' = messageIds + 1
      /\ responses' = {} /\ UNCHANGED <<convIds, modelAsked>>
  BY DEF Receive, WInv, AwaitedOK
<1>2. m \in Message /\ m.role = "assistant" /\ m.id = messageIds + 1 /\ m.model = r.model
      /\ messageIds \in Nat
  BY DEF Message, WInv, TypesOK
<1> HIDE DEF m
<1>3. \A d \in Conversations : /\ d \in Nat /\ d <= convIds /\ Recorded(chat.convs[d].msgs)
                               /\ chat.convs[d].msgs \in Seq(Message)
                               /\ Answered(chat.convs[d].msgs, modelAsked)
  BY AnsweredEverywhere DEF WInv, TypesOK, IsChat, IsConversation, Conversations
<1>4. \A d \in Conversations : \A i \in DOMAIN chat.convs[d].msgs :
        /\ chat.convs[d].msgs[i].id <= messageIds'
        /\ chat.convs[d].msgs[i].role = "user" => chat.convs[d].msgs[i].id \in DOMAIN modelAsked'
  <2> SUFFICES ASSUME NEW d \in Conversations, NEW i \in DOMAIN chat.convs[d].msgs
               PROVE  /\ chat.convs[d].msgs[i].id <= messageIds'
                      /\ chat.convs[d].msgs[i].role = "user" => chat.convs[d].msgs[i].id \in DOMAIN modelAsked'
    OBVIOUS
  <2>1. chat.convs[d].msgs[i].id \in Nat
    BY <1>3, MessageTyped
  <2> QED BY <1>1, <1>2, <1>3, <2>1 DEF Recorded
<1>5. AwaitedOK'
  BY <1>1 DEF AwaitedOK
<1>6. CASE r.conv \notin Conversations
  <2>1. IsChat(chat)' /\ chat'.convs = chat.convs /\ Conversations' = Conversations
    BY <1>1, <1>6, AddMessageDropped DEF WInv, TypesOK, Conversations
  <2>2. \A d \in Conversations : Recorded(chat.convs[d].msgs)'
    BY <1>4, <2>1 DEF Recorded
  <2>3. TypesOK'
    BY <1>1, <1>2, <1>3, <2>1, <2>2 DEF WInv, TypesOK
  <2>4. AnswersFollowQuestions'
    BY <1>1, <2>1 DEF WInv, AnswersFollowQuestions
  <2> QED BY <1>5, <2>3, <2>4 DEF WInv
<1>7. CASE r.conv \in Conversations
  <2>1. /\ IsChat(chat)' /\ Conversations' = Conversations
        /\ chat'.convs[r.conv].msgs = Append(chat.convs[r.conv].msgs, m)
        /\ \A d \in Conversations \ {r.conv} : chat'.convs[d] = chat.convs[d]
    BY <1>1, <1>2, <1>7, AddMessageDoes DEF WInv, TypesOK, Conversations
  <2>2. Asks(chat.convs[r.conv].msgs, modelAsked, r.model)
    BY <1>7 DEF WInv, AwaitedOK
  <2>3. \A d \in Conversations : Answered(chat'.convs[d].msgs, modelAsked')
    BY <1>1, <1>2, <1>3, <2>1, <2>2, AppendAnswered
  <2>4. \A d \in Conversations : Recorded(chat.convs[d].msgs)'
    <3> SUFFICES ASSUME NEW d \in Conversations, NEW i \in DOMAIN chat'.convs[d].msgs
                 PROVE  /\ chat'.convs[d].msgs[i].id <= messageIds'
                        /\ chat'.convs[d].msgs[i].role = "user" =>
                             chat'.convs[d].msgs[i].id \in DOMAIN modelAsked'
      BY DEF Recorded
    <3>1. CASE i \in DOMAIN chat.convs[d].msgs /\ chat'.convs[d].msgs[i] = chat.convs[d].msgs[i]
      BY <1>4, <2>1, <3>1
    <3>2. CASE chat'.convs[d].msgs[i] = m
      BY <1>1, <1>2, <3>2
    <3>3. CASE d = r.conv
      <4>1. /\ chat.convs[d].msgs \in Seq(Message)
            /\ chat'.convs[d].msgs = Append(chat.convs[d].msgs, m)
        BY <1>3, <1>7, <2>1, <3>3
      <4> QED BY <1>2, <3>1, <3>2, <4>1, AppendIndex
    <3>4. CASE d # r.conv
      <4>1. chat'.convs[d] = chat.convs[d]
        BY <2>1, <3>4
      <4> QED BY <3>1, <4>1
    <3> QED BY <3>3, <3>4
  <2>5. TypesOK'
    BY <1>1, <1>2, <1>3, <2>1, <2>4 DEF WInv, TypesOK
  <2>6. AnswersFollowQuestions'
    BY <2>1, <2>3 DEF AnswersFollowQuestions, Answered
  <2> QED BY <1>5, <2>5, <2>6 DEF WInv
<1> QED BY <1>6, <1>7

LEMMA NewIsConversation == IsConversation(NewConversation(Null)) /\ NewConversation(Null).msgs = <<>>
BY DEF NewConversation, IsConversation

LEMMA StepCreate == ASSUME WInv, Create PROVE WInv'
<1>1. /\ convIds \in Nat /\ IsChat(chat) /\ convIds' = convIds + 1
      /\ chat' = CreateConversation(chat, convIds + 1, NewConversation(Null))
      /\ UNCHANGED <<messageIds, isResponding, responses, modelAsked>>
  BY DEF Create, WInv, TypesOK
<1>2. convIds + 1 \notin Conversations
  BY <1>1 DEF WInv, TypesOK
<1>3. /\ IsChat(chat)' /\ Conversations' = Conversations \union {convIds + 1}
      /\ chat'.convs[convIds + 1] = NewConversation(Null)
      /\ \A d \in Conversations : chat'.convs[d] = chat.convs[d]
  BY <1>1, <1>2, NewIsConversation, CreateConversationDoes DEF Conversations
<1> QED BY <1>1, <1>3, NewIsConversation, MessagesKept DEF WInv, AwaitedOK

LEMMA StepCutAndPaste == ASSUME WInv, CutAndPaste PROVE WInv'
<1>1. PICK c \in Conversations :
        chat' = DeleteConversation(CreateConversation(chat, convIds + 1, chat.convs[c]), c)
  BY DEF CutAndPaste
<1> DEFINE s == CreateConversation(chat, convIds + 1, chat.convs[c])
<1>2. /\ convIds \in Nat /\ IsChat(chat) /\ convIds' = convIds + 1
      /\ UNCHANGED <<messageIds, isResponding, responses, modelAsked>>
  BY DEF CutAndPaste, WInv, TypesOK
<1>3. convIds + 1 \notin Conversations /\ IsConversation(chat.convs[c])
  BY <1>2 DEF WInv, TypesOK, IsChat, Conversations
<1>4. /\ IsChat(s) /\ DOMAIN s.convs = Conversations \union {convIds + 1}
      /\ s.convs[convIds + 1] = chat.convs[c]
      /\ \A d \in Conversations : s.convs[d] = chat.convs[d]
  BY <1>2, <1>3, CreateConversationDoes DEF Conversations
<1>5. chat' = DeleteConversation(s, c)
  BY <1>1
<1> HIDE DEF s
<1>6. /\ IsChat(chat') /\ DOMAIN chat'.convs \subseteq DOMAIN s.convs
      /\ \A d \in DOMAIN chat'.convs : chat'.convs[d].msgs = s.convs[d].msgs
  BY <1>4, <1>5, OthersDo
<1>7. IsChat(chat)'
  BY <1>6 DEF IsChat, IsConversation
<1> QED BY <1>2, <1>4, <1>6, <1>7, MessagesKept DEF WInv, AwaitedOK, Conversations

LEMMA StepManage == ASSUME WInv, Manage PROVE WInv'
<1>1. /\ UNCHANGED <<convIds, messageIds, isResponding, responses, modelAsked>>
      /\ convIds \in Nat /\ IsChat(chat)
  BY DEF Manage, WInv, TypesOK
<1>2. PICK c \in Conversations, x \in Models \union {Null, "user"} :
               \/ chat' = SetActiveConversation(chat, c)
               \/ x = "user" /\ chat' = SetTitle(chat, c, x)
               \/ x \in Models /\ chat' = SetModel(chat, c, x)
               \/ chat' = DeleteConversation(chat, c)
  BY DEF Manage
<1>3. /\ IsChat(chat') /\ DOMAIN chat'.convs \subseteq DOMAIN chat.convs
      /\ \A d \in DOMAIN chat'.convs : chat'.convs[d].msgs = chat.convs[d].msgs
  BY <1>1, <1>2, OthersDo
<1>4. IsChat(chat)'
  BY <1>3 DEF IsChat, IsConversation
<1> QED BY <1>1, <1>3, <1>4, MessagesKept DEF WInv, AwaitedOK, Conversations

LEMMA StepReload == ASSUME WInv, Reload \/ UNCHANGED vars PROVE WInv'
<1>1. /\ UNCHANGED <<chat, convIds, messageIds, modelAsked>> /\ responses' \subseteq responses
      /\ responses' # {} => isResponding'
  BY DEF Reload, vars, WInv, AwaitedOK
<1>2. IsChat(chat)' /\ Conversations' = Conversations /\ convIds \in Nat
  BY <1>1 DEF WInv, TypesOK, Conversations, IsChat, IsConversation
<1> QED BY <1>1, <1>2, MessagesKept

LEMMA StepWInv == WInv /\ [Next]_vars => WInv'
BY StepHandleSend, StepReceive, StepCreate, StepCutAndPaste, StepManage, StepReload DEF Next

(***************************************************************************)
(* Whatever the user does while an answer is awaited, in every             *)
(* conversation each answer stands right behind its question and names the *)
(* model that was asked.                                                   *)
(***************************************************************************)
THEOREM AnswersInPlace == Spec => []AnswersFollowQuestions
<1>1. WInv => AnswersFollowQuestions
  BY DEF WInv
<1> QED BY <1>1, InitWInv, StepWInv, PTL DEF Spec

(***************************************************************************)
(* An answer whose conversation is gone when it arrives changes no         *)
(* conversation and selects none, for any number of conversations and      *)
(* messages and whatever was done during the await.                        *)
(***************************************************************************)
THEOREM LateAnswersDropped == Spec => LateAnswerDropped
<1> DEFINE Dropped ==
      \A r \in responses \ responses' :
        r.conv \notin Conversations => chat'.convs = chat.convs /\ chat'.active = chat.active
<1>1. ASSUME WInv, Next PROVE Dropped
  <2>1. CASE UNCHANGED responses
    BY <2>1
  <2>2. CASE HandleSend
    BY <2>2 DEF HandleSend
  <2>3. ASSUME NEW q \in responses, Receive(q) PROVE Dropped
    <3>1. responses' = responses \ {q}
      BY <2>3 DEF Receive
    <3>2. SUFFICES ASSUME q.conv \notin Conversations
                   PROVE  chat'.convs = chat.convs /\ chat'.active = chat.active
      BY <3>1
    <3>3. chat' = [chat EXCEPT !.error = TRUE]
      BY <2>3, <3>2 DEF Receive, AddMessage, Conversations
    <3>4. chat = [convs |-> chat.convs, folders |-> chat.folders, active |-> chat.active, error |-> chat.error]
      BY <1>1 DEF WInv, TypesOK, IsChat
    <3> QED BY <3>3, <3>4
  <2>4. CASE Create \/ CutAndPaste \/ Manage
    BY <2>1, <2>4 DEF Create, CutAndPaste, Manage
  <2>5. CASE Reload
    BY <2>5 DEF Reload
  <2> QED BY <1>1, <2>2, <2>3, <2>4, <2>5 DEF Next
<1>2. WInv /\ [Next]_vars => [Dropped]_vars
  BY <1>1
<1> QED BY <1>2, InitWInv, StepWInv, PTL DEF Spec, LateAnswerDropped

=============================================================================
