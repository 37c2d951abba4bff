----------------------------- MODULE ChatWindow -----------------------------
(***************************************************************************)
(* Sending a message, ChatWindow.tsx: handleSend appends the user message, *)
(* awaits the model and appends the answer to the conversation, and with   *)
(* the model, that were active when it was called.  During the await the   *)
(* user may select, rename, cut or delete conversations, switch models, or *)
(* leave the page: its menu links reload the application, which drops the  *)
(* promise and, the chat itself being restored from storage, nothing else. *)
(***************************************************************************)
EXTENDS ChatReducer

CONSTANTS Models,
          DefaultModel,  \* 'mock-model'
          MaxConvs,      \* bound: conversation ids generateId issues
          MaxMessages    \* bound: message ids generateId issues

ASSUME WindowAssumption ==
  /\ MaxConvs \in Nat
  /\ MaxMessages \in Nat
  /\ DefaultModel \in Models
  /\ Null \notin Nat \union Models

VARIABLES chat, convIds, messageIds,
          isResponding,  \* the flag that disables the input
          responses,     \* answers being awaited: what handleSend captured
          modelAsked     \* history: the model in charge when a message was sent

vars == <<chat, convIds, messageIds, isResponding, responses, modelAsked>>

Conversations == DOMAIN chat.convs

Init ==
  /\ chat = initialState
  /\ convIds = 0
  /\ messageIds = 0
  /\ isResponding = FALSE
  /\ responses = {}
  /\ modelAsked = <<>>

ModelOf(c) == IF chat.convs[c].model = Null THEN DefaultModel ELSE chat.convs[c].model

-----------------------------------------------------------------------------
\* handleSend up to its await.  ChatInput is disabled while isResponding.
HandleSend ==
  /\ chat.active \in Conversations
  /\ ~isResponding
  /\ messageIds < MaxMessages
  /\ messageIds' = messageIds + 1
  /\ chat' = AddMessage(chat, chat.active, [id |-> messageIds', role |-> "user", model |-> Null])
  /\ isResponding' = TRUE
  /\ responses' = responses \union {[conv |-> chat.active, model |-> ModelOf(chat.active)]}
  /\ modelAsked' = Update(modelAsked, messageIds', ModelOf(chat.active))
  /\ UNCHANGED convIds

\* Mutation: the answer goes to the conversation active now, under its model.
ReceiveInActive(r) ==
  /\ r \in responses
  /\ messageIds' = messageIds + 1
  /\ chat' = AddMessage(chat, chat.active, [id |-> messageIds', role |-> "assistant",
               model |-> IF chat.active = Null THEN DefaultModel ELSE ModelOf(chat.active)])
  /\ isResponding' = FALSE
  /\ responses' = responses \ {r}
  /\ UNCHANGED <<convIds, modelAsked>>

\* Mutation: the flag is reset only when the conversation is still there.
ReceiveWithoutFinally(r) ==
  /\ r \in responses
  /\ messageIds' = messageIds + 1
  /\ chat' = AddMessage(chat, r.conv, [id |-> messageIds', role |-> "assistant", model |-> r.model])
  /\ isResponding' = (r.conv \notin Conversations)
  /\ responses' = responses \ {r}
  /\ UNCHANGED <<convIds, modelAsked>>

\* handleSend after its await, and its finally.
Receive(r) ==
  /\ r \in responses
  /\ messageIds' = messageIds + 1
  /\ chat' = AddMessage(chat, r.conv, [id |-> messageIds', role |-> "assistant", model |-> r.model])
  /\ isResponding' = FALSE
  /\ responses' = responses \ {r}
  /\ UNCHANGED <<convIds, modelAsked>>

-----------------------------------------------------------------------------
Create ==
  /\ convIds < MaxConvs
  /\ convIds' = convIds + 1
  /\ chat' = CreateConversation(chat, convIds', NewConversation(Null))
  /\ UNCHANGED <<messageIds, isResponding, responses, modelAsked>>

\* Cut and paste: the conversation goes on under a new id.
CutAndPaste ==
  /\ convIds < MaxConvs
  /\ convIds' = convIds + 1
  /\ \E c \in Conversations :
       chat' = DeleteConversation(CreateConversation(chat, convIds', chat.convs[c]), c)
  /\ UNCHANGED <<messageIds, isResponding, responses, modelAsked>>

\* What else the user does with conversations, an answer pending or not.
Manage ==
  /\ \E c \in Conversations :
       \/ chat' = SetActiveConversation(chat, c)
       \/ chat' = DeleteConversation(chat, c)
       \/ chat' = SetTitle(chat, c, "user")
       \/ c = chat.active /\ \E m \in Models : chat' = SetModel(chat, c, m)
  /\ UNCHANGED <<convIds, messageIds, isResponding, responses, modelAsked>>

Reload ==
  /\ isResponding' = FALSE
  /\ responses' = {}
  /\ UNCHANGED <<chat, convIds, messageIds, modelAsked>>

Next ==
  \/ HandleSend
  \/ \E r \in responses : Receive(r)
  \/ Create
  \/ CutAndPaste
  \/ Manage
  \/ Reload

\* Timers fire: an awaited answer arrives, unless the page is left first.
Fairness == WF_vars(\E r \in responses : Receive(r))

Spec == Init /\ [][Next]_vars /\ Fairness

-----------------------------------------------------------------------------
(***************************************************************************)
(* Properties.                                                             *)
(***************************************************************************)

\* In every conversation each answer stands right after the message it
\* answers, whichever conversation was active when it arrived, and names the
\* model that was selected when that message was sent.
AnswersFollowQuestions ==
  \A c \in Conversations :
    LET msgs == chat.convs[c].msgs IN
    \A i \in DOMAIN msgs :
      msgs[i].role = "assistant" =>
        /\ i > 1
        /\ msgs[i - 1].role = "user"
        /\ msgs[i].model = modelAsked[msgs[i - 1].id]

\* An answer that arrives after its conversation was deleted or cut is
\* dropped: it revives no conversation, reaches no other and selects none.
LateAnswerDropped ==
  [][\A r \in responses \ responses' :
       r.conv \notin Conversations =>
         chat'.convs = chat.convs /\ chat'.active = chat.active]_vars

\* The input is never disabled for good.
InputComesBack == isResponding ~> ~isResponding
=============================================================================
