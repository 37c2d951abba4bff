----------------------------- MODULE ChatStore -----------------------------
(***************************************************************************)
(* The chat store: useReducer(chatReducer) in ChatProvider with the        *)
(* actions of ChatContext.tsx that work on conversations and messages, as  *)
(* any component holding dispatch may send them, with an id that is, was   *)
(* or never became a conversation.  (The folder actions are driven by      *)
(* ChatSidebar, sending and answering by ChatWindow.)                      *)
(***************************************************************************)
EXTENDS ChatReducer

CONSTANTS Models, Tags,
          MaxConvs,     \* bound: conversation ids generateId issues
          MaxEdited,    \* bound: conversations that differ from a new one
          MaxMessages   \* bound: message ids generateId issues

ASSUME StoreAssumption ==
  MaxConvs \in Nat /\ MaxEdited \in Nat /\ MaxMessages \in Nat /\ Null \notin Nat \union Models

VARIABLES chat,       \* the state of the reducer
          convIds,    \* conversation ids issued so far are 1..convIds
          messageIds  \* message ids issued so far are 1..messageIds

vars == <<chat, convIds, messageIds>>

ConvId == 1..convIds
Conversations == DOMAIN chat.convs

Init == chat = initialState /\ convIds = 0 /\ messageIds = 0

Create ==
  /\ convIds < MaxConvs
  /\ convIds' = convIds + 1
  /\ chat' = CreateConversation(chat, convIds', NewConversation(Null))
  /\ UNCHANGED messageIds

Add ==
  /\ messageIds < MaxMessages
  /\ messageIds' = messageIds + 1
  /\ \E c \in ConvId, role \in {"user", "assistant"} :
       chat' = AddMessage(chat, c, [id |-> messageIds', role |-> role, model |-> Null])
  /\ UNCHANGED convIds

EditMessage ==
  /\ \E c \in ConvId, id \in 1..messageIds :
       \/ chat' = DeleteMessage(chat, c, id)
       \/ \E model \in Models :
            chat' = UpdateMessage(chat, c, [id |-> id, role |-> "assistant", model |-> model])
  /\ UNCHANGED <<convIds, messageIds>>

EditConversation ==
  /\ \E c \in ConvId :
       \/ chat' = DeleteConversation(chat, c)
       \/ chat' = SetTitle(chat, c, "user")
       \/ chat' = TogglePin(chat, c)
       \/ chat' = ToggleArchive(chat, c)
       \/ \E b \in BOOLEAN : \/ chat' = SetPinned(chat, c, b)
                             \/ chat' = SetArchived(chat, c, b)
       \/ \E model \in Models : chat' = SetModel(chat, c, model)
       \/ \E tag \in Tags : \/ chat' = AddTag(chat, c, tag)
                            \/ chat' = RemoveTag(chat, c, tag)
       \/ \E tags \in SUBSET Tags : chat' = SetTags(chat, c, tags)
       \/ chat' = UpdateConversation(chat, c, [NewConversation(Null) EXCEPT !.title = "user"])
  /\ UNCHANGED <<convIds, messageIds>>

Select ==
  /\ \E c \in Conversations \union {Null} : chat' = SetActiveConversation(chat, c)
  /\ UNCHANGED <<convIds, messageIds>>

Bulk ==
  /\ \E ids \in SUBSET ConvId \ {{}} :
       \/ chat' = BulkDelete(chat, ids)
       \/ \E b \in BOOLEAN : \/ chat' = BulkArchive(chat, ids, b)
                             \/ chat' = BulkPin(chat, ids, b)
       \/ \E tag \in Tags : chat' = BulkAddTag(chat, ids, tag)
  /\ UNCHANGED <<convIds, messageIds>>

FewEdited ==
  Cardinality({c \in DOMAIN chat'.convs : chat'.convs[c] # NewConversation(Null)}) <= MaxEdited

Next == (Create \/ Add \/ EditMessage \/ EditConversation \/ Select \/ Bulk) /\ FewEdited

Spec == Init /\ [][Next]_vars

-----------------------------------------------------------------------------
(***************************************************************************)
(* Properties.                                                             *)
(***************************************************************************)

\* What one bulk action does to the state is what its single-conversation
\* counterpart does when it is dispatched for each id, in any order; this
\* includes which conversation is active after a deletion.
BulkIsRepeated ==
  \A order \in SetToAllKPermutations(ConvId) :
    LET ids == Range(order) IN
    /\ BulkDelete(chat, ids) = FoldLeft(DeleteConversation, chat, order)
    /\ \A b \in BOOLEAN :
         /\ BulkPin(chat, ids, b) = FoldLeft(LAMBDA s, c : SetPinned(s, c, b), chat, order)
         /\ BulkArchive(chat, ids, b) =
              FoldLeft(LAMBDA s, c : SetArchived(s, c, b), chat, order)
    /\ \A tag \in Tags :
         BulkAddTag(chat, ids, tag) = FoldLeft(LAMBDA s, c : AddTag(s, c, tag), chat, order)

\* A message id occurs once in a conversation, so UPDATE_MESSAGE and
\* DELETE_MESSAGE, which look for an id, reach the message they mean.
MessageIdsDistinct ==
  \A c \in Conversations :
    \A i, j \in DOMAIN chat.convs[c].msgs :
      chat.convs[c].msgs[i].id = chat.convs[c].msgs[j].id => i = j

\* A deleted conversation never comes back, whatever is still dispatched for
\* its id: a conversation enters the store only under an id that was never in
\* it, empty, and is then the active one.
DeletedStaysDeleted ==
  [][\A c \in DOMAIN chat'.convs \ Conversations :
       /\ c \notin ConvId
       /\ chat'.convs[c] = NewConversation(Null)
       /\ chat'.active = c]_vars

=============================================================================
