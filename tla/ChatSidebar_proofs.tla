------------------------- MODULE ChatSidebar_proofs -------------------------
(***************************************************************************)
(* Proofs that, for any number of conversations and folders, the sidebar   *)
(* and the reducer keep the state well typed, the folders a forest and the *)
(* active conversation an existing one.                                    *)
(***************************************************************************)
EXTENDS ChatSidebar, FiniteSetTheorems, TLAPS

-----------------------------------------------------------------------------
(***************************************************************************)
(* What the reducer does to the type of a chat state.                      *)
(***************************************************************************)

\* A chat state keeps its type when more ids are issued.
LEMMA ChatTypeGrows ==
  ASSUME NEW s, NEW C, NEW F, NEW D, NEW G,
         ChatType(s, C, F), C \subseteq D, F \subseteq G
  PROVE  ChatType(s, D, G)
BY DEF ChatType

LEMMA SetActiveType ==
  ASSUME NEW s, NEW C, NEW F, NEW c, ChatType(s, C, F)
  PROVE  /\ ChatType(SetActiveConversation(s, c), C, F)
         /\ SetActiveConversation(s, c).active = c
         /\ SetActiveConversation(s, c).convs = s.convs
         /\ SetActiveConversation(s, c).folders = s.folders
BY DEF ChatType, SetActiveConversation

LEMMA CreateConversationType ==
  ASSUME NEW s, NEW C, NEW F, NEW c \in C, NEW conv,
         ChatType(s, C, F),
         DOMAIN conv = DOMAIN NewConversation(Null),
         conv.folder \in F \union {Null}
  PROVE  ChatType(CreateConversation(s, c, conv), C, F)
BY DEF ChatType, CreateConversation, Update

\* Deleting keeps the type, and selects a conversation that is left.
LEMMA DeleteConversationType ==
  ASSUME NEW s, NEW C, NEW F, NEW c, ChatType(s, C, F)
  PROVE  ChatType(DeleteConversation(s, c), C, F)
BY DEF ChatType, DeleteConversation, Restrict

LEMMA MoveConversationType ==
  ASSUME NEW s, NEW C, NEW F, NEW c, NEW f \in F \union {Null}, ChatType(s, C, F)
  PROVE  /\ ChatType(MoveConversation(s, c, f), C, F)
         /\ MoveConversation(s, c, f).folders = s.folders
         /\ MoveConversation(s, c, f).active = s.active
         /\ DOMAIN MoveConversation(s, c, f).convs = DOMAIN s.convs
BY DEF ChatType, MoveConversation, NewConversation

LEMMA CreateFolderType ==
  ASSUME NEW s, NEW C, NEW F, NEW f \in F, NEW p \in F \union {Null}, ChatType(s, C, F)
  PROVE  ChatType(CreateFolder(s, f, p), C, F)
BY DEF ChatType, CreateFolder, Update

LEMMA DeleteFolderType ==
  ASSUME NEW s, NEW C, NEW F, NEW f, ChatType(s, C, F)
  PROVE  ChatType(DeleteFolder(s, f), C, F)
BY DEF ChatType, DeleteFolder, Restrict, NewConversation

LEMMA MoveFolderType ==
  ASSUME NEW s, NEW C, NEW F, NEW f, NEW p \in F \union {Null}, ChatType(s, C, F)
  PROVE  ChatType(MoveFolder(s, f, p), C, F)
BY DEF ChatType, MoveFolder

-----------------------------------------------------------------------------
(***************************************************************************)
(* What the reducer does to the folder tree.                               *)
(***************************************************************************)

\* No action on conversations touches the folders.
LEMMA FoldersUntouched ==
  ASSUME NEW s, NEW C, NEW F, NEW c, NEW conv, ChatType(s, C, F)
  PROVE  /\ CreateConversation(s, c, conv).folders = s.folders
         /\ DeleteConversation(s, c).folders = s.folders
BY DEF ChatType, CreateConversation, DeleteConversation

\* A folder whose id nobody knows yet has no children and closes no cycle.
LEMMA CreateFolderForest ==
  ASSUME NEW s, NEW C, NEW F, NEW f, NEW p \in F \union {Null},
         ChatType(s, C, F), Forest(s.folders), f \notin F, f # Null
  PROVE  Forest(CreateFolder(s, f, p).folders)
<1> DEFINE new == Update(s.folders, f, p)
<1>1. CreateFolder(s, f, p).folders = new
  BY DEF ChatType, CreateFolder
<1>2. /\ DOMAIN new = DOMAIN s.folders \union {f}
      /\ new[f] = p
      /\ \A g \in DOMAIN s.folders : new[g] = s.folders[g] /\ new[g] # f
  BY DEF ChatType, Update
<1> SUFFICES ASSUME NEW S \in SUBSET DOMAIN new, S # {}
             PROVE  \E g \in S : new[g] \notin S
  BY <1>1 DEF Forest
<1>3. CASE S \ {f} = {}
  BY <1>2, <1>3
<1>4. CASE S \ {f} # {}
  <2>1. PICK g \in S \ {f} : s.folders[g] \notin S \ {f}
    BY <1>2, <1>4 DEF Forest
  <2> QED BY <1>2, <2>1
<1> QED BY <1>3, <1>4

\* Removing a folder leaves the others where they are.
LEMMA DeleteFolderForest ==
  ASSUME NEW s, NEW C, NEW F, NEW f, ChatType(s, C, F), Forest(s.folders)
  PROVE  Forest(DeleteFolder(s, f).folders)
<1>1. CASE f \notin DOMAIN s.folders
  BY <1>1 DEF DeleteFolder
<1>2. CASE f \in DOMAIN s.folders
  <2>1. DeleteFolder(s, f).folders = Restrict(s.folders, DOMAIN s.folders \ {f})
    BY <1>2 DEF ChatType, DeleteFolder
  <2> QED BY <2>1 DEF Forest, Restrict
<1> QED BY <1>1, <1>2

\* A move that the guard lets through closes no cycle.  The guard gives a set
\* D that holds f and with a folder its children, but not the new parent.  A
\* cycle outside D is one of the old tree; inside D, f itself leaves it.
LEMMA MoveFolderForest ==
  ASSUME NEW s, NEW C, NEW F, NEW f, NEW p,
         ChatType(s, C, F), Forest(s.folders), Null \notin F
  PROVE  Forest(MoveFolder(s, f, p).folders)
<1> DEFINE old == s.folders
           new == [old EXCEPT ![f] = p]
           Moves == /\ f \in DOMAIN old
                    /\ p = Null \/ ~IsSelfOrDescendant(old, f, p)
<1>1. CASE ~Moves
  BY <1>1 DEF MoveFolder
<1>2. CASE Moves
  <2>1. MoveFolder(s, f, p).folders = new
    BY <1>2 DEF ChatType, MoveFolder
  <2>2. DOMAIN new = DOMAIN old /\ new[f] = p /\ \A g \in DOMAIN old \ {f} : new[g] = old[g]
    BY <1>2
  <2>3. PICK D \in SUBSET DOMAIN old :
          f \in D /\ p \notin D /\ \A g \in DOMAIN old : old[g] \in D => g \in D
    <3>1. CASE p = Null
      <4>1. Null \notin DOMAIN old
        BY DEF ChatType
      <4> QED BY <1>2, <3>1, <4>1
    <3>2. CASE ~IsSelfOrDescendant(old, f, p)
      BY <3>2 DEF IsSelfOrDescendant
    <3> QED BY <1>2, <3>1, <3>2
  <2> SUFFICES ASSUME NEW S \in SUBSET DOMAIN old, S # {}
               PROVE  \E g \in S : new[g] \notin S
    BY <2>1, <2>2 DEF Forest
  <2>4. CASE S \subseteq D /\ f \in S
    BY <2>2, <2>3, <2>4
  <2>5. CASE f \notin S
    BY <2>2, <2>5 DEF Forest
  <2>6. CASE S \ D # {}
    <3>1. PICK g \in S \ D : old[g] \notin S \ D
      BY <2>6 DEF Forest
    <3> QED BY <2>2, <2>3, <3>1
  <2> QED BY <2>4, <2>5, <2>6
<1> QED BY <1>1, <1>2

-----------------------------------------------------------------------------
(***************************************************************************)
(* What the reducer does to the active conversation.                       *)
(***************************************************************************)

\* What CREATE_CONVERSATION selects exists.
LEMMA CreateConversationActive ==
  ASSUME NEW s, NEW C, NEW F, NEW c, NEW conv, ChatType(s, C, F), ActiveIsThere(s)
  PROVE  ActiveIsThere(CreateConversation(s, c, conv))
BY DEF ChatType, ActiveIsThere, CreateConversation, Update

\* The front of a list is in the list.
LEMMA NewestIsThere ==
  ASSUME NEW S
  PROVE  Newest(S) \in S \union {Null}
BY DEF Newest

\* DELETE_CONVERSATION leaves the selection alone or moves it to what is left.
LEMMA DeleteConversationActive ==
  ASSUME NEW s, NEW C, NEW F, NEW c, ChatType(s, C, F), ActiveIsThere(s)
  PROVE  ActiveIsThere(DeleteConversation(s, c))
<1> DEFINE left == DOMAIN s.convs \ {c}
<1>1. Newest(left) \in left \union {Null}
  BY NewestIsThere
<1> QED BY <1>1 DEF ChatType, ActiveIsThere, DeleteConversation, Restrict

\* No action on folders removes or selects a conversation.
LEMMA FolderActionsActive ==
  ASSUME NEW s, NEW C, NEW F, NEW f, NEW p, ChatType(s, C, F), ActiveIsThere(s)
  PROVE  /\ ActiveIsThere(CreateFolder(s, f, p))
         /\ ActiveIsThere(UpdateFolder(s, f, p))
         /\ ActiveIsThere(DeleteFolder(s, f))
         /\ ActiveIsThere(MoveFolder(s, f, p))
BY DEF ChatType, ActiveIsThere, CreateFolder, UpdateFolder, DeleteFolder, MoveFolder

-----------------------------------------------------------------------------
(***************************************************************************)
(* The inductive invariant is the conjunction of the three invariants that *)
(* are model-checked: the forest needs the types (a new folder's id is not *)
(* yet anybody's parent), and the selection needs them too.                *)
(***************************************************************************)

IInv == TypeOK /\ FolderForest /\ ActiveConversationExists

LEMMA InitIInv == Init => IInv
<1> SUFFICES ASSUME Init PROVE IInv
  OBVIOUS
<1>1. chat = [convs |-> <<>>, folders |-> <<>>, active |-> Null, error |-> FALSE]
  BY DEF Init, initialState
<1>2. DOMAIN chat.convs = {} /\ DOMAIN chat.folders = {}
  BY <1>1
<1>3. ChatType(chat, ConvId, FolderId)
  BY <1>1, <1>2 DEF ChatType
<1>4. TypeOK
  BY <1>3, SidebarAssumption DEF Init, TypeOK
<1>5. FolderForest /\ ActiveConversationExists
  BY <1>1, <1>2 DEF FolderForest, Forest, ActiveConversationExists, ActiveIsThere
<1> QED BY <1>4, <1>5 DEF IInv

\* The items an event handler can act on are there, and so have issued ids.
LEMMA ItemsTyped ==
  ASSUME IInv, NEW item \in RenderedItems \union KeyboardTarget
  PROVE  item \in ({"conversation"} \X ConvId) \union ({"folder"} \X FolderId)
<1>1. CASE item \in RenderedItems
  BY <1>1 DEF IInv, TypeOK, ChatType, RenderedItems, Conversations, Folders
<1>2. CASE item \in KeyboardTarget
  BY <1>2 DEF IInv, TypeOK, ChatType, KeyboardTarget, ActiveConversationExists, ActiveIsThere
<1> QED BY <1>1, <1>2

\* Where the drag started and where it may end: folders that were issued.
LEMMA FolderOfTyped ==
  ASSUME NEW s, ChatType(s, ConvId, FolderId), NEW item,
         \/ item[1] = "conversation" /\ item[2] \in DOMAIN s.convs
         \/ item[1] = "folder" /\ item[2] \in DOMAIN s.folders
  PROVE  FolderOf(s, item) \in FolderId \union {Null}
BY DEF ChatType, FolderOf

LEMMA DropTargetTyped ==
  ASSUME IInv, drag # Null, NEW item \in RenderedItems
  PROVE  DropTarget(item) \in FolderId \union {Null}
<1>1. ChatType(drag.seen, ConvId, FolderId) /\ ChatType(chat, ConvId, FolderId)
  BY DEF IInv, TypeOK
<1>2. \/ item[1] = "conversation"
      \/ item[1] = "folder" /\ item[2] \in FolderId
  BY ItemsTyped
<1>3. CASE item[1] = "conversation" /\ item[2] \in DOMAIN drag.seen.convs
  BY <1>1, <1>3 DEF ChatType, DropTarget
<1>4. CASE item[1] = "conversation" /\ item[2] \notin DOMAIN drag.seen.convs
  BY <1>4 DEF DropTarget
<1>5. CASE item[1] = "folder" /\ item[2] \in FolderId
  BY <1>5 DEF DropTarget
<1> QED BY <1>2, <1>3, <1>4, <1>5

-----------------------------------------------------------------------------
LEMMA StepSelect ==
  ASSUME IInv, SelectConversation \/ SelectFolder
  PROVE  IInv'
<1>1. ChatType(chat, ConvId, FolderId) /\ ConvId' = ConvId /\ FolderId' = FolderId
  BY DEF IInv, TypeOK, ConvId, FolderId, SelectConversation, SelectFolder, ids
<1>2. PICK c \in DOMAIN chat.convs \union {Null} : chat' = SetActiveConversation(chat, c)
  BY DEF SelectConversation, SelectFolder, Conversations
<1>3. /\ ChatType(chat', ConvId, FolderId)
      /\ chat'.active = c /\ chat'.convs = chat.convs /\ chat'.folders = chat.folders
  BY <1>1, <1>2, SetActiveType
<1>4. selectedFolder' \in FolderId \union {Null}
  BY <1>1 DEF ChatType, SelectConversation, SelectFolder, Folders
<1>5. TypeOK'
  BY <1>1, <1>3, <1>4 DEF IInv, TypeOK, SelectConversation, SelectFolder, ids
<1>6. FolderForest' /\ ActiveConversationExists'
  BY <1>3 DEF IInv, FolderForest, ActiveConversationExists, ActiveIsThere
<1> QED BY <1>5, <1>6 DEF IInv

\* Ids only grow, so what was remembered before the step stays typed.
LEMMA IdsGrow ==
  ASSUME IInv, convIds' \in {convIds, convIds + 1}, folderIds' \in {folderIds, folderIds + 1}
  PROVE  /\ convIds \in Nat /\ folderIds \in Nat
         /\ ConvId \subseteq ConvId' /\ FolderId \subseteq FolderId'
         /\ ConvId' \subseteq Nat /\ FolderId' \subseteq Nat
         /\ Null \notin ConvId' /\ Null \notin FolderId'
         /\ ChatType(chat, ConvId', FolderId')
         /\ drag # Null => ChatType(drag.seen, ConvId', FolderId')
<1>1. /\ convIds \in Nat /\ folderIds \in Nat
      /\ ChatType(chat, ConvId, FolderId)
      /\ drag # Null => ChatType(drag.seen, ConvId, FolderId)
  BY SidebarAssumption DEF IInv, TypeOK
<1>2. ConvId \subseteq ConvId' /\ FolderId \subseteq FolderId'
  BY <1>1 DEF ConvId, FolderId
<1>3. /\ ConvId' \subseteq Nat /\ FolderId' \subseteq Nat
      /\ Null \notin ConvId' /\ Null \notin FolderId'
  BY <1>1, SidebarAssumption DEF ConvId, FolderId
<1>4. ChatType(chat, ConvId', FolderId')
  BY <1>1, <1>2, ChatTypeGrows
<1>5. drag # Null => ChatType(drag.seen, ConvId', FolderId')
  BY <1>1, <1>2, ChatTypeGrows
<1> QED BY <1>1, <1>2, <1>3, <1>4, <1>5

\* The type of the whole state, once that of the chat and of the clipboard is
\* known, for the steps that leave the rest of the sidebar alone.
LEMMA RestTyped ==
  ASSUME IInv,
         convIds' \in {convIds, convIds + 1}, folderIds' \in {folderIds, folderIds + 1},
         convIds' \in 0..MaxConvs, folderIds' \in 0..MaxFolders,
         ChatType(chat', ConvId', FolderId'),
         selectedFolder' \in {selectedFolder, Null},
         clipboard' \in {clipboard, Null},
         deleteConfirm' \in {deleteConfirm, Null},
         drag' \in {drag, Null}
  PROVE  TypeOK'
<1>1. ConvId \subseteq ConvId' /\ FolderId \subseteq FolderId'
  BY IdsGrow
<1>2. drag # Null => ChatType(drag.seen, ConvId', FolderId')
  BY IdsGrow
<1>3. selectedFolder' \in FolderId' \union {Null}
  BY <1>1 DEF IInv, TypeOK
<1>4. clipboard' \in ({"copy", "cut"} \X {"conversation"} \X ConvId')
       \union ({"copy", "cut"} \X {"folder"} \X FolderId') \union {Null}
  BY <1>1 DEF IInv, TypeOK
<1>5. deleteConfirm' \in ({"conversation"} \X ConvId')
       \union ({"folder"} \X FolderId') \union {Null}
  BY <1>1 DEF IInv, TypeOK
<1>6. drag' # Null =>
       /\ drag' = [item |-> drag'.item, startFolder |-> drag'.startFolder, seen |-> drag'.seen]
       /\ drag'.item \in ({"conversation"} \X ConvId') \union ({"folder"} \X FolderId')
       /\ drag'.startFolder \in FolderId' \union {Null}
       /\ ChatType(drag'.seen, ConvId', FolderId')
  BY <1>1, <1>2 DEF IInv, TypeOK
<1> QED BY <1>3, <1>4, <1>5, <1>6 DEF TypeOK

LEMMA StepNewConversation ==
  ASSUME IInv, HandleNewConversation \/ ImportFinishes
  PROVE  IInv'
<1>1. PICK folder \in {selectedFolder, Null} :
        chat' = CreateConversation(chat, convIds', NewConversation(folder))
  BY DEF HandleNewConversation, ImportFinishes
<1>2. /\ convIds' = convIds + 1 /\ folderIds' = folderIds
      /\ convIds' \in 0..MaxConvs /\ folderIds' \in 0..MaxFolders
      /\ selectedFolder' \in {selectedFolder, Null}
      /\ clipboard' = clipboard /\ deleteConfirm' = deleteConfirm /\ drag' = drag
  BY SidebarAssumption DEF IInv, TypeOK, HandleNewConversation, ImportFinishes, ui
<1>3. /\ ChatType(chat, ConvId', FolderId')
      /\ folder \in FolderId' \union {Null}
      /\ convIds' \in ConvId'
  BY <1>1, <1>2, IdsGrow DEF IInv, TypeOK, ConvId
<1>4. /\ NewConversation(folder).folder = folder
      /\ DOMAIN NewConversation(folder) = DOMAIN NewConversation(Null)
  BY DEF NewConversation
<1>5. /\ ChatType(chat', ConvId', FolderId')
      /\ chat'.folders = chat.folders
      /\ ActiveIsThere(chat')
  BY <1>1, <1>3, <1>4, CreateConversationType, FoldersUntouched, CreateConversationActive
     DEF IInv, ActiveConversationExists
<1> QED BY <1>2, <1>5, RestTyped DEF IInv, FolderForest, ActiveConversationExists

LEMMA StepNewFolder ==
  ASSUME IInv, HandleNewFolder
  PROVE  IInv'
<1>1. chat' = CreateFolder(chat, folderIds', Null)
  BY DEF HandleNewFolder
<1>2. /\ convIds' = convIds /\ folderIds' = folderIds + 1
      /\ convIds' \in 0..MaxConvs /\ folderIds' \in 0..MaxFolders
      /\ selectedFolder' = selectedFolder
      /\ clipboard' = clipboard /\ deleteConfirm' = deleteConfirm /\ drag' = drag
  BY SidebarAssumption DEF IInv, TypeOK, HandleNewFolder, ui
<1>3. /\ ChatType(chat, ConvId', FolderId') /\ ChatType(chat, ConvId, FolderId)
      /\ folderIds' \in FolderId' /\ folderIds' \notin FolderId /\ folderIds' # Null
  BY <1>2, IdsGrow, SidebarAssumption DEF IInv, TypeOK, FolderId
<1>4. ChatType(chat', ConvId', FolderId') /\ ActiveIsThere(chat')
  BY <1>1, <1>3, CreateFolderType, FolderActionsActive DEF IInv, ActiveConversationExists
<1>5. Forest(chat'.folders)
  BY <1>1, <1>3, CreateFolderForest DEF IInv, FolderForest
<1> QED BY <1>2, <1>4, <1>5, RestTyped DEF IInv, FolderForest, ActiveConversationExists

\* An inline rename sends the folder back where it was.
LEMMA StepRenameFolder ==
  ASSUME IInv, HandleRenameFolder
  PROVE  IInv'
<1>1. PICK f \in Folders : chat' = UpdateFolder(chat, f, chat.folders[f])
  BY DEF HandleRenameFolder
<1>2. /\ convIds' = convIds /\ folderIds' = folderIds
      /\ selectedFolder' = selectedFolder
      /\ clipboard' = clipboard /\ deleteConfirm' = deleteConfirm /\ drag' = drag
  BY DEF HandleRenameFolder, ids, ui
<1>3. /\ chat'.folders = [chat.folders EXCEPT ![f] = chat.folders[f]]
      /\ chat'.convs = chat.convs /\ chat'.active = chat.active
      /\ ChatType(chat', ConvId, FolderId)
  BY <1>1 DEF IInv, TypeOK, ChatType, Folders, UpdateFolder
<1>4. TypeOK'
  BY <1>2, <1>3, RestTyped DEF IInv, TypeOK, ConvId, FolderId
<1>5. Forest(chat'.folders)
  <2>1. /\ DOMAIN chat'.folders = DOMAIN chat.folders
        /\ \A g \in DOMAIN chat.folders : chat'.folders[g] = chat.folders[g]
    BY <1>3
  <2> QED BY <2>1 DEF IInv, FolderForest, Forest
<1> QED BY <1>3, <1>4, <1>5 DEF IInv, FolderForest, ActiveConversationExists, ActiveIsThere

\* The handlers that only remember something, or forget it.
LEMMA StepRemember ==
  ASSUME IInv,
         \/ HandleCopyOrCut \/ ClearClipboard \/ RequestDelete \/ CancelDelete
         \/ DragCancelled \/ RemountSidebar
  PROVE  IInv'
<1>1. /\ chat' = chat /\ convIds' = convIds /\ folderIds' = folderIds
      /\ ConvId' = ConvId /\ FolderId' = FolderId
  BY DEF ConvId, FolderId, HandleCopyOrCut, ClearClipboard, RequestDelete,
         CancelDelete, DragCancelled, RemountSidebar, ids
<1>2. ASSUME HandleCopyOrCut PROVE TypeOK'
  <2>1. PICK action \in {"copy", "cut"}, item \in RenderedItems \union KeyboardTarget :
          clipboard' = <<action, item[1], item[2]>>
    BY <1>2 DEF HandleCopyOrCut
  <2>2. item \in ({"conversation"} \X ConvId) \union ({"folder"} \X FolderId)
    BY ItemsTyped
  <2>3. clipboard' \in ({"copy", "cut"} \X {"conversation"} \X ConvId)
          \union ({"copy", "cut"} \X {"folder"} \X FolderId)
    BY <2>1, <2>2
  <2>4. /\ selectedFolder' = selectedFolder /\ deleteConfirm' = deleteConfirm
        /\ drag' = drag
    BY <1>2 DEF HandleCopyOrCut
  <2> QED BY <1>1, <2>3, <2>4 DEF IInv, TypeOK
<1>3. ASSUME RequestDelete PROVE TypeOK'
  <2>1. deleteConfirm' \in RenderedItems \union KeyboardTarget
    BY <1>3 DEF RequestDelete
  <2>2. deleteConfirm' \in ({"conversation"} \X ConvId) \union ({"folder"} \X FolderId)
    BY <2>1, ItemsTyped
  <2>3. /\ selectedFolder' = selectedFolder /\ clipboard' = clipboard
        /\ drag' = drag
    BY <1>3 DEF RequestDelete
  <2> QED BY <1>1, <2>2, <2>3 DEF IInv, TypeOK
<1>4. ASSUME ClearClipboard \/ CancelDelete \/ DragCancelled \/ RemountSidebar
      PROVE  TypeOK'
  <2>1. /\ selectedFolder' \in {selectedFolder, Null} /\ clipboard' \in {clipboard, Null}
        /\ deleteConfirm' \in {deleteConfirm, Null} /\ drag' \in {drag, Null}
    BY <1>4 DEF ClearClipboard, CancelDelete, DragCancelled, RemountSidebar
  <2>2. /\ convIds' \in 0..MaxConvs /\ folderIds' \in 0..MaxFolders
        /\ ChatType(chat', ConvId', FolderId')
    BY <1>1 DEF IInv, TypeOK
  <2> QED BY <1>1, <2>1, <2>2, RestTyped
<1>5. TypeOK'
  BY <1>2, <1>3, <1>4
<1> QED BY <1>1, <1>5 DEF IInv, FolderForest, ActiveConversationExists

\* A copy is created; after a cut, its source is deleted.
LEMMA StepPasteConversation ==
  ASSUME IInv, HandlePaste, NEW keeps \in BOOLEAN, PasteConversation(keeps)
  PROVE  IInv'
<1> DEFINE source  == clipboard[3]
           copy    == [chat.convs[source] EXCEPT !.folder = selectedFolder]
           created == CreateConversation(chat, convIds', copy)
<1>1. /\ source \in DOMAIN chat.convs
      /\ chat' \in {created, DeleteConversation(created, source)}
  BY DEF PasteConversation, Conversations
<1>2. /\ convIds' = convIds + 1 /\ folderIds' = folderIds
      /\ convIds' \in 0..MaxConvs /\ folderIds' \in 0..MaxFolders
      /\ selectedFolder' = selectedFolder /\ clipboard' \in {clipboard, Null}
      /\ deleteConfirm' = deleteConfirm /\ drag' = drag
  BY SidebarAssumption DEF IInv, TypeOK, HandlePaste, PasteConversation
<1>3. /\ ChatType(chat, ConvId', FolderId')
      /\ selectedFolder \in FolderId' \union {Null}
      /\ convIds' \in ConvId'
  BY <1>2, IdsGrow DEF IInv, TypeOK, ConvId
<1>4. /\ DOMAIN copy = DOMAIN NewConversation(Null)
      /\ copy.folder = selectedFolder
  BY <1>1, <1>3 DEF ChatType, NewConversation
<1>5. /\ ChatType(created, ConvId', FolderId')
      /\ created.folders = chat.folders
      /\ ActiveIsThere(created)
  <2> HIDE DEF copy
  <2>1. ChatType(created, ConvId', FolderId')
    BY <1>3, <1>4, CreateConversationType
  <2>2. created.folders = chat.folders
    BY <1>3, FoldersUntouched
  <2>3. ActiveIsThere(created)
    BY <1>3, CreateConversationActive DEF IInv, ActiveConversationExists
  <2> QED BY <2>1, <2>2, <2>3
<1> HIDE DEF created
<1>6. /\ ChatType(chat', ConvId', FolderId')
      /\ chat'.folders = chat.folders
      /\ ActiveIsThere(chat')
  BY <1>1, <1>5, DeleteConversationType, FoldersUntouched, DeleteConversationActive
<1> QED BY <1>2, <1>6, RestTyped DEF IInv, FolderForest, ActiveConversationExists

LEMMA StepPasteFolder ==
  ASSUME IInv, HandlePaste, NEW keeps \in BOOLEAN, PasteFolder(keeps)
  PROVE  IInv'
<1> DEFINE source  == clipboard[3]
           created == CreateFolder(chat, folderIds', selectedFolder)
<1>1. chat' \in {created, DeleteFolder(created, source)}
  BY DEF PasteFolder
<1>2. /\ convIds' = convIds /\ folderIds' = folderIds + 1
      /\ convIds' \in 0..MaxConvs /\ folderIds' \in 0..MaxFolders
      /\ selectedFolder' = selectedFolder /\ clipboard' \in {clipboard, Null}
      /\ deleteConfirm' = deleteConfirm /\ drag' = drag
  BY SidebarAssumption DEF IInv, TypeOK, HandlePaste, PasteFolder
<1>3. /\ ChatType(chat, ConvId', FolderId') /\ ChatType(chat, ConvId, FolderId)
      /\ selectedFolder \in FolderId \union {Null}
      /\ selectedFolder \in FolderId' \union {Null}
      /\ folderIds' \in FolderId' /\ folderIds' \notin FolderId /\ folderIds' # Null
  BY <1>2, IdsGrow, SidebarAssumption DEF IInv, TypeOK, FolderId
<1>4. /\ ChatType(created, ConvId', FolderId')
      /\ Forest(created.folders)
      /\ ActiveIsThere(created)
  BY <1>3, CreateFolderType, CreateFolderForest, FolderActionsActive
     DEF IInv, FolderForest, ActiveConversationExists
<1>5. /\ ChatType(chat', ConvId', FolderId')
      /\ Forest(chat'.folders)
      /\ ActiveIsThere(chat')
  BY <1>1, <1>4, DeleteFolderType, DeleteFolderForest, FolderActionsActive
<1> QED BY <1>2, <1>5, RestTyped DEF IInv, FolderForest, ActiveConversationExists

LEMMA StepConfirmDelete ==
  ASSUME IInv, HandleConfirmDelete
  PROVE  IInv'
<1>1. chat' \in {DeleteConversation(chat, deleteConfirm[2]), DeleteFolder(chat, deleteConfirm[2])}
  BY DEF HandleConfirmDelete
<1>2. /\ convIds' = convIds /\ folderIds' = folderIds
      /\ ConvId' = ConvId /\ FolderId' = FolderId
      /\ selectedFolder' = selectedFolder /\ clipboard' = clipboard
      /\ deleteConfirm' = Null /\ drag' = drag
  BY DEF HandleConfirmDelete, ids, ConvId, FolderId
<1>3. ChatType(chat, ConvId', FolderId')
  BY <1>2 DEF IInv, TypeOK
<1>4. /\ ChatType(chat', ConvId', FolderId')
      /\ Forest(chat'.folders)
      /\ ActiveIsThere(chat')
  BY <1>1, <1>3, DeleteConversationType, FoldersUntouched, DeleteConversationActive,
     DeleteFolderType, DeleteFolderForest, FolderActionsActive
     DEF IInv, FolderForest, ActiveConversationExists
<1> QED BY <1>2, <1>4, RestTyped DEF IInv, TypeOK, FolderForest, ActiveConversationExists

LEMMA StepMouseDown ==
  ASSUME IInv, HandleMouseDown
  PROVE  IInv'
<1>1. PICK item \in RenderedItems :
        drag' = [item |-> item, startFolder |-> FolderOf(chat, item), seen |-> chat]
  BY DEF HandleMouseDown
<1>2. /\ item \in ({"conversation"} \X ConvId) \union ({"folder"} \X FolderId)
      /\ \/ item[1] = "conversation" /\ item[2] \in DOMAIN chat.convs
         \/ item[1] = "folder" /\ item[2] \in DOMAIN chat.folders
  BY ItemsTyped DEF RenderedItems, Conversations, Folders
<1>3. FolderOf(chat, item) \in FolderId \union {Null}
  BY <1>2, FolderOfTyped DEF IInv, TypeOK
<1>4. ConvId' = ConvId /\ FolderId' = FolderId
  BY DEF HandleMouseDown, ids, ConvId, FolderId
<1> QED BY <1>1, <1>2, <1>3, <1>4
        DEF IInv, TypeOK, FolderForest, ActiveConversationExists, HandleMouseDown, ids

\* A drop moves the dragged item, or what had its id, to a folder that was
\* issued, through the guard of the reducer.
LEMMA StepMouseUp ==
  ASSUME IInv, HandleMouseUp
  PROVE  IInv'
<1>1. drag # Null
  BY DEF HandleMouseUp
<1>2. PICK target \in FolderId \union {Null} : DropOn(target)
  BY <1>1, DropTargetTyped DEF HandleMouseUp
<1>3. chat' \in {chat, MoveFolder(chat, drag.item[2], target),
                 MoveConversation(chat, drag.item[2], target)}
  BY <1>2 DEF DropOn
<1>4. /\ convIds' = convIds /\ folderIds' = folderIds
      /\ ConvId' = ConvId /\ FolderId' = FolderId
      /\ selectedFolder' = selectedFolder /\ clipboard' = clipboard
      /\ deleteConfirm' = deleteConfirm /\ drag' = Null
  BY DEF HandleMouseUp, ids, ConvId, FolderId
<1>5. ChatType(chat, ConvId', FolderId') /\ Null \notin FolderId'
  BY <1>4, IdsGrow
<1>6. CASE chat' = chat
  BY <1>4, <1>5, <1>6, RestTyped DEF IInv, TypeOK, FolderForest, ActiveConversationExists
<1>7. CASE chat' = MoveFolder(chat, drag.item[2], target)
  <2>1. ChatType(chat', ConvId', FolderId')
    BY <1>4, <1>5, <1>7, MoveFolderType
  <2>2. Forest(chat'.folders)
    BY <1>5, <1>7, MoveFolderForest DEF IInv, FolderForest
  <2>3. ActiveIsThere(chat')
    BY <1>5, <1>7, FolderActionsActive DEF IInv, ActiveConversationExists
  <2> QED BY <1>4, <2>1, <2>2, <2>3, RestTyped
          DEF IInv, TypeOK, FolderForest, ActiveConversationExists
<1>8. CASE chat' = MoveConversation(chat, drag.item[2], target)
  <2>1. /\ ChatType(chat', ConvId', FolderId')
        /\ chat'.folders = chat.folders /\ chat'.active = chat.active
        /\ DOMAIN chat'.convs = DOMAIN chat.convs
    <3> DEFINE c == drag.item[2]
    <3>1. target \in FolderId' \union {Null}
      BY <1>4
    <3> HIDE DEF c
    <3>2. /\ ChatType(MoveConversation(chat, c, target), ConvId', FolderId')
          /\ MoveConversation(chat, c, target).folders = chat.folders
          /\ MoveConversation(chat, c, target).active = chat.active
          /\ DOMAIN MoveConversation(chat, c, target).convs = DOMAIN chat.convs
      BY ONLY <1>5, <3>1, MoveConversationType
    <3> QED BY <1>8, <3>2 DEF c
  <2> QED BY <1>4, <2>1, RestTyped
          DEF IInv, TypeOK, FolderForest, ActiveConversationExists, ActiveIsThere
<1> QED BY <1>3, <1>6, <1>7, <1>8

-----------------------------------------------------------------------------
LEMMA StepIInv == IInv /\ [Next]_vars => IInv'
<1> SUFFICES ASSUME IInv, [Next]_vars PROVE IInv'
  OBVIOUS
<1>1. CASE UNCHANGED vars
  BY <1>1 DEF IInv, TypeOK, FolderForest, ActiveConversationExists, ConvId, FolderId,
              vars, ids, ui
<1>2. CASE HandlePaste
  BY <1>2, StepPasteConversation, StepPasteFolder DEF HandlePaste
<1> QED BY <1>1, <1>2, StepSelect, StepNewConversation, StepNewFolder, StepRenameFolder,
           StepRemember, StepConfirmDelete, StepMouseDown, StepMouseUp DEF Next

LEMMA Invariance == Spec => []IInv
BY InitIInv, StepIInv, PTL DEF Spec

\* Whatever handlers run in whatever order, every id that the sidebar or the
\* chat state remembers is one that was issued.
THEOREM TypeCorrect == Spec => []TypeOK
<1>1. IInv => TypeOK
  BY DEF IInv
<1> QED BY <1>1, Invariance, PTL

\* The folders always form a forest: no drag, paste or deletion makes a folder
\* its own ancestor, so rendering the tree and isSelfOrDescendant terminate.
THEOREM FoldersFormForest == Spec => []FolderForest
<1>1. IInv => FolderForest
  BY DEF IInv
<1> QED BY <1>1, Invariance, PTL

\* The chat window never shows a conversation that is gone.
THEOREM ActiveExists == Spec => []ActiveConversationExists
<1>1. IInv => ActiveConversationExists
  BY DEF IInv
<1> QED BY <1>1, Invariance, PTL

-----------------------------------------------------------------------------
(***************************************************************************)
(* No conversation is lost.                                                *)
(***************************************************************************)

LEMMA CreateAddsConversation ==
  ASSUME NEW s, NEW C, NEW F, NEW c, NEW conv, ChatType(s, C, F)
  PROVE  DOMAIN CreateConversation(s, c, conv).convs = DOMAIN s.convs \union {c}
BY DEF ChatType, CreateConversation, Update

LEMMA DeleteRemovesConversation ==
  ASSUME NEW s, NEW C, NEW F, NEW c, ChatType(s, C, F)
  PROVE  DOMAIN DeleteConversation(s, c).convs = DOMAIN s.convs \ {c}
BY DEF ChatType, DeleteConversation, Restrict

LEMMA FolderActionsKeepConversations ==
  ASSUME NEW s, NEW C, NEW F, NEW f, NEW p, ChatType(s, C, F)
  PROVE  /\ DOMAIN CreateFolder(s, f, p).convs = DOMAIN s.convs
         /\ DOMAIN UpdateFolder(s, f, p).convs = DOMAIN s.convs
         /\ DOMAIN MoveFolder(s, f, p).convs = DOMAIN s.convs
BY DEF ChatType, CreateFolder, UpdateFolder, MoveFolder

LEMMA DeleteFolderKeepsConversations ==
  ASSUME NEW s, NEW C, NEW F, NEW f, ChatType(s, C, F)
  PROVE  DOMAIN DeleteFolder(s, f).convs = DOMAIN s.convs
BY DEF ChatType, DeleteFolder

\* One element goes, another comes.
LEMMA Exchange ==
  ASSUME NEW S, IsFiniteSet(S), NEW x \in S, NEW y, y \notin S
  PROVE  Cardinality((S \union {y}) \ {x}) = Cardinality(S)
<1>1. IsFiniteSet(S \union {y}) /\ Cardinality(S \union {y}) = Cardinality(S) + 1
  BY FS_AddElement
<1>2. Cardinality((S \union {y}) \ {x}) = Cardinality(S \union {y}) - 1
  BY <1>1, FS_RemoveElement
<1>3. Cardinality(S) \in Nat
  BY FS_CardinalityType
<1> QED BY <1>1, <1>2, <1>3

\* A conversation disappears only when its deletion is confirmed, or when a cut
\* of it is pasted, and then its copy is there instead.
THEOREM ConversationsKept == Spec => NoConversationLost
<1> DEFINE Kept == \A c \in Conversations \ DOMAIN chat'.convs :
                     \/ deleteConfirm = <<"conversation", c>> /\ deleteConfirm' = Null
                     \/ /\ clipboard = <<"cut", "conversation", c>>
                        /\ Cardinality(DOMAIN chat'.convs) = Cardinality(Conversations)
<1>1. IInv /\ [Next]_vars => [Kept]_vars
  <2> SUFFICES ASSUME IInv, Next PROVE Kept
    BY DEF vars
  <2>1. /\ ChatType(chat, ConvId, FolderId) /\ ConvId \subseteq Nat /\ convIds \in Nat
        /\ convIds + 1 \notin Conversations
    BY SidebarAssumption DEF IInv, TypeOK, ConvId, ChatType, Conversations
  <2>2. CASE Conversations \subseteq DOMAIN chat'.convs
    BY <2>2
  <2>3. CASE SelectConversation \/ SelectFolder
    <3>1. PICK c : chat' = SetActiveConversation(chat, c)
      BY <2>3 DEF SelectConversation, SelectFolder
    <3>2. chat'.convs = chat.convs
      BY <2>1, <3>1, SetActiveType
    <3> QED BY <2>2, <3>2 DEF Conversations
  <2>4. CASE HandleNewConversation \/ HandleNewFolder \/ ImportFinishes \/ HandleRenameFolder
    <3>1. \/ \E conv : chat' = CreateConversation(chat, convIds', conv)
          \/ \E f, p : chat' \in {CreateFolder(chat, f, p), UpdateFolder(chat, f, p)}
      BY <2>4 DEF HandleNewConversation, HandleNewFolder, ImportFinishes, HandleRenameFolder
    <3>2. \A conv : DOMAIN CreateConversation(chat, convIds', conv).convs = Conversations \union {convIds'}
      BY <2>1, CreateAddsConversation DEF Conversations
    <3>3. \A f, p : /\ DOMAIN CreateFolder(chat, f, p).convs = Conversations
                    /\ DOMAIN UpdateFolder(chat, f, p).convs = Conversations
      BY <2>1, FolderActionsKeepConversations DEF Conversations
    <3> QED BY <2>2, <3>1, <3>2, <3>3
  <2>5. CASE UNCHANGED chat
    BY <2>5 DEF Conversations
  <2>6. ASSUME HandlePaste, NEW keeps \in BOOLEAN, PasteConversation(keeps), clipboard # Null,
               clipboard[2] = "conversation"
        PROVE  Kept
    <3> DEFINE source  == clipboard[3]
               created == CreateConversation(chat, convIds',
                            [chat.convs[source] EXCEPT !.folder = selectedFolder])
    <3>1. /\ source \in Conversations /\ convIds' = convIds + 1
          /\ chat' = IF clipboard[1] = "cut" THEN DeleteConversation(created, source) ELSE created
      BY <2>6 DEF PasteConversation
    <3>2. /\ ChatType(chat, ConvId', FolderId) /\ convIds' \in ConvId'
      <4>1. ConvId \subseteq ConvId' /\ convIds' \in ConvId'
        BY <2>1, <3>1 DEF ConvId
      <4> QED BY <2>1, <4>1, ChatTypeGrows
    <3>3. DOMAIN created.convs = Conversations \union {convIds'}
      BY <2>1, CreateAddsConversation DEF Conversations
    <3>4. CASE clipboard[1] # "cut"
      BY <2>2, <3>1, <3>3, <3>4
    <3>5. CASE clipboard[1] = "cut"
      <4>1. /\ DOMAIN [chat.convs[source] EXCEPT !.folder = selectedFolder] = DOMAIN NewConversation(Null)
            /\ [chat.convs[source] EXCEPT !.folder = selectedFolder].folder = selectedFolder
            /\ selectedFolder \in FolderId \union {Null}
        BY <2>1, <3>1 DEF ChatType, NewConversation, Conversations, IInv, TypeOK
      <4>2. ChatType(created, ConvId', FolderId)
        BY <3>2, <4>1, CreateConversationType
      <4> HIDE DEF created
      <4>3. DOMAIN chat'.convs = (Conversations \union {convIds'}) \ {source}
        BY <3>1, <3>3, <3>5, <4>2, DeleteRemovesConversation
      <4>4. IsFiniteSet(Conversations)
        BY <2>1, FS_Interval, FS_Subset DEF ConvId, Conversations, ChatType
      <4>5. Cardinality(DOMAIN chat'.convs) = Cardinality(Conversations)
        BY <2>1, <3>1, <4>3, <4>4, Exchange
      <4>6. clipboard = <<"cut", "conversation", source>>
        BY <2>6, <3>5 DEF IInv, TypeOK
      <4> QED BY <4>3, <4>5, <4>6
    <3> QED BY <3>4, <3>5
  <2>7. ASSUME HandlePaste, NEW keeps \in BOOLEAN, PasteFolder(keeps)
        PROVE  Kept
    <3> DEFINE created == CreateFolder(chat, folderIds', selectedFolder)
    <3>1. chat' \in {created, DeleteFolder(created, clipboard[3])}
          /\ folderIds' = folderIds + 1 /\ folderIds \in Nat
      BY <2>7 DEF PasteFolder, IInv, TypeOK
    <3>2. DOMAIN created.convs = Conversations
      BY <2>1, FolderActionsKeepConversations DEF Conversations
    <3>3. ChatType(created, ConvId, FolderId')
      <4>1. FolderId \subseteq FolderId' /\ folderIds' \in FolderId'
        BY <3>1 DEF FolderId
      <4>2. selectedFolder \in FolderId' \union {Null} /\ ChatType(chat, ConvId, FolderId')
        BY <2>1, <4>1, ChatTypeGrows DEF IInv, TypeOK
      <4> QED BY <4>1, <4>2, CreateFolderType
    <3> HIDE DEF created
    <3>4. DOMAIN chat'.convs = Conversations
      BY <3>1, <3>2, <3>3, DeleteFolderKeepsConversations
    <3> QED BY <2>2, <3>4
  <2>8. CASE HandlePaste
    BY <2>6, <2>7, <2>8 DEF HandlePaste
  <2>9. CASE HandleConfirmDelete
    <3>1. CASE deleteConfirm[1] = "conversation"
      <4>1. DOMAIN chat'.convs = Conversations \ {deleteConfirm[2]}
        BY <2>1, <2>9, <3>1, DeleteRemovesConversation DEF HandleConfirmDelete, Conversations
      <4>2. deleteConfirm = <<"conversation", deleteConfirm[2]>> /\ deleteConfirm' = Null
        BY <2>9, <3>1 DEF HandleConfirmDelete, IInv, TypeOK
      <4> QED BY <4>1, <4>2
    <3>2. CASE deleteConfirm[1] # "conversation"
      BY <2>1, <2>2, <2>9, <3>2, DeleteFolderKeepsConversations DEF HandleConfirmDelete, Conversations
    <3> QED BY <3>1, <3>2
  <2>10. CASE HandleMouseUp
    <3>1. PICK target : DropOn(target)
      BY <2>10 DEF HandleMouseUp
    <3>2. chat' \in {chat, MoveFolder(chat, drag.item[2], target),
                     MoveConversation(chat, drag.item[2], target)}
      BY <3>1 DEF DropOn
    <3>3. DOMAIN MoveConversation(chat, drag.item[2], target).convs = Conversations
      BY <2>1 DEF ChatType, MoveConversation, Conversations
    <3>4. DOMAIN MoveFolder(chat, drag.item[2], target).convs = Conversations
      BY <2>1, FolderActionsKeepConversations DEF Conversations
    <3> QED BY <2>1, <2>2, <3>2, <3>3, <3>4 DEF Conversations
  <2> QED BY <2>3, <2>4, <2>5, <2>8, <2>9, <2>10
          DEF Next, HandleCopyOrCut, ClearClipboard, RequestDelete, CancelDelete,
              HandleMouseDown, DragCancelled, RemountSidebar
<1> QED BY <1>1, Invariance, PTL DEF Spec, NoConversationLost

-----------------------------------------------------------------------------
(***************************************************************************)
(* What stays in the rendered tree.                                        *)
(***************************************************************************)

\* A new folder, whose id nobody knows yet, hides nothing.
LEMMA CreateKeepsRendered ==
  ASSUME NEW old, NEW F, NEW f, NEW p, NEW x,
         DOMAIN old \subseteq F, \A g \in DOMAIN old : old[g] \in F \union {Null},
         f \notin F, f # Null, Rendered(old, x)
  PROVE  Rendered(Update(old, f, p), x)
<1> DEFINE new == Update(old, f, p)
<1>1. DOMAIN new = DOMAIN old \union {f} /\ \A g \in DOMAIN old : new[g] = old[g] /\ g # f
  BY DEF Update
<1> HIDE DEF new
<1> SUFFICES ASSUME NEW S \in SUBSET DOMAIN new, x \in S,
                    \A g \in S : new[g] \in DOMAIN new => new[g] \in S
             PROVE  \E g \in S : new[g] = Null
  BY <1>1 DEF Rendered, new
<1>2. S \ {f} \in SUBSET DOMAIN old /\ x \in S \ {f}
  BY <1>1 DEF Rendered
<1>3. \A g \in S \ {f} : old[g] \in DOMAIN old => old[g] \in S \ {f}
  BY <1>1, <1>2
<1>4. PICK g \in S \ {f} : old[g] = Null
  BY <1>2, <1>3 DEF Rendered
<1> QED BY <1>1, <1>2, <1>4

\* Deleting a folder hides only what lies below it.
LEMMA DeleteHidesDescendants ==
  ASSUME NEW old, NEW f, NEW x, Rendered(old, x), x # f,
         ~Rendered(Restrict(old, DOMAIN old \ {f}), x)
  PROVE  IsSelfOrDescendant(old, f, x)
<1> DEFINE new == Restrict(old, DOMAIN old \ {f})
<1>1. DOMAIN new = DOMAIN old \ {f} /\ \A g \in DOMAIN new : new[g] = old[g]
  BY DEF Restrict
<1>2. x \in DOMAIN new /\ ~Rendered(new, x)
  BY <1>1 DEF Rendered
<1> HIDE DEF new
<1> SUFFICES ASSUME NEW D \in SUBSET DOMAIN old, f \in D,
                    \A g \in DOMAIN old : old[g] \in D => g \in D,
                    x \notin D
             PROVE  FALSE
  BY DEF IsSelfOrDescendant
<1>3. PICK S \in SUBSET DOMAIN new :
        /\ x \in S /\ \A g \in S : new[g] \in DOMAIN new => new[g] \in S
        /\ \A g \in S : new[g] # Null
  BY <1>2 DEF Rendered
<1>4. S \ D \in SUBSET DOMAIN old /\ x \in S \ D
  BY <1>1, <1>3
<1>5. \A g \in S \ D : old[g] \in DOMAIN old => old[g] \in S \ D
  BY <1>1, <1>3, <1>4
<1>6. PICK g \in S \ D : old[g] = Null
  BY <1>4, <1>5 DEF Rendered
<1> QED BY <1>1, <1>3, <1>6

\* A move under a rendered folder that is not below the moved one, or to the
\* root, hides nothing.
LEMMA MoveKeepsRendered ==
  ASSUME NEW old, NEW f \in DOMAIN old, NEW p, NEW x, Rendered(old, x),
         Null \notin DOMAIN old,
         p = Null \/ (Rendered(old, p) /\ ~IsSelfOrDescendant(old, f, p))
  PROVE  Rendered([old EXCEPT ![f] = p], x)
<1> DEFINE new == [old EXCEPT ![f] = p]
<1>1. DOMAIN new = DOMAIN old /\ new[f] = p /\ \A g \in DOMAIN old \ {f} : new[g] = old[g]
  OBVIOUS
<1> HIDE DEF new
<1> SUFFICES ASSUME NEW S \in SUBSET DOMAIN old, x \in S,
                    \A g \in S : new[g] \in DOMAIN new => new[g] \in S
             PROVE  \E g \in S : new[g] = Null
  BY <1>1 DEF Rendered, new
<1>2. CASE f \notin S
  BY <1>1, <1>2 DEF Rendered
<1>3. CASE f \in S /\ p = Null
  BY <1>1, <1>3
<1>4. CASE f \in S /\ p # Null
  <2>1. p \in S
    BY <1>1, <1>4 DEF Rendered
  <2>2. PICK D \in SUBSET DOMAIN old :
          f \in D /\ p \notin D /\ \A g \in DOMAIN old : old[g] \in D => g \in D
    BY <1>4 DEF IsSelfOrDescendant
  <2>3. S \ D \in SUBSET DOMAIN old /\ p \in S \ D
    BY <2>1, <2>2
  <2>4. \A g \in S \ D : old[g] \in DOMAIN old => old[g] \in S \ D
    BY <1>1, <2>2
  <2>5. PICK g \in S \ D : old[g] = Null
    BY <1>4, <2>3, <2>4 DEF Rendered
  <2> QED BY <1>1, <2>2, <2>5
<1> QED BY <1>2, <1>3, <1>4

\* What is below f after a folder was created was below it before.
LEMMA DescendantBeforeCreate ==
  ASSUME NEW old, NEW F, NEW n, NEW p, NEW f \in DOMAIN old, NEW x \in DOMAIN old,
         DOMAIN old \subseteq F, \A g \in DOMAIN old : old[g] \in F \union {Null},
         n \notin F, n # Null,
         IsSelfOrDescendant(Update(old, n, p), f, x)
  PROVE  IsSelfOrDescendant(old, f, x)
<1> DEFINE new == Update(old, n, p)
<1>1. DOMAIN new = DOMAIN old \union {n} /\ \A g \in DOMAIN old : new[g] = old[g] /\ g # n /\ old[g] # n
  BY DEF Update
<1> HIDE DEF new
<1> SUFFICES ASSUME NEW D \in SUBSET DOMAIN old, f \in D,
                    \A g \in DOMAIN old : old[g] \in D => g \in D
             PROVE  x \in D
  BY DEF IsSelfOrDescendant
<1>2. D \union {n} \in SUBSET DOMAIN new /\ f \in D \union {n}
  BY <1>1
<1>3. \A g \in DOMAIN new : new[g] \in D \union {n} => g \in D \union {n}
  BY <1>1
<1>4. x \in D \union {n}
  BY <1>2, <1>3 DEF IsSelfOrDescendant, new
<1> QED BY <1>1, <1>4

\* Conversations are hidden only with their folder.
LEMMA SameFoldersRendered ==
  ASSUME NEW s, NEW t, t.folders = s.folders, NEW c \in DOMAIN s.convs \intersect DOMAIN t.convs,
         t.convs[c].folder = s.convs[c].folder, ConversationRendered(s, c)
  PROVE  ConversationRendered(t, c)
BY DEF ConversationRendered

-----------------------------------------------------------------------------
(***************************************************************************)
(* What the reducer's actions do to the conversations they are not about.  *)
(***************************************************************************)

LEMMA CreateConversationElsewhere ==
  ASSUME NEW s, NEW C, NEW F, NEW c, NEW conv, ChatType(s, C, F)
  PROVE  \A d \in DOMAIN s.convs : CreateConversation(s, c, conv).convs[d] = s.convs[d]
BY DEF ChatType, CreateConversation, Update

LEMMA DeleteConversationElsewhere ==
  ASSUME NEW s, NEW C, NEW F, NEW c, ChatType(s, C, F)
  PROVE  \A d \in DOMAIN DeleteConversation(s, c).convs :
           d \in DOMAIN s.convs /\ DeleteConversation(s, c).convs[d] = s.convs[d]
BY DEF ChatType, DeleteConversation, Restrict

LEMMA CreateFolderElsewhere ==
  ASSUME NEW s, NEW C, NEW F, NEW f, NEW p, ChatType(s, C, F), f \notin DOMAIN s.folders
  PROVE  /\ CreateFolder(s, f, p).convs = s.convs
         /\ CreateFolder(s, f, p).folders = Update(s.folders, f, p)
BY DEF ChatType, CreateFolder

LEMMA DeleteFolderFolders ==
  ASSUME NEW s, NEW C, NEW F, NEW f \in DOMAIN s.folders, ChatType(s, C, F)
  PROVE  DeleteFolder(s, f).folders = Restrict(s.folders, DOMAIN s.folders \ {f})
BY DEF ChatType, DeleteFolder

LEMMA DeleteFolderLeaves ==
  ASSUME NEW s, NEW C, NEW F, NEW f, ChatType(s, C, F)
  PROVE  DOMAIN DeleteFolder(s, f).folders = DOMAIN s.folders \ {f}
<1>1. CASE f \notin DOMAIN s.folders
  BY <1>1 DEF DeleteFolder
<1>2. CASE f \in DOMAIN s.folders
  <2>1. DeleteFolder(s, f).folders = Restrict(s.folders, DOMAIN s.folders \ {f})
    BY <1>2, DeleteFolderFolders
  <2> QED BY <2>1 DEF Restrict
<1> QED BY <1>1, <1>2

LEMMA DeleteFolderConversation ==
  ASSUME NEW s, NEW C, NEW F, NEW f, NEW c \in DOMAIN s.convs, ChatType(s, C, F)
  PROVE  DeleteFolder(s, f).convs[c].folder =
           IF f \in DOMAIN s.folders /\ s.convs[c].folder = f THEN Null ELSE s.convs[c].folder
<1>1. CASE f \notin DOMAIN s.folders
  BY <1>1 DEF DeleteFolder
<1>2. CASE f \in DOMAIN s.folders
  <2>1. DeleteFolder(s, f).convs = [d \in DOMAIN s.convs |->
          IF s.convs[d].folder = f THEN [s.convs[d] EXCEPT !.folder = Null] ELSE s.convs[d]]
    BY <1>2 DEF ChatType, DeleteFolder
  <2>2. [s.convs[c] EXCEPT !.folder = Null].folder = Null
    BY DEF ChatType, NewConversation
  <2> QED BY <1>2, <2>1, <2>2
<1> QED BY <1>1, <1>2

\* The conversations directly inside a deleted folder stay in reach.
LEMMA DeleteFolderHides ==
  ASSUME NEW s, NEW C, NEW F, NEW f, NEW c \in DOMAIN s.convs, ChatType(s, C, F),
         ConversationRendered(s, c), ~ConversationRendered(DeleteFolder(s, f), c)
  PROVE  /\ f \in DOMAIN s.folders \ {s.convs[c].folder}
         /\ s.convs[c].folder \in DOMAIN s.folders
         /\ IsSelfOrDescendant(s.folders, f, s.convs[c].folder)
<1> DEFINE t == DeleteFolder(s, f)
           x == s.convs[c].folder
<1>1. f \in DOMAIN s.folders
  BY DEF DeleteFolder
<1>2. /\ t.folders = Restrict(s.folders, DOMAIN s.folders \ {f})
      /\ t.convs[c].folder = IF x = f THEN Null ELSE x
      /\ c \in DOMAIN t.convs
  <2>1. t.folders = Restrict(s.folders, DOMAIN s.folders \ {f})
    BY <1>1, DeleteFolderFolders
  <2>2. \A d \in DOMAIN s.convs :
          t.convs[d].folder = IF f \in DOMAIN s.folders /\ s.convs[d].folder = f
                              THEN Null ELSE s.convs[d].folder
    BY DeleteFolderConversation
  <2>3. DOMAIN t.convs = DOMAIN s.convs
    BY DeleteFolderKeepsConversations
  <2> QED BY <1>1, <2>1, <2>2, <2>3
<1> HIDE DEF t
<1>3. x # f /\ x # Null /\ Rendered(s.folders, x) /\ ~Rendered(t.folders, x)
  BY <1>2 DEF ConversationRendered, t
<1> QED BY <1>1, <1>2, <1>3, DeleteHidesDescendants DEF Rendered

\* A drop on the root or on a rendered folder.
LEMMA MovesKeepRendered ==
  ASSUME NEW s, NEW C, NEW F, NEW i, NEW p, NEW c \in DOMAIN s.convs, ChatType(s, C, F), Null \notin F,
         p = Null \/ Rendered(s.folders, p),
         ConversationRendered(s, c)
  PROVE  /\ ConversationRendered(MoveFolder(s, i, p), c)
         /\ ConversationRendered(MoveConversation(s, i, p), c)
<1>1. ConversationRendered(MoveFolder(s, i, p), c)
  <2>1. CASE MoveFolder(s, i, p) = s
    BY <2>1
  <2>2. CASE i \in DOMAIN s.folders /\ (p = Null \/ ~IsSelfOrDescendant(s.folders, i, p))
    <3>1. /\ MoveFolder(s, i, p).folders = [s.folders EXCEPT ![i] = p]
          /\ MoveFolder(s, i, p).convs = s.convs
      BY <2>2 DEF ChatType, MoveFolder
    <3>2. Null \notin DOMAIN s.folders
      BY DEF ChatType
    <3>3. \A x : Rendered(s.folders, x) => Rendered([s.folders EXCEPT ![i] = p], x)
      <4> SUFFICES ASSUME NEW x, Rendered(s.folders, x)
                   PROVE  Rendered([s.folders EXCEPT ![i] = p], x)
        OBVIOUS
      <4>1. p = Null \/ (Rendered(s.folders, p) /\ ~IsSelfOrDescendant(s.folders, i, p))
        BY <2>2
      <4> QED BY <2>2, <3>2, <4>1, MoveKeepsRendered
    <3> QED BY <3>1, <3>3 DEF ConversationRendered
  <2> QED BY <2>1, <2>2 DEF MoveFolder
<1>2. ConversationRendered(MoveConversation(s, i, p), c)
  <2>1. CASE i \notin DOMAIN s.convs
    BY <2>1 DEF MoveConversation
  <2>2. CASE i \in DOMAIN s.convs
    <3> DEFINE t == MoveConversation(s, i, p)
    <3>1. /\ t.folders = s.folders /\ DOMAIN t.convs = DOMAIN s.convs
          /\ t.convs[c].folder = IF c = i THEN p ELSE s.convs[c].folder
      BY <2>2 DEF ChatType, MoveConversation, NewConversation
    <3> QED BY <3>1 DEF ConversationRendered
  <2> QED BY <2>1, <2>2
<1> QED BY <1>1, <1>2

-----------------------------------------------------------------------------
(***************************************************************************)
(* What a drag has seen.                                                   *)
(***************************************************************************)

\* During a drag a conversation leaves its folder only when that is deleted:
\* only the mouse moves things, and the mouse is busy.
DropsWhereSeen ==
  drag # Null => \A c \in Conversations \intersect DOMAIN drag.seen.convs :
    \/ chat.convs[c].folder = drag.seen.convs[c].folder
    \/ drag.seen.convs[c].folder \notin Folders \union {Null}

DInv == IInv /\ DropsWhereSeen

\* A step of another handler during the drag.
LEMMA SeenStaysSeen ==
  ASSUME DInv, drag' = drag, drag # Null,
         \A c \in DOMAIN chat'.convs \intersect ConvId :
            /\ c \in Conversations
            /\ \/ chat'.convs[c].folder = chat.convs[c].folder
               \/ chat.convs[c].folder \notin DOMAIN chat'.folders \union {Null},
         DOMAIN chat'.folders \intersect FolderId \subseteq Folders
  PROVE  DropsWhereSeen'
<1> SUFFICES ASSUME NEW c \in DOMAIN chat'.convs \intersect DOMAIN drag.seen.convs
             PROVE  \/ chat'.convs[c].folder = drag.seen.convs[c].folder
                    \/ drag.seen.convs[c].folder \notin DOMAIN chat'.folders \union {Null}
  BY DEF DropsWhereSeen, Conversations, Folders
<1>1. /\ c \in ConvId /\ drag.seen.convs[c].folder \in FolderId \union {Null}
      /\ Null \notin FolderId
  BY SidebarAssumption DEF DInv, IInv, TypeOK, ChatType, FolderId
<1>2. \/ chat.convs[c].folder = drag.seen.convs[c].folder
      \/ drag.seen.convs[c].folder \notin Folders \union {Null}
  BY <1>1 DEF DInv, DropsWhereSeen
<1> QED BY <1>1, <1>2

LEMMA DropsWhereSeenKept == DInv /\ [Next]_vars => DropsWhereSeen'
<1> SUFFICES ASSUME DInv, [Next]_vars PROVE DropsWhereSeen'
  OBVIOUS
<1>1. CASE drag' = Null
  BY <1>1 DEF DropsWhereSeen
<1>2. CASE HandleMouseDown
  <2>1. PICK item : drag' = [item |-> item, startFolder |-> FolderOf(chat, item), seen |-> chat]
    BY <1>2 DEF HandleMouseDown
  <2>2. chat' = chat /\ drag'.seen = chat
    BY <1>2, <2>1 DEF HandleMouseDown
  <2> QED BY <2>2 DEF DropsWhereSeen, Conversations, Folders
<1>3. CASE UNCHANGED <<chat, drag>>
  BY <1>3 DEF DInv, DropsWhereSeen, Conversations, Folders
<1>4. ASSUME drag' = drag, drag # Null, ImportFinishes \/ HandlePaste \/ HandleConfirmDelete
      PROVE  DropsWhereSeen'
  <2>1. /\ ChatType(chat, ConvId, FolderId) /\ convIds \in Nat /\ folderIds \in Nat
        /\ convIds + 1 \notin ConvId /\ folderIds + 1 \notin FolderId /\ Null \notin FolderId
    BY SidebarAssumption DEF DInv, IInv, TypeOK, ConvId, FolderId
  <2>2. CASE ImportFinishes
    <3>1. PICK conv : chat' = CreateConversation(chat, convIds + 1, conv)
      BY <2>2 DEF ImportFinishes
    <3>2. /\ DOMAIN chat'.convs = Conversations \union {convIds + 1} /\ chat'.folders = chat.folders
          /\ \A d \in Conversations : chat'.convs[d] = chat.convs[d]
      BY <2>1, <3>1, CreateAddsConversation, CreateConversationElsewhere, FoldersUntouched DEF Conversations
    <3> QED BY <1>4, <2>1, <3>2, SeenStaysSeen DEF Folders
  <2>3. ASSUME NEW keeps \in BOOLEAN, PasteConversation(keeps) PROVE DropsWhereSeen'
    <3> DEFINE source  == clipboard[3]
               copy    == [chat.convs[source] EXCEPT !.folder = selectedFolder]
               created == CreateConversation(chat, convIds + 1, copy)
    <3>1. /\ source \in Conversations
          /\ chat' \in {created, DeleteConversation(created, source)}
      BY <2>3 DEF PasteConversation
    <3>2. /\ DOMAIN copy = DOMAIN NewConversation(Null) /\ copy.folder = selectedFolder
          /\ selectedFolder \in FolderId \union {Null}
      BY <2>1, <3>1 DEF ChatType, NewConversation, Conversations, DInv, IInv, TypeOK
    <3>3. /\ DOMAIN created.convs = Conversations \union {convIds + 1} /\ created.folders = chat.folders
          /\ \A d \in Conversations : created.convs[d] = chat.convs[d]
      BY <2>1, CreateAddsConversation, CreateConversationElsewhere, FoldersUntouched DEF Conversations
    <3>4. ChatType(created, ConvId \union {convIds + 1}, FolderId)
      <4> HIDE DEF copy
      <4>1. ChatType(chat, ConvId \union {convIds + 1}, FolderId)
        BY <2>1, ChatTypeGrows
      <4> QED BY <3>2, <4>1, CreateConversationType
    <3> HIDE DEF created
    <3>5. /\ DeleteConversation(created, source).folders = created.folders
          /\ \A d \in DOMAIN DeleteConversation(created, source).convs :
               d \in DOMAIN created.convs /\ DeleteConversation(created, source).convs[d] = created.convs[d]
      BY <3>4, FoldersUntouched, DeleteConversationElsewhere
    <3>6. /\ chat'.folders = chat.folders
          /\ \A d \in DOMAIN chat'.convs :
               d \in Conversations \union {convIds + 1} /\ chat'.convs[d] = created.convs[d]
      BY <3>1, <3>3, <3>5
    <3> QED BY <1>4, <2>1, <3>3, <3>6, SeenStaysSeen DEF Folders
  <2>4. ASSUME NEW keeps \in BOOLEAN, PasteFolder(keeps) PROVE DropsWhereSeen'
    <3> DEFINE source  == clipboard[3]
               created == CreateFolder(chat, folderIds + 1, selectedFolder)
    <3>1. chat' \in {created, DeleteFolder(created, source)}
      BY <2>4 DEF PasteFolder
    <3>2. /\ created.convs = chat.convs /\ DOMAIN created.folders = Folders \union {folderIds + 1}
      <4>1. folderIds + 1 \notin DOMAIN chat.folders
        BY <2>1 DEF ChatType
      <4>2. /\ created.convs = chat.convs
            /\ created.folders = Update(chat.folders, folderIds + 1, selectedFolder)
        BY <2>1, <4>1, CreateFolderElsewhere
      <4> HIDE DEF created
      <4> QED BY <4>2 DEF Update, Folders
    <3>3. ChatType(created, ConvId, FolderId \union {folderIds + 1})
      <4>1. ChatType(chat, ConvId, FolderId \union {folderIds + 1}) /\ selectedFolder \in FolderId \union {Null}
        BY <2>1, ChatTypeGrows DEF DInv, IInv, TypeOK
      <4> QED BY <4>1, CreateFolderType
    <3> HIDE DEF created
    <3>4. /\ DOMAIN chat'.convs = Conversations /\ DOMAIN chat'.folders \subseteq Folders \union {folderIds + 1}
          /\ \A c \in Conversations : \/ chat'.convs[c].folder = chat.convs[c].folder
                                      \/ chat.convs[c].folder \notin DOMAIN chat'.folders \union {Null}
      <4>1. CASE chat' = created
        BY <3>2, <4>1 DEF Conversations
      <4>2. CASE chat' = DeleteFolder(created, source)
        <5>1. /\ DOMAIN chat'.folders = DOMAIN created.folders \ {source}
              /\ DOMAIN chat'.convs = DOMAIN created.convs
              /\ \A c \in DOMAIN created.convs :
                   chat'.convs[c].folder =
                     IF source \in DOMAIN created.folders /\ created.convs[c].folder = source
                     THEN Null ELSE created.convs[c].folder
          <6>1. DOMAIN DeleteFolder(created, source).folders = DOMAIN created.folders \ {source}
            BY <3>3, DeleteFolderLeaves
          <6>3. \A c \in DOMAIN created.convs :
                  DeleteFolder(created, source).convs[c].folder =
                    IF source \in DOMAIN created.folders /\ created.convs[c].folder = source
                    THEN Null ELSE created.convs[c].folder
            <7> HIDE DEF source
            <7> QED BY <3>3, DeleteFolderConversation
          <6>2. DOMAIN DeleteFolder(created, source).convs = DOMAIN created.convs
            BY <3>3, DeleteFolderKeepsConversations
          <6> QED BY <4>2, <6>1, <6>2, <6>3
        <5>2. Null \notin FolderId \union {folderIds + 1}
          BY <2>1, SidebarAssumption
        <5>3. DOMAIN created.folders \subseteq FolderId \union {folderIds + 1}
          BY <3>3 DEF ChatType
        <5> QED BY <3>2, <5>1, <5>2, <5>3 DEF Conversations
      <4> QED BY <3>1, <4>1, <4>2
    <3> QED BY <1>4, <2>1, <3>4, SeenStaysSeen
  <2>5. CASE HandlePaste
    BY <2>3, <2>4, <2>5 DEF HandlePaste
  <2>6. CASE HandleConfirmDelete
    <3>1. CASE chat' = DeleteConversation(chat, deleteConfirm[2])
      <4>1. /\ chat'.folders = chat.folders
            /\ \A d \in DOMAIN chat'.convs : d \in Conversations /\ chat'.convs[d] = chat.convs[d]
        BY <2>1, <3>1, FoldersUntouched, DeleteConversationElsewhere DEF Conversations
      <4> QED BY <1>4, <4>1, SeenStaysSeen DEF Folders
    <3>2. CASE chat' = DeleteFolder(chat, deleteConfirm[2])
      <4>1. /\ DOMAIN chat'.folders = Folders \ {deleteConfirm[2]}
            /\ DOMAIN chat'.convs = Conversations
            /\ \A c \in Conversations :
                 chat'.convs[c].folder =
                   IF deleteConfirm[2] \in Folders /\ chat.convs[c].folder = deleteConfirm[2]
                   THEN Null ELSE chat.convs[c].folder
        <5> DEFINE f == deleteConfirm[2]
        <5> HIDE DEF f
        <5>1. DOMAIN DeleteFolder(chat, f).folders = DOMAIN chat.folders \ {f}
          BY <2>1, DeleteFolderLeaves
        <5>3. \A c \in DOMAIN chat.convs :
                DeleteFolder(chat, f).convs[c].folder =
                  IF f \in DOMAIN chat.folders /\ chat.convs[c].folder = f
                  THEN Null ELSE chat.convs[c].folder
          BY <2>1, DeleteFolderConversation
        <5>2. DOMAIN DeleteFolder(chat, f).convs = DOMAIN chat.convs
          BY <2>1, DeleteFolderKeepsConversations
        <5> QED BY <3>2, <5>1, <5>2, <5>3 DEF Conversations, Folders, f
      <4>2. Null \notin Folders
        BY <2>1 DEF ChatType, Folders
      <4> QED BY <1>4, <4>1, <4>2, SeenStaysSeen
    <3> QED BY <2>6, <3>1, <3>2 DEF HandleConfirmDelete
  <2> QED BY <1>4, <2>2, <2>5, <2>6
<1>5. CASE ImportFinishes \/ HandlePaste \/ HandleConfirmDelete
  <2>1. drag' = drag
    BY <1>5 DEF ImportFinishes, HandlePaste, HandleConfirmDelete, ui
  <2> QED BY <1>1, <1>4, <1>5, <2>1
<1>6. CASE SelectConversation \/ SelectFolder \/ HandleNewConversation \/ HandleNewFolder
             \/ HandleRenameFolder \/ HandleMouseUp \/ DragCancelled \/ RemountSidebar
  BY <1>1, <1>6 DEF SelectConversation, SelectFolder, HandleNewConversation, HandleNewFolder,
     HandleRenameFolder, HandleMouseUp, DragCancelled, RemountSidebar, MouseFree, ui
<1>7. CASE HandleCopyOrCut \/ ClearClipboard \/ RequestDelete \/ CancelDelete
  BY <1>3, <1>7 DEF HandleCopyOrCut, ClearClipboard, RequestDelete, CancelDelete
<1> QED BY <1>2, <1>3, <1>5, <1>6, <1>7 DEF Next, vars, ui

LEMMA DragInvariance == Spec => []DInv
<1>1. Init => DInv
  BY InitIInv DEF DInv, Init, DropsWhereSeen
<1>2. DInv /\ [Next]_vars => DInv'
  BY StepIInv, DropsWhereSeenKept DEF DInv
<1> QED BY <1>1, <1>2, PTL DEF Spec

-----------------------------------------------------------------------------
\* A rendered conversation stays rendered for as long as it exists, unless a
\* folder above its own is deleted, or a drop goes to a folder that was deleted
\* during the drag.
THEOREM HiddenOnlyWithFolders == Spec => HiddenOnlyByDeletedFolder
<1> DEFINE Excused(c) ==
             \/ \E f \in Folders \ (DOMAIN chat'.folders \union {chat.convs[c].folder}) :
                  IsSelfOrDescendant(chat.folders, f, chat.convs[c].folder)
             \/ /\ drag # Null /\ drag' = Null
                /\ FolderOf(chat', drag.item) \notin Folders \union {Null}
           Hidden(c) == ConversationRendered(chat, c) /\ ~ConversationRendered(chat', c)
           Good == \A c \in Conversations \intersect DOMAIN chat'.convs : Hidden(c) => Excused(c)
<1>1. DInv /\ [Next]_vars => [Good]_vars
  <2> SUFFICES ASSUME DInv, Next, NEW c \in Conversations \intersect DOMAIN chat'.convs, Hidden(c)
               PROVE  Excused(c)
    BY DEF vars
  <2>1. /\ ChatType(chat, ConvId, FolderId) /\ folderIds \in Nat
        /\ folderIds + 1 \notin FolderId /\ Null \notin FolderId
        /\ c \in DOMAIN chat.convs
    BY SidebarAssumption DEF DInv, IInv, TypeOK, FolderId, Conversations
  <2>2. ~(chat'.folders = chat.folders /\ chat'.convs[c].folder = chat.convs[c].folder)
    BY <2>1, SameFoldersRendered
  <2>3. ASSUME chat' \in {SetActiveConversation(chat, d) : d \in Conversations \union {Null}} PROVE FALSE
    <3>1. PICK d : chat' = SetActiveConversation(chat, d)
      BY <2>3
    <3>2. chat'.convs = chat.convs /\ chat'.folders = chat.folders
      BY <2>1, <3>1, SetActiveType
    <3> QED BY <2>2, <3>2
  <2>4. ASSUME NEW d, NEW conv, chat' = CreateConversation(chat, d, conv) PROVE FALSE
    <3>1. chat'.folders = chat.folders
      BY <2>1, <2>4, FoldersUntouched
    <3>2. chat'.convs[c] = chat.convs[c]
      BY <2>1, <2>4, CreateConversationElsewhere
    <3> QED BY <2>2, <3>1, <3>2
  <2>5. ASSUME NEW d, chat' = DeleteConversation(chat, d) PROVE FALSE
    <3>1. chat'.folders = chat.folders
      BY <2>1, <2>5, FoldersUntouched
    <3>2. chat'.convs[c] = chat.convs[c]
      BY <2>1, <2>5, DeleteConversationElsewhere
    <3> QED BY <2>2, <3>1, <3>2
  <2>6. ASSUME NEW p, chat' = CreateFolder(chat, folderIds + 1, p) PROVE FALSE
    <3>1. folderIds + 1 \notin DOMAIN chat.folders /\ folderIds + 1 # Null
      BY <2>1, SidebarAssumption DEF ChatType
    <3>2. chat'.convs = chat.convs /\ chat'.folders = Update(chat.folders, folderIds + 1, p)
      BY <2>1, <2>6, <3>1, CreateFolderElsewhere
    <3>3. chat.convs[c].folder # Null /\ Rendered(chat.folders, chat.convs[c].folder)
          /\ ~Rendered(chat'.folders, chat.convs[c].folder)
      BY <2>1, <3>2 DEF ConversationRendered
    <3> QED BY <2>1, <3>1, <3>2, <3>3, CreateKeepsRendered DEF ChatType
  <2>7. ASSUME NEW f, chat' = DeleteFolder(chat, f) PROVE Excused(c)
    <3>1. /\ f \in DOMAIN chat.folders \ {chat.convs[c].folder}
          /\ IsSelfOrDescendant(chat.folders, f, chat.convs[c].folder)
      BY <2>1, <2>7, DeleteFolderHides
    <3>2. f \notin DOMAIN chat'.folders
      BY <2>1, <2>7, DeleteFolderLeaves
    <3> QED BY <3>1, <3>2 DEF Folders
  <2>8. ASSUME UNCHANGED chat PROVE FALSE
    BY <2>2, <2>8
  <2>9. CASE SelectConversation \/ SelectFolder
    BY <2>3, <2>9 DEF SelectConversation, SelectFolder
  <2>10. CASE HandleNewConversation \/ ImportFinishes
    BY <2>4, <2>10 DEF HandleNewConversation, ImportFinishes
  <2>11. CASE HandleNewFolder
    BY <2>6, <2>11 DEF HandleNewFolder
  <2>12. CASE HandleRenameFolder
    <3>1. PICK f \in Folders : chat' = UpdateFolder(chat, f, chat.folders[f])
      BY <2>12 DEF HandleRenameFolder
    <3>2. chat'.convs = chat.convs /\ chat'.folders = [chat.folders EXCEPT ![f] = chat.folders[f]]
      BY <2>1, <3>1 DEF ChatType, UpdateFolder, Folders
    <3>3. /\ DOMAIN chat'.folders = DOMAIN chat.folders
          /\ \A g \in DOMAIN chat.folders : chat'.folders[g] = chat.folders[g]
      BY <3>2
    <3>4. \A x : Rendered(chat.folders, x) => Rendered(chat'.folders, x)
      BY <3>3 DEF Rendered
    <3> QED BY <3>2, <3>4 DEF ConversationRendered
  <2>13. ASSUME HandlePaste, NEW keeps \in BOOLEAN, PasteConversation(keeps) PROVE FALSE
    <3> DEFINE source  == clipboard[3]
               copy    == [chat.convs[source] EXCEPT !.folder = selectedFolder]
               created == CreateConversation(chat, convIds', copy)
    <3>1. /\ source \in Conversations /\ convIds' = convIds + 1 /\ convIds \in Nat
          /\ chat' \in {created, DeleteConversation(created, source)}
      BY <2>13 DEF PasteConversation, DInv, IInv, TypeOK
    <3>2. /\ DOMAIN copy = DOMAIN NewConversation(Null) /\ copy.folder = selectedFolder
          /\ selectedFolder \in FolderId \union {Null}
      BY <2>1, <3>1 DEF ChatType, NewConversation, Conversations, DInv, IInv, TypeOK
    <3> HIDE DEF copy
    <3>3. ChatType(created, ConvId', FolderId)
      <4>1. ConvId \subseteq ConvId' /\ convIds' \in ConvId'
        BY <3>1 DEF ConvId
      <4>2. ChatType(chat, ConvId', FolderId)
        BY <2>1, <4>1, ChatTypeGrows
      <4> QED BY <3>2, <4>1, <4>2, CreateConversationType
    <3>4. created.folders = chat.folders /\ created.convs[c] = chat.convs[c]
      BY <2>1, FoldersUntouched, CreateConversationElsewhere
    <3> HIDE DEF created
    <3>5. CASE chat' = DeleteConversation(created, source)
      <4>1. chat'.folders = created.folders
        BY <3>3, <3>5, FoldersUntouched
      <4>2. chat'.convs[c] = created.convs[c]
        BY <3>3, <3>5, DeleteConversationElsewhere
      <4> QED BY <2>2, <3>4, <4>1, <4>2
    <3> QED BY <2>2, <3>1, <3>4, <3>5
  <2>14. ASSUME HandlePaste, NEW keeps \in BOOLEAN, PasteFolder(keeps) PROVE Excused(c)
    <3> DEFINE source  == clipboard[3]
               x       == chat.convs[c].folder
               created == CreateFolder(chat, folderIds + 1, selectedFolder)
    <3>1. source \in Folders /\ chat' \in {created, DeleteFolder(created, source)}
      BY <2>14 DEF PasteFolder
    <3>2. folderIds + 1 \notin DOMAIN chat.folders /\ folderIds + 1 # Null
      BY <2>1, SidebarAssumption DEF ChatType
    <3>3. /\ created.convs = chat.convs
          /\ created.folders = Update(chat.folders, folderIds + 1, selectedFolder)
      BY <2>1, <3>2, CreateFolderElsewhere
    <3>4. ChatType(created, ConvId, FolderId \union {folderIds + 1})
      <4>1. ChatType(chat, ConvId, FolderId \union {folderIds + 1}) /\ selectedFolder \in FolderId \union {Null}
        BY <2>1, ChatTypeGrows DEF DInv, IInv, TypeOK
      <4> QED BY <4>1, CreateFolderType
    <3>5. CASE chat' = created
      BY <2>6, <3>5
    <3> HIDE DEF created, source
    <3>6. CASE chat' = DeleteFolder(created, source)
      <4>1. ConversationRendered(created, c)
        <5>1. CASE x # Null
          <6>1. Rendered(chat.folders, x)
            BY <5>1 DEF ConversationRendered
          <6>2. Rendered(Update(chat.folders, folderIds + 1, selectedFolder), x)
            BY <2>1, <3>2, <6>1, CreateKeepsRendered DEF ChatType
          <6> QED BY <2>1, <3>3, <6>2 DEF ConversationRendered
        <5> QED BY <2>1, <3>3, <5>1 DEF ConversationRendered
      <4>2. /\ source \in DOMAIN created.folders \ {x}
            /\ x \in DOMAIN created.folders
            /\ IsSelfOrDescendant(created.folders, source, x)
        BY <2>1, <3>3, <3>4, <3>6, <4>1, DeleteFolderHides
      <4>3. x # Null
        BY <2>1, <3>2, <3>4, <4>2 DEF ChatType
      <4>4. x \in DOMAIN chat.folders
        BY <4>3 DEF ConversationRendered, Rendered
      <4>5. IsSelfOrDescendant(chat.folders, source, x)
        BY <2>1, <3>1, <3>2, <3>3, <4>2, <4>4, DescendantBeforeCreate DEF ChatType, Folders
      <4>6. source \notin DOMAIN chat'.folders
        BY <3>4, <3>6, DeleteFolderLeaves
      <4> QED BY <3>1, <4>2, <4>5, <4>6
    <3> QED BY <3>1, <3>5, <3>6
  <2>15. CASE HandlePaste
    BY <2>13, <2>14, <2>15 DEF HandlePaste
  <2>16. CASE HandleConfirmDelete
    BY <2>5, <2>7, <2>16 DEF HandleConfirmDelete
  <2>17. CASE HandleMouseUp
    <3>1. PICK target \in {Null} \union {DropTarget(item) : item \in RenderedItems} : DropOn(target)
      BY <2>17 DEF HandleMouseUp
    <3>2. chat' \in {chat, MoveFolder(chat, drag.item[2], target), MoveConversation(chat, drag.item[2], target)}
      BY <3>1 DEF DropOn
    <3>3. target # Null /\ ~Rendered(chat.folders, target)
      <4>1. ASSUME target = Null \/ Rendered(chat.folders, target) PROVE FALSE
        <5>1. /\ ConversationRendered(MoveFolder(chat, drag.item[2], target), c)
              /\ ConversationRendered(MoveConversation(chat, drag.item[2], target), c)
          BY <2>1, <4>1, MovesKeepRendered
        <5> QED BY <3>2, <5>1
      <4> QED BY <4>1
    <3>4. PICK item \in RenderedItems : target = DropTarget(item)
      BY <3>1, <3>3
    <3>5. item[1] = "conversation" /\ item[2] \in DOMAIN drag.seen.convs
          /\ ConversationRendered(chat, item[2]) /\ target = drag.seen.convs[item[2]].folder
      BY <3>3, <3>4 DEF RenderedItems, DropTarget
    <3>6. drag # Null /\ drag' = Null
      BY <2>17 DEF HandleMouseUp
    <3>7. target \notin Folders \union {Null}
      <4>1. item[2] \in Conversations
        BY <3>5 DEF ConversationRendered, Conversations
      <4>2. chat.convs[item[2]].folder # target
        BY <3>3, <3>5 DEF ConversationRendered
      <4> QED BY <3>5, <3>6, <4>1, <4>2 DEF DInv, DropsWhereSeen
    <3>8. FolderOf(chat', drag.item) = target
      <4>1. chat' # chat
        BY <2>8
      <4>2. CASE drag.item[1] = "folder"
        <5>1. chat' = MoveFolder(chat, drag.item[2], target)
          BY <3>1, <4>1, <4>2 DEF DropOn
        <5>2. /\ drag.item[2] \in DOMAIN chat.folders
              /\ chat'.folders = [chat.folders EXCEPT ![drag.item[2]] = target]
          BY <2>1, <4>1, <5>1 DEF MoveFolder, ChatType
        <5> QED BY <4>2, <5>2 DEF FolderOf
      <4>3. CASE drag.item[1] = "conversation"
        <5>1. chat' = MoveConversation(chat, drag.item[2], target)
          BY <3>1, <4>1, <4>3 DEF DropOn
        <5>2. drag.item[2] \in DOMAIN chat.convs
          BY <4>1, <5>1 DEF MoveConversation
        <5>3. chat'.convs[drag.item[2]].folder = target
          BY <2>1, <5>1, <5>2 DEF MoveConversation, ChatType, NewConversation
        <5> QED BY <4>3, <5>3 DEF FolderOf
      <4>4. drag.item[1] \in {"conversation", "folder"}
        BY <3>6 DEF DInv, IInv, TypeOK
      <4> QED BY <4>2, <4>3, <4>4
    <3> QED BY <3>6, <3>7, <3>8
  <2> QED BY <2>8, <2>9, <2>10, <2>11, <2>12, <2>15, <2>16, <2>17
          DEF Next, HandleCopyOrCut, ClearClipboard, RequestDelete, CancelDelete,
              HandleMouseDown, DragCancelled, RemountSidebar
<1> QED BY <1>1, DragInvariance, PTL DEF Spec, HiddenOnlyByDeletedFolder
=============================================================================
