---------------------------- MODULE ChatSidebar ----------------------------
(***************************************************************************)
(* The conversation sidebar, ConversationSidebar.tsx, on top of the chat   *)
(* reducer: the selected folder, the clipboard, the delete dialog and the  *)
(* mouse drag, and what their handlers dispatch.                           *)
(*                                                                         *)
(* All of them remember ids.  Between the moment an id is remembered and   *)
(* the moment it is used, another handler, or an import that finishes, may *)
(* have changed the state.  A drag remembers even more: its mouseup        *)
(* handler is the closure made at mousedown and tests the conversations    *)
(* and folders of that render.                                             *)
(*                                                                         *)
(* Mouse actions need the mouse: none happens while a drag is under way or *)
(* while the overlay of the delete dialog covers the window.  Keyboard     *)
(* shortcuts and a finishing import happen at any time.                    *)
(***************************************************************************)
EXTENDS ChatReducer, FiniteSets

CONSTANTS MaxConvs,     \* bound: conversation ids generateId issues
          MaxFolders    \* bound: folder ids generateId issues

ASSUME SidebarAssumption ==
  /\ MaxConvs \in Nat
  /\ MaxFolders \in Nat
  /\ Null \notin Nat

VARIABLES chat,             \* the state of the reducer
          convIds,          \* conversation ids issued so far are 1..convIds
          folderIds,        \* folder ids issued so far are 1..folderIds
          selectedFolder,   \* selectedFolderId
          clipboard,        \* <<action, type, id>>, or Null
          deleteConfirm,    \* <<type, id>> while the dialog is visible, or Null
          drag              \* dragInfoRef with what the drag's closure sees, or Null

ids  == <<convIds, folderIds>>
ui   == <<selectedFolder, clipboard, deleteConfirm, drag>>
vars == <<chat, ids, ui>>

Conversations == DOMAIN chat.convs
Folders       == DOMAIN chat.folders

\* The items the sidebar renders, the only ones the mouse can reach.
RenderedItems ==
  {<<"conversation", c>> : c \in {d \in Conversations : ConversationRendered(chat, d)}}
    \union {<<"folder", f>> : f \in {g \in Folders : Rendered(chat.folders, g)}}

\* What Ctrl+C, Ctrl+X and Delete act on.
KeyboardTarget ==
  IF chat.active # Null THEN {<<"conversation", chat.active>>}
  ELSE IF selectedFolder # Null THEN {<<"folder", selectedFolder>>} ELSE {}

MouseFree == drag = Null /\ deleteConfirm = Null

Init ==
  /\ chat = initialState
  /\ convIds = 0
  /\ folderIds = 0
  /\ selectedFolder = Null
  /\ clipboard = Null
  /\ deleteConfirm = Null
  /\ drag = Null

-----------------------------------------------------------------------------
(***************************************************************************)
(* Selecting and creating.                                                 *)
(***************************************************************************)

SelectConversation ==
  /\ MouseFree
  /\ \E c \in Conversations :
       /\ ConversationRendered(chat, c)
       /\ chat' = SetActiveConversation(chat, c)
  /\ selectedFolder' = Null
  /\ UNCHANGED <<ids, clipboard, deleteConfirm, drag>>

SelectFolder ==
  /\ MouseFree
  /\ \E f \in Folders :
       /\ Rendered(chat.folders, f)
       /\ selectedFolder' = f
  /\ chat' = SetActiveConversation(chat, Null)
  /\ UNCHANGED <<ids, clipboard, deleteConfirm, drag>>

\* "+ New": into the selected folder, which is then deselected.
HandleNewConversation ==
  /\ MouseFree
  /\ convIds < MaxConvs
  /\ convIds' = convIds + 1
  /\ chat' = CreateConversation(chat, convIds', NewConversation(selectedFolder))
  /\ selectedFolder' = Null
  /\ UNCHANGED <<folderIds, clipboard, deleteConfirm, drag>>

HandleNewFolder ==
  /\ MouseFree
  /\ folderIds < MaxFolders
  /\ folderIds' = folderIds + 1
  /\ chat' = CreateFolder(chat, folderIds', Null)
  /\ UNCHANGED <<convIds, ui>>

\* A file import finishes: its conversations always go to the root.
ImportFinishes ==
  /\ convIds < MaxConvs
  /\ convIds' = convIds + 1
  /\ chat' = CreateConversation(chat, convIds', NewConversation(Null))
  /\ UNCHANGED <<folderIds, ui>>

\* Committing an inline rename sends the folder back with a new name.
HandleRenameFolder ==
  /\ MouseFree
  /\ \E f \in Folders : chat' = UpdateFolder(chat, f, chat.folders[f])
  /\ UNCHANGED <<ids, ui>>

-----------------------------------------------------------------------------
(***************************************************************************)
(* The clipboard.                                                          *)
(***************************************************************************)

\* Copy or cut, from the context menu of a rendered item or by keyboard.
HandleCopyOrCut ==
  /\ \E action \in {"copy", "cut"} :
       \E item \in KeyboardTarget \union (IF MouseFree THEN RenderedItems ELSE {}) :
         clipboard' = <<action, item[1], item[2]>>
  /\ UNCHANGED <<chat, ids, selectedFolder, deleteConfirm, drag>>

\* Mutation: a cut removes the source although no copy could be created.
PasteConversationCutFirst(keeps) ==
  LET action == clipboard[1]
      source == clipboard[3] IN
  /\ source \in Conversations
  /\ convIds < MaxConvs
  /\ convIds' = convIds + 1
  /\ LET cut == IF action = "cut" THEN DeleteConversation(chat, source) ELSE chat IN
     chat' = IF source \notin DOMAIN cut.convs THEN cut
             ELSE CreateConversation(cut, convIds',
                    [cut.convs[source] EXCEPT !.folder = selectedFolder])
  /\ clipboard' = IF action = "copy" /\ keeps THEN clipboard ELSE Null
  /\ UNCHANGED folderIds

\* The copy goes to the selected folder; a cut then deletes the source.
\* keeps: the context menu keeps a copied item on the clipboard, Ctrl+V never.
PasteConversation(keeps) ==
  LET action == clipboard[1]
      source == clipboard[3] IN
  /\ source \in Conversations
  /\ convIds < MaxConvs
  /\ convIds' = convIds + 1
  /\ LET created == CreateConversation(chat, convIds',
                      [chat.convs[source] EXCEPT !.folder = selectedFolder]) IN
     chat' = IF action = "cut" THEN DeleteConversation(created, source) ELSE created
  /\ clipboard' = IF action = "copy" /\ keeps THEN clipboard ELSE Null
  /\ UNCHANGED folderIds

PasteFolder(keeps) ==
  LET action == clipboard[1]
      source == clipboard[3] IN
  /\ source \in Folders
  /\ folderIds < MaxFolders
  /\ folderIds' = folderIds + 1
  /\ LET created == CreateFolder(chat, folderIds', selectedFolder) IN
     chat' = IF action = "cut" THEN DeleteFolder(created, source) ELSE created
  /\ clipboard' = IF action = "copy" /\ keeps THEN clipboard ELSE Null
  /\ UNCHANGED convIds

\* A source that is gone is left on the clipboard and nothing is pasted.
HandlePaste ==
  /\ clipboard # Null
  /\ \E keeps \in {FALSE} \union
                  (IF MouseFree /\ RenderedItems # {} THEN {TRUE} ELSE {}) :
       \/ clipboard[2] = "conversation" /\ PasteConversation(keeps)
       \/ clipboard[2] = "folder" /\ PasteFolder(keeps)
  /\ UNCHANGED <<selectedFolder, deleteConfirm, drag>>

ClearClipboard ==
  /\ MouseFree
  /\ clipboard # Null
  /\ clipboard' = Null
  /\ UNCHANGED <<chat, ids, selectedFolder, deleteConfirm, drag>>

-----------------------------------------------------------------------------
(***************************************************************************)
(* The delete dialog.                                                      *)
(***************************************************************************)

RequestDelete ==
  /\ \E item \in KeyboardTarget \union (IF MouseFree THEN RenderedItems ELSE {}) :
       deleteConfirm' = item
  /\ UNCHANGED <<chat, ids, selectedFolder, clipboard, drag>>

HandleConfirmDelete ==
  /\ deleteConfirm # Null
  /\ chat' = IF deleteConfirm[1] = "conversation"
             THEN DeleteConversation(chat, deleteConfirm[2])
             ELSE DeleteFolder(chat, deleteConfirm[2])
  /\ deleteConfirm' = Null
  /\ UNCHANGED <<ids, selectedFolder, clipboard, drag>>

CancelDelete ==
  /\ deleteConfirm # Null
  /\ deleteConfirm' = Null
  /\ UNCHANGED <<chat, ids, selectedFolder, clipboard, drag>>

-----------------------------------------------------------------------------
(***************************************************************************)
(* Dragging with the mouse.                                                *)
(***************************************************************************)

FolderOf(s, item) ==
  IF item[1] = "conversation" THEN s.convs[item[2]].folder ELSE s.folders[item[2]]

HandleMouseDown ==
  /\ MouseFree
  /\ \E item \in RenderedItems :
       drag' = [item |-> item, startFolder |-> FolderOf(chat, item), seen |-> chat]
  /\ UNCHANGED <<chat, ids, selectedFolder, clipboard, deleteConfirm>>

\* Mutation: no "?? null" for a conversation the closure does not know; 0 is
\* an id that is never issued.
DropTargetUndefined(item) ==
  CASE item[1] = "folder" -> item[2]
    [] item[1] = "conversation" /\ item[2] \in DOMAIN drag.seen.convs
         -> drag.seen.convs[item[2]].folder
    [] OTHER -> 0

\* Where a drop on a rendered item leads.  A conversation is looked up in the
\* closure of the drag, and one created since then counts as at the root.
DropTarget(item) ==
  CASE item[1] = "folder" -> item[2]
    [] item[1] = "conversation" /\ item[2] \in DOMAIN drag.seen.convs
         -> drag.seen.convs[item[2]].folder
    [] OTHER -> Null

DropOn(target) ==
  LET type == drag.item[1]
      id   == drag.item[2] IN
  chat' =
    CASE target = drag.startFolder -> chat
      [] type = "folder" /\ target # Null
           /\ IsSelfOrDescendant(drag.seen.folders, id, target) -> chat
      [] type = "folder" -> MoveFolder(chat, id, target)
      [] OTHER -> MoveConversation(chat, id, target)

HandleMouseUp ==
  /\ drag # Null
  /\ \E target \in {Null} \union {DropTarget(item) : item \in RenderedItems} :
       DropOn(target)
  /\ drag' = Null
  /\ UNCHANGED <<ids, selectedFolder, clipboard, deleteConfirm>>

\* The button is released outside every element, or before the mouse moved.
DragCancelled ==
  /\ drag # Null
  /\ drag' = Null
  /\ UNCHANGED <<chat, ids, selectedFolder, clipboard, deleteConfirm>>

-----------------------------------------------------------------------------
\* Hiding the sidebar unmounts it; showing it again starts from fresh state.
RemountSidebar ==
  /\ MouseFree
  /\ selectedFolder' = Null
  /\ clipboard' = Null
  /\ UNCHANGED <<chat, ids, deleteConfirm, drag>>

Next ==
  \/ SelectConversation
  \/ SelectFolder
  \/ HandleNewConversation
  \/ HandleNewFolder
  \/ ImportFinishes
  \/ HandleRenameFolder
  \/ HandleCopyOrCut
  \/ HandlePaste
  \/ ClearClipboard
  \/ RequestDelete
  \/ HandleConfirmDelete
  \/ CancelDelete
  \/ HandleMouseDown
  \/ HandleMouseUp
  \/ DragCancelled
  \/ RemountSidebar

Spec == Init /\ [][Next]_vars

-----------------------------------------------------------------------------
(***************************************************************************)
(* Properties.                                                             *)
(***************************************************************************)

ConvId   == 1..convIds
FolderId == 1..folderIds

\* The type of the state: ids in use were issued, and every id that anything
\* remembers, living or deleted, was issued too.
TypeOK ==
  /\ convIds \in 0..MaxConvs
  /\ folderIds \in 0..MaxFolders
  /\ ChatType(chat, ConvId, FolderId)
  /\ selectedFolder \in FolderId \union {Null}
  /\ clipboard \in ({"copy", "cut"} \X {"conversation"} \X ConvId)
       \union ({"copy", "cut"} \X {"folder"} \X FolderId) \union {Null}
  /\ deleteConfirm \in ({"conversation"} \X ConvId)
       \union ({"folder"} \X FolderId) \union {Null}
  /\ drag # Null =>
       /\ drag = [item |-> drag.item, startFolder |-> drag.startFolder, seen |-> drag.seen]
       /\ drag.item \in ({"conversation"} \X ConvId) \union ({"folder"} \X FolderId)
       /\ drag.startFolder \in FolderId \union {Null}
       /\ ChatType(drag.seen, ConvId, FolderId)

\* The folders always form a forest, so the tree the sidebar renders and the
\* recursive descendant checks are finite, whatever a drag with an outdated
\* view of the folders drops where.
FolderForest == Forest(chat.folders)

\* The active conversation exists, through every paste, cut, deletion and
\* import: the chat window never shows a conversation that is gone.
ActiveConversationExists == ActiveIsThere(chat)

\* A conversation only disappears when the user confirmed its deletion or
\* pasted what was cut, and then a new one took its place.
NoConversationLost ==
  [][\A c \in Conversations \ DOMAIN chat'.convs :
       \/ deleteConfirm = <<"conversation", c>> /\ deleteConfirm' = Null
       \/ /\ clipboard = <<"cut", "conversation", c>>
          /\ Cardinality(DOMAIN chat'.convs) = Cardinality(Conversations)]_vars

\* A conversation the sidebar renders stays rendered for as long as it exists,
\* with two exceptions: a folder above its own is deleted, or a drop goes to a
\* folder that was deleted during the drag.  In particular the conversations
\* directly inside a deleted folder stay in reach, as the delete dialog
\* promises (ConversationSidebar.tsx:484).
HiddenOnlyByDeletedFolder ==
  [][\A c \in Conversations \intersect DOMAIN chat'.convs :
       ConversationRendered(chat, c) /\ ~ConversationRendered(chat', c) =>
         \/ \E f \in Folders \ (DOMAIN chat'.folders \union {chat.convs[c].folder}) :
              IsSelfOrDescendant(chat.folders, f, chat.convs[c].folder)
         \/ /\ drag # Null /\ drag' = Null
            /\ FolderOf(chat', drag.item) \notin Folders \union {Null}]_vars

\* Every folder is in the rendered tree, whatever was deleted around it.
\* ConversationSidebar.tsx:892 says of a deleted folder that "its children
\* are moved to root by reducer".
FoldersStayRendered == \A f \in Folders : Rendered(chat.folders, f)

=============================================================================
