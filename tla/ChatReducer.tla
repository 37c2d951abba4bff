---------------------------- MODULE ChatReducer ----------------------------
(***************************************************************************)
(* The chat reducer of the nnagent web client, ChatContext.tsx, as pure    *)
(* operators: each takes a chat state s and the payload of one ChatAction  *)
(* and returns the state useReducer installs next.                         *)
(*                                                                         *)
(* A chat state is a record                                                *)
(*   convs    partial function from conversation ids to Conversation       *)
(*   folders  partial function from folder ids to their parentId           *)
(*   active   activeConversationId, or Null                                *)
(*   error    TRUE once an action has set the error banner                 *)
(*                                                                         *)
(* Conversation ids are the natural numbers in the order generateId issued *)
(* them.  Every CREATE_CONVERSATION that is dispatched carries an id fresh *)
(* from generateId (createConversation, both paste handlers, the importers *)
(* of files and of ChatGPT archives), prepends it, and nothing else        *)
(* reorders the list.  So no id ever enters the list a second time, the    *)
(* array the code keeps is convs in descending order of id, and its first  *)
(* element is the newest id.                                               *)
(***************************************************************************)
EXTENDS Naturals, SequencesExt

CONSTANT Null    \* the null of folderId, parentId and activeConversationId

Update(f, k, v) == [x \in DOMAIN f \union {k} |-> IF x = k THEN v ELSE f[x]]

\* The id at the front of the list, which is the one issued last, or Null:
\* filtered[0]?.id ?? null.
Newest(ids) ==
  LET front == {c \in ids : \A d \in ids : d <= c} IN
  IF front = {} THEN Null ELSE CHOOSE c \in front : TRUE

\* A conversation as createConversation and the paste handlers build it.
NewConversation(folder) ==
  [folder |-> folder, title |-> "generic", model |-> Null, msgs |-> <<>>,
   pinned |-> FALSE, archived |-> FALSE, tags |-> {}]

initialState ==
  [convs |-> <<>>, folders |-> <<>>, active |-> Null, error |-> FALSE]

-----------------------------------------------------------------------------
(***************************************************************************)
(* The folder tree.                                                        *)
(***************************************************************************)

\* What the recursive isSelfOrDescendant(f, t) computes: t lies in every set
\* of folders that holds f and, with a folder, its children.
IsSelfOrDescendant(parent, f, t) ==
  \A S \in SUBSET DOMAIN parent :
    (f \in S /\ \A g \in DOMAIN parent : parent[g] \in S => g \in S) => t \in S

\* The sidebar renders the tree downwards from parentId = null.  A folder is
\* rendered when climbing from it, parent by parent, ends at the root.
Rendered(parent, f) ==
  /\ f \in DOMAIN parent
  /\ \A S \in SUBSET DOMAIN parent :
       (f \in S /\ \A g \in S : parent[g] \in DOMAIN parent => parent[g] \in S)
         => \E g \in S : parent[g] = Null

ConversationRendered(s, c) ==
  c \in DOMAIN s.convs /\
    (s.convs[c].folder = Null \/ Rendered(s.folders, s.convs[c].folder))

-----------------------------------------------------------------------------
(***************************************************************************)
(* Conversations.                                                          *)
(***************************************************************************)

SetActiveConversation(s, c) == [s EXCEPT !.active = c]

CreateConversation(s, c, conv) ==
  IF c \in DOMAIN s.convs THEN s
  ELSE [s EXCEPT !.convs = Update(@, c, conv), !.active = c]

UpdateConversation(s, c, conv) ==
  IF c \notin DOMAIN s.convs THEN s ELSE [s EXCEPT !.convs[c] = conv]

\* Mutation: the deleted conversation stays active.
DeleteConversationKeepActive(s, c) ==
  [s EXCEPT !.convs = Restrict(@, DOMAIN @ \ {c})]

DeleteConversation(s, c) ==
  LET left == DOMAIN s.convs \ {c} IN
  IF c \notin DOMAIN s.convs THEN s
  ELSE [s EXCEPT !.convs = Restrict(@, left),
                 !.active = IF @ = c THEN Newest(left) ELSE @]

SetTitle(s, c, title) ==
  IF c \notin DOMAIN s.convs THEN s ELSE [s EXCEPT !.convs[c].title = title]

\* Mutation: the conversation to show next is looked for before the deleted
\* ones are filtered out.
BulkDeleteChooseFirst(s, ids) ==
  [s EXCEPT !.convs = Restrict(@, DOMAIN @ \ ids),
            !.active = IF @ \in ids THEN Newest(DOMAIN s.convs \ {@}) ELSE @]

BulkDelete(s, ids) ==
  LET left == DOMAIN s.convs \ ids IN
  [s EXCEPT !.convs = Restrict(@, left),
            !.active = IF @ \in ids THEN Newest(left) ELSE @]

SetModel(s, c, model) ==
  IF c \notin DOMAIN s.convs THEN s ELSE [s EXCEPT !.convs[c].model = model]

MoveConversation(s, c, folder) ==
  IF c \notin DOMAIN s.convs THEN s ELSE [s EXCEPT !.convs[c].folder = folder]

-----------------------------------------------------------------------------
(***************************************************************************)
(* Messages: records with an id, a role and the model that wrote them.     *)
(***************************************************************************)

\* Mutation: a message for a deleted conversation brings it back.
AddMessageUpsert(s, c, m) ==
  IF c \notin DOMAIN s.convs
  THEN [s EXCEPT !.convs = Update(@, c, [NewConversation(Null) EXCEPT !.msgs = <<m>>])]
  ELSE [s EXCEPT !.convs[c].msgs = Append(@, m)]

\* The first message of a conversation, if the user wrote it, also names it.
AddMessage(s, c, m) ==
  IF c \notin DOMAIN s.convs THEN [s EXCEPT !.error = TRUE]
  ELSE [s EXCEPT
          !.convs[c].msgs = Append(@, m),
          !.convs[c].title =
            IF s.convs[c].msgs = <<>> /\ m.role = "user" THEN "auto" ELSE @]

\* Mutation: the new version is appended, the old one stays.
UpdateMessageAppend(s, c, m) ==
  IF c \notin DOMAIN s.convs THEN s ELSE [s EXCEPT !.convs[c].msgs = Append(@, m)]

\* findIndex and one assignment: the first message of that id is replaced.
ReplaceFirst(msgs, m) ==
  [i \in DOMAIN msgs |->
     IF msgs[i].id = m.id /\ \A j \in 1..(i-1) : msgs[j].id # m.id THEN m ELSE msgs[i]]

UpdateMessage(s, c, m) ==
  IF c \notin DOMAIN s.convs THEN s
  ELSE [s EXCEPT !.convs[c].msgs = ReplaceFirst(@, m)]

\* The filter of DELETE_MESSAGE.
Without(msgs, id) ==
  FoldLeft(LAMBDA kept, m : IF m.id = id THEN kept ELSE Append(kept, m), <<>>, msgs)

DeleteMessage(s, c, id) ==
  IF c \notin DOMAIN s.convs THEN s ELSE [s EXCEPT !.convs[c].msgs = Without(@, id)]

-----------------------------------------------------------------------------
(***************************************************************************)
(* Folders.                                                                *)
(***************************************************************************)

CreateFolder(s, f, parent) ==
  IF f \in DOMAIN s.folders THEN s
  ELSE [s EXCEPT !.folders = Update(@, f, parent)]

UpdateFolder(s, f, parent) ==
  IF f \notin DOMAIN s.folders THEN s ELSE [s EXCEPT !.folders[f] = parent]

\* Mutation: the conversations of a deleted folder keep pointing at it.
DeleteFolderKeepContents(s, f) == [s EXCEPT !.folders = Restrict(@, DOMAIN @ \ {f})]

\* Conversations directly inside go to the root; child folders are untouched.
DeleteFolder(s, f) ==
  IF f \notin DOMAIN s.folders THEN s
  ELSE [s EXCEPT
          !.folders = Restrict(@, DOMAIN @ \ {f}),
          !.convs = [c \in DOMAIN @ |->
                       IF @[c].folder = f THEN [@[c] EXCEPT !.folder = Null] ELSE @[c]]]

\* Mutation: only the sidebar checks for a move below itself.
MoveFolderUnguarded(s, f, parent) ==
  IF f \notin DOMAIN s.folders THEN s ELSE [s EXCEPT !.folders[f] = parent]

MoveFolder(s, f, parent) ==
  IF \/ f \notin DOMAIN s.folders
     \/ parent # Null /\ IsSelfOrDescendant(s.folders, f, parent)
  THEN s
  ELSE [s EXCEPT !.folders[f] = parent]

-----------------------------------------------------------------------------
(***************************************************************************)
(* Pins, the archive and tags, one conversation or many at a time.         *)
(***************************************************************************)

SetPinned(s, c, pinned) ==
  IF c \notin DOMAIN s.convs THEN s ELSE [s EXCEPT !.convs[c].pinned = pinned]

TogglePin(s, c) ==
  IF c \notin DOMAIN s.convs THEN s ELSE [s EXCEPT !.convs[c].pinned = ~@]

SetArchived(s, c, archived) ==
  IF c \notin DOMAIN s.convs THEN s ELSE [s EXCEPT !.convs[c].archived = archived]

ToggleArchive(s, c) ==
  IF c \notin DOMAIN s.convs THEN s ELSE [s EXCEPT !.convs[c].archived = ~@]

AddTag(s, c, tag) ==
  IF c \notin DOMAIN s.convs THEN s
  ELSE [s EXCEPT !.convs[c].tags = @ \union {tag}]

RemoveTag(s, c, tag) ==
  IF c \notin DOMAIN s.convs THEN s ELSE [s EXCEPT !.convs[c].tags = @ \ {tag}]

SetTags(s, c, tags) ==
  IF c \notin DOMAIN s.convs THEN s ELSE [s EXCEPT !.convs[c].tags = tags]

BulkArchive(s, ids, archived) ==
  [s EXCEPT !.convs = [c \in DOMAIN @ |->
     IF c \in ids THEN [@[c] EXCEPT !.archived = archived] ELSE @[c]]]

BulkPin(s, ids, pinned) ==
  [s EXCEPT !.convs = [c \in DOMAIN @ |->
     IF c \in ids THEN [@[c] EXCEPT !.pinned = pinned] ELSE @[c]]]

BulkAddTag(s, ids, tag) ==
  [s EXCEPT !.convs = [c \in DOMAIN @ |->
     IF c \in ids THEN [@[c] EXCEPT !.tags = s.convs[c].tags \union {tag}] ELSE @[c]]]

-----------------------------------------------------------------------------
(***************************************************************************)
(* What every chat state satisfies.                                        *)
(***************************************************************************)

\* No set of folders in which each one's parent is again in the set: the
\* reducer's and the sidebar's recursion over children always ends.
Forest(parent) ==
  \A S \in SUBSET DOMAIN parent : S # {} => \E g \in S : parent[g] \notin S

\* The conversation ids of s come from C, its folder ids, also the ones that
\* only a folderId or parentId still mentions, from F.
ChatType(s, C, F) ==
  /\ s = [convs |-> s.convs, folders |-> s.folders,
          active |-> s.active, error |-> s.error]
  /\ DOMAIN s.convs \subseteq C
  /\ DOMAIN s.folders \subseteq F
  /\ \A c \in DOMAIN s.convs :
       /\ DOMAIN s.convs[c] = DOMAIN NewConversation(Null)
       /\ s.convs[c].folder \in F \union {Null}
  /\ \A f \in DOMAIN s.folders : s.folders[f] \in F \union {Null}

ActiveIsThere(s) == s.active \in DOMAIN s.convs \union {Null}
=============================================================================
