--------------------------- MODULE ChatStore_proofs ---------------------------
(***************************************************************************)
(* Proofs about the chat store for any number of conversations, messages,  *)
(* models and tags: a message id occurs once in a conversation, a deleted  *)
(* conversation never comes back, and a bulk action is its single          *)
(* counterpart repeated.                                                   *)
(***************************************************************************)
EXTENDS ChatStore, DataInduction, FiniteSetTheorems, SequenceTheorems, TLAPS

Message == [id : Nat, role : {"user", "assistant"}, model : Models \union {Null}]

\* The ids of the messages are different ones of the first n.
Issued(msgs, n) ==
  /\ \A i \in DOMAIN msgs : msgs[i].id <= n
  /\ \A i, j \in DOMAIN msgs : msgs[i].id = msgs[j].id => i = j

\* A conversation with messages; of the other fields only that they exist.
IsConversation(conv, n) ==
  /\ conv = [folder |-> conv.folder, title |-> conv.title, model |-> conv.model, msgs |-> conv.msgs,
             pinned |-> conv.pinned, archived |-> conv.archived, tags |-> conv.tags]
  /\ conv.msgs \in Seq(Message)
  /\ Issued(conv.msgs, n)

IsChat(s, n) ==
  /\ s = [convs |-> s.convs, folders |-> s.folders, active |-> s.active, error |-> s.error]
  /\ s.convs = [c \in DOMAIN s.convs |-> s.convs[c]]
  /\ \A c \in DOMAIN s.convs : IsConversation(s.convs[c], n)
  /\ ActiveIsThere(s)

\* The inductive invariant.
StoreInv ==
  /\ convIds \in Nat /\ messageIds \in Nat
  /\ IsChat(chat, messageIds)
  /\ Conversations \subseteq ConvId

\* Null is the id of no conversation.
LEMMA NullIsNoId == Null \notin Nat
BY StoreAssumption

-----------------------------------------------------------------------------
(***************************************************************************)
(* Sequences of messages.                                                  *)
(***************************************************************************)

LEMMA IssuedMore ==
  ASSUME NEW msgs \in Seq(Message), NEW n \in Nat, Issued(msgs, n)
  PROVE  Issued(msgs, n + 1)
<1>1. \A i \in DOMAIN msgs : msgs[i] \in Message
  OBVIOUS
<1>2. \A i \in DOMAIN msgs : msgs[i].id \in Nat
  BY <1>1 DEF Message
<1> QED BY <1>2 DEF Issued

LEMMA AppendIssued ==
  ASSUME NEW msgs \in Seq(Message), NEW n \in Nat, Issued(msgs, n),
         NEW m \in Message, m.id = n + 1
  PROVE  Append(msgs, m) \in Seq(Message) /\ Issued(Append(msgs, m), n + 1)
<1> DEFINE longer == Append(msgs, m)
<1>1. /\ longer \in Seq(Message) /\ Len(msgs) \in Nat
      /\ DOMAIN longer = 1 .. Len(msgs) + 1 /\ DOMAIN msgs = 1 .. Len(msgs)
      /\ \A i \in DOMAIN longer : longer[i] = IF i = Len(msgs) + 1 THEN m ELSE msgs[i]
  OBVIOUS
<1> HIDE DEF longer
<1>2. \A i \in DOMAIN msgs : msgs[i] \in Message
  OBVIOUS
<1>3. \A i \in DOMAIN msgs : msgs[i].id \in Nat /\ msgs[i].id <= n
  BY <1>2 DEF Message, Issued
<1>4. ASSUME NEW i \in DOMAIN longer PROVE longer[i].id <= n + 1
  BY <1>1, <1>3
<1>5. ASSUME NEW i \in DOMAIN longer, NEW j \in DOMAIN longer, longer[i].id = longer[j].id
      PROVE  i = j
  <2>1. i = Len(msgs) + 1 \/ i \in DOMAIN msgs
    BY <1>1
  <2>2. j = Len(msgs) + 1 \/ j \in DOMAIN msgs
    BY <1>1
  <2>3. i \in DOMAIN msgs => longer[i] = msgs[i] /\ msgs[i].id <= n /\ msgs[i].id \in Nat
    BY <1>1, <1>3
  <2>4. j \in DOMAIN msgs => longer[j] = msgs[j] /\ msgs[j].id <= n /\ msgs[j].id \in Nat
    BY <1>1, <1>3
  <2>5. \A k \in DOMAIN longer : k = Len(msgs) + 1 => longer[k].id = n + 1
    BY <1>1
  <2>6. i \in DOMAIN msgs /\ j \in DOMAIN msgs => i = j
    BY <1>5, <2>3, <2>4 DEF Issued
  <2> QED BY <1>5, <2>1, <2>2, <2>3, <2>4, <2>5, <2>6
<1> QED BY <1>1, <1>4, <1>5 DEF Issued, longer

LEMMA ReplacedIssued ==
  ASSUME NEW msgs \in Seq(Message), NEW n \in Nat, Issued(msgs, n), NEW m \in Message
  PROVE  ReplaceFirst(msgs, m) \in Seq(Message) /\ Issued(ReplaceFirst(msgs, m), n)
<1> DEFINE new == ReplaceFirst(msgs, m)
<1>1. Len(msgs) \in Nat /\ DOMAIN msgs = 1 .. Len(msgs) /\ \A i \in DOMAIN msgs : msgs[i] \in Message
  OBVIOUS
<1>2. new \in [1 .. Len(msgs) -> Message]
  BY <1>1 DEF ReplaceFirst
<1>3. new \in Seq(Message)
  BY <1>1, <1>2, SeqDef
<1>4. DOMAIN new = DOMAIN msgs /\ \A i \in DOMAIN msgs : new[i].id = msgs[i].id
  BY DEF ReplaceFirst
<1> HIDE DEF new
<1>5. Issued(new, n)
  BY <1>4 DEF Issued
<1> QED BY <1>3, <1>5 DEF new

\* The filter of DELETE_MESSAGE, as the fold of DeleteMessage.
LEMMA FilterSteps ==
  ASSUME NEW msgs \in Seq(Message), NEW id
  PROVE  \E f :
           /\ f[0] = <<>>
           /\ \A k \in 0 .. Len(msgs) - 1 :
                f[k+1] = IF msgs[k+1].id = id THEN f[k] ELSE Append(f[k], msgs[k+1])
           /\ Without(msgs, id) = f[Len(msgs)]
<1> DEFINE n == Len(msgs)
           step(kept, m) == IF m.id = id THEN kept ELSE Append(kept, m)
           F == [i \in 1 .. n |-> [kept \in Seq(Message) |-> step(kept, msgs[i])]]
           Eq(g) == g = [s \in SUBSET DOMAIN msgs |-> IF s = {} THEN <<>>
                            ELSE step(g[s \ {Max(s)}], msgs[Max(s)])]
           iter == CHOOSE g : Eq(g)
           f == [k \in 0 .. n |-> iter[1 .. k]]
<1>1. n \in Nat /\ DOMAIN msgs = 1 .. n /\ <<>> \in Seq(Message) /\ \A i \in 1 .. n : msgs[i] \in Message
  OBVIOUS
<1>2. F \in [1 .. n -> [Seq(Message) -> Seq(Message)]]
  BY <1>1
<1>3. PICK g : IsFold(g, n, Seq(Message), <<>>, F)
  <2> HIDE DEF n, F
  <2> QED BY <1>1, <1>2, SubsetFold
<1>4. ASSUME NEW s \in SUBSET (1 .. n), s # {}
      PROVE  F[Max(s)][g[s \ {Max(s)}]] = step(g[s \ {Max(s)}], msgs[Max(s)])
  <2>1. Max(s) \in 1 .. n /\ s \ {Max(s)} \in SUBSET (1 .. n)
    BY <1>1, <1>4, MaxExists
  <2> QED BY <2>1, <1>3 DEF IsFold
<1>5. Eq(g)
  <2> HIDE DEF step, F
  <2> QED BY <1>1, <1>3, <1>4 DEF IsFold
<1>6. Eq(iter)
  <2> HIDE DEF Eq
  <2> QED BY <1>5
<1>7. Without(msgs, id) = iter[DOMAIN msgs]
  BY DEF Without, FoldLeft, MapThenFoldSet
<1> HIDE DEF iter
<1>8. iter[1 .. 0] = <<>>
  BY <1>1, <1>6
<1>9. ASSUME NEW k \in 0 .. n - 1 PROVE iter[1 .. k+1] = step(iter[1 .. k], msgs[k+1])
  <2> HIDE DEF step, n
  <2>1. /\ 1 .. k+1 \in SUBSET (1 .. n) /\ 1 .. k+1 # {}
        /\ Max(1 .. k+1) = k + 1 /\ (1 .. k+1) \ {k+1} = 1 .. k
    BY <1>1, IntervalTop
  <2> QED BY <1>1, <1>6, <2>1
<1>10. f[0] = <<>> /\ f[n] = iter[DOMAIN msgs] /\ \A k \in 0 .. n - 1 : f[k+1] = step(f[k], msgs[k+1])
  <2>1. \A k \in 0 .. n : f[k] = iter[1 .. k]
    OBVIOUS
  <2>2. 0 \in 0 .. n /\ n \in 0 .. n /\ \A k \in 0 .. n-1 : k \in 0 .. n /\ k+1 \in 0 .. n
    BY <1>1
  <2> HIDE DEF f, step
  <2> QED BY <1>1, <1>8, <1>9, <2>1, <2>2
<1> HIDE DEF f
<1> QED BY <1>7, <1>10

\* What the filter leaves are messages there were, each once.
LEMMA FilteredIssued ==
  ASSUME NEW msgs \in Seq(Message), NEW n \in Nat, Issued(msgs, n), NEW id
  PROVE  Without(msgs, id) \in Seq(Message) /\ Issued(Without(msgs, id), n)
<1> DEFINE new == Without(msgs, id)
           last == Len(msgs)
           From(kept, k) ==
             /\ kept \in Seq(Message)
             /\ \A i \in DOMAIN kept : \E j \in 1 .. k : kept[i] = msgs[j]
             /\ \A i, j \in DOMAIN kept : kept[i].id = kept[j].id => i = j
<1>1. PICK f :
        /\ f[0] = <<>>
        /\ \A k \in 0 .. last - 1 : f[k+1] = IF msgs[k+1].id = id THEN f[k] ELSE Append(f[k], msgs[k+1])
        /\ new = f[last]
  BY FilterSteps
<1>2. last \in Nat /\ DOMAIN msgs = 1 .. last /\ \A j \in 1 .. last : msgs[j] \in Message
  OBVIOUS
<1> HIDE DEF new, last
<1> DEFINE T == {k \in 0 .. last : From(f[k], k)}
<1>3. 0 \in T
  <2>1. From(<<>>, 0) /\ 0 \in 0 .. last
    BY <1>2
  <2> HIDE DEF From
  <2> QED BY <1>1, <2>1
<1>4. ASSUME NEW k \in 0 .. last - 1, k \in T PROVE k + 1 \in T
  <2> DEFINE kept == f[k]
             m == msgs[k+1]
  <2>1. From(kept, k) /\ k \in Nat /\ k + 1 \in 0 .. last /\ k + 1 \in 1 .. last /\ m \in Message
    BY <1>2, <1>4
  <2>2. \A j \in 1 .. k : j \in DOMAIN msgs /\ j \in 1 .. k + 1 /\ j # k + 1
    BY <1>2
  <2>3. f[k+1] = IF m.id = id THEN kept ELSE Append(kept, m)
    BY <1>1
  <2> HIDE DEF kept
  <2>4. CASE f[k+1] = kept
    BY <2>1, <2>2, <2>4
  <2>5. CASE f[k+1] = Append(kept, m)
    <3> DEFINE longer == Append(kept, m)
    <3>1. m = msgs[k+1] /\ k + 1 \in DOMAIN msgs /\ k + 1 \in 1 .. k + 1
      BY <1>2, <2>1
    <3> HIDE DEF m
    <3>2. /\ longer \in Seq(Message) /\ Len(kept) \in Nat
          /\ DOMAIN longer = 1 .. Len(kept) + 1 /\ DOMAIN kept = 1 .. Len(kept)
          /\ \A i \in DOMAIN longer : longer[i] = IF i = Len(kept) + 1 THEN m ELSE kept[i]
      BY <2>1
    <3> HIDE DEF longer
    <3>3. \A i \in DOMAIN longer : \E j \in 1 .. k + 1 : longer[i] = msgs[j]
      <4> SUFFICES ASSUME NEW i \in DOMAIN longer PROVE \E j \in 1 .. k + 1 : longer[i] = msgs[j]
        OBVIOUS
      <4>1. CASE i = Len(kept) + 1
        BY <3>1, <3>2, <4>1
      <4>2. CASE i # Len(kept) + 1
        <5>1. i \in DOMAIN kept /\ longer[i] = kept[i]
          BY <3>2, <4>2
        <5> QED BY <2>1, <2>2, <5>1
      <4> QED BY <4>1, <4>2
    <3>4. \A i \in DOMAIN kept : kept[i].id # m.id
      <4> SUFFICES ASSUME NEW i \in DOMAIN kept, kept[i].id = m.id PROVE FALSE
        OBVIOUS
      <4>1. PICK j \in 1 .. k : kept[i] = msgs[j]
        BY <2>1
      <4> QED BY <2>2, <3>1, <4>1 DEF Issued
    <3>5. \A i, j \in DOMAIN longer : longer[i].id = longer[j].id => i = j
      <4> SUFFICES ASSUME NEW i \in DOMAIN longer, NEW j \in DOMAIN longer, longer[i].id = longer[j].id
                   PROVE  i = j
        OBVIOUS
      <4>1. i = Len(kept) + 1 \/ (i \in DOMAIN kept /\ longer[i] = kept[i])
        BY <3>2
      <4>2. j = Len(kept) + 1 \/ (j \in DOMAIN kept /\ longer[j] = kept[j])
        BY <3>2
      <4>3. \A x \in DOMAIN longer : x = Len(kept) + 1 => longer[x] = m
        BY <3>2
      <4>4. i \in DOMAIN kept /\ j \in DOMAIN kept /\ kept[i].id = kept[j].id => i = j
        BY <2>1
      <4> QED BY <3>4, <4>1, <4>2, <4>3, <4>4
    <3>6. From(f[k+1], k + 1)
      BY <2>5, <3>2, <3>3, <3>5 DEF longer
    <3> QED BY <2>1, <3>6
  <2> HIDE DEF From
  <2> QED BY <2>3, <2>4, <2>5
<1> HIDE DEF T
<1>5. 0 .. last \subseteq T
  BY <1>2, <1>3, <1>4, IntervalInduction
<1>6. last \in T
  BY <1>2, <1>5
<1>7. From(new, last)
  BY <1>1, <1>6 DEF T
<1>8. Issued(new, n)
  BY <1>2, <1>7 DEF Issued
<1> QED BY <1>7, <1>8 DEF new

-----------------------------------------------------------------------------
(***************************************************************************)
(* What the reducer does to the conversations.                             *)
(***************************************************************************)

\* One field of a conversation is changed.
LEMMA OtherField ==
  ASSUME NEW n, NEW conv, IsConversation(conv, n), NEW x, NEW new,
         new \in {[conv EXCEPT !.folder = x], [conv EXCEPT !.title = x], [conv EXCEPT !.model = x],
                  [conv EXCEPT !.pinned = x], [conv EXCEPT !.archived = x], [conv EXCEPT !.tags = x]}
  PROVE  IsConversation(new, n)
<1>1. /\ new = [folder |-> new.folder, title |-> new.title, model |-> new.model, msgs |-> new.msgs,
                pinned |-> new.pinned, archived |-> new.archived, tags |-> new.tags]
      /\ new.msgs = conv.msgs
  BY DEF IsConversation
<1> QED BY <1>1 DEF IsConversation

LEMMA WithMessages ==
  ASSUME NEW n, NEW k, NEW conv, IsConversation(conv, n), NEW msgs \in Seq(Message), Issued(msgs, k)
  PROVE  IsConversation([conv EXCEPT !.msgs = msgs], k)
<1> DEFINE new == [conv EXCEPT !.msgs = msgs]
<1>1. /\ new = [folder |-> new.folder, title |-> new.title, model |-> new.model, msgs |-> new.msgs,
                pinned |-> new.pinned, archived |-> new.archived, tags |-> new.tags]
      /\ new.msgs = msgs
  BY DEF IsConversation
<1> HIDE DEF new
<1>2. IsConversation(new, k)
  BY <1>1 DEF IsConversation
<1> QED BY <1>2 DEF new

\* Conversations are changed, none comes or goes.
LEMMA WithConversations ==
  ASSUME NEW n, NEW s, IsChat(s, n), NEW k, NEW convs,
         convs = [c \in DOMAIN s.convs |-> convs[c]],
         \A c \in DOMAIN s.convs : IsConversation(convs[c], k),
         NEW t, t = [s EXCEPT !.convs = convs]
  PROVE  IsChat(t, k) /\ DOMAIN t.convs = DOMAIN s.convs
<1>1. /\ t = [convs |-> t.convs, folders |-> t.folders, active |-> t.active, error |-> t.error]
      /\ t.convs = convs /\ t.active = s.active
  BY DEF IsChat
<1>2. DOMAIN convs = DOMAIN s.convs
  OBVIOUS
<1> QED BY <1>1, <1>2 DEF IsChat, ActiveIsThere

\* One conversation is replaced.
LEMMA WithConversation ==
  ASSUME NEW n, NEW s, IsChat(s, n), NEW c \in DOMAIN s.convs, NEW conv, IsConversation(conv, n),
         NEW t, t = [s EXCEPT !.convs = [s.convs EXCEPT ![c] = conv]]
  PROVE  IsChat(t, n) /\ DOMAIN t.convs = DOMAIN s.convs
<1> DEFINE convs == [s.convs EXCEPT ![c] = conv]
<1>1. convs = [d \in DOMAIN s.convs |-> convs[d]] /\ \A d \in DOMAIN s.convs : IsConversation(convs[d], n)
  BY DEF IsChat
<1>2. t = [s EXCEPT !.convs = convs]
  OBVIOUS
<1> HIDE DEF convs
<1> QED BY <1>1, <1>2, WithConversations

\* The actions on one conversation that leave its messages alone.
LEMMA SettersKeepChat ==
  ASSUME NEW n, NEW s, IsChat(s, n), NEW c, NEW x, NEW t,
         \/ t = SetTitle(s, c, x) \/ t = SetModel(s, c, x)
         \/ t = SetPinned(s, c, x) \/ t = SetArchived(s, c, x)
         \/ t = TogglePin(s, c) \/ t = ToggleArchive(s, c)
         \/ t = AddTag(s, c, x) \/ t = RemoveTag(s, c, x) \/ t = SetTags(s, c, x)
  PROVE  IsChat(t, n) /\ DOMAIN t.convs = DOMAIN s.convs
<1>1. CASE c \notin DOMAIN s.convs
  <2>1. t = s
    BY <1>1 DEF SetTitle, SetModel, SetPinned, SetArchived, TogglePin, ToggleArchive, AddTag, RemoveTag, SetTags
  <2> QED BY <2>1
<1>2. CASE c \in DOMAIN s.convs
  <2> DEFINE conv == s.convs[c]
             Becomes(new) == IsConversation(new, n) /\ t = [s EXCEPT !.convs = [s.convs EXCEPT ![c] = new]]
  <2>1. IsConversation(conv, n)
    BY <1>2 DEF IsChat
  <2>2. ASSUME NEW new, Becomes(new) PROVE IsChat(t, n) /\ DOMAIN t.convs = DOMAIN s.convs
    BY <1>2, <2>2, WithConversation
  <2>3. CASE t = SetTitle(s, c, x)
    <3>1. IsConversation([conv EXCEPT !.title = x], n)
      BY <2>1, OtherField
    <3>2. Becomes([conv EXCEPT !.title = x])
      BY <1>2, <2>3, <3>1 DEF SetTitle
    <3> QED BY <2>2, <3>2
  <2>4. CASE t = SetModel(s, c, x)
    <3>1. IsConversation([conv EXCEPT !.model = x], n)
      BY <2>1, OtherField
    <3>2. Becomes([conv EXCEPT !.model = x])
      BY <1>2, <2>4, <3>1 DEF SetModel
    <3> QED BY <2>2, <3>2
  <2>5. CASE t = SetPinned(s, c, x) \/ t = TogglePin(s, c)
    <3>1. PICK y : t = [s EXCEPT !.convs = [s.convs EXCEPT ![c] = [conv EXCEPT !.pinned = y]]]
      BY <1>2, <2>5 DEF SetPinned, TogglePin
    <3>2. IsConversation([conv EXCEPT !.pinned = y], n)
      BY <2>1, OtherField
    <3> QED BY <2>2, <3>1, <3>2
  <2>6. CASE t = SetArchived(s, c, x) \/ t = ToggleArchive(s, c)
    <3>1. PICK y : t = [s EXCEPT !.convs = [s.convs EXCEPT ![c] = [conv EXCEPT !.archived = y]]]
      BY <1>2, <2>6 DEF SetArchived, ToggleArchive
    <3>2. IsConversation([conv EXCEPT !.archived = y], n)
      BY <2>1, OtherField
    <3> QED BY <2>2, <3>1, <3>2
  <2>7. CASE t = AddTag(s, c, x) \/ t = RemoveTag(s, c, x) \/ t = SetTags(s, c, x)
    <3>1. PICK y : t = [s EXCEPT !.convs = [s.convs EXCEPT ![c] = [conv EXCEPT !.tags = y]]]
      BY <1>2, <2>7 DEF AddTag, RemoveTag, SetTags
    <3>2. IsConversation([conv EXCEPT !.tags = y], n)
      BY <2>1, OtherField
    <3> QED BY <2>2, <3>1, <3>2
  <2> QED BY <2>3, <2>4, <2>5, <2>6, <2>7
<1> QED BY <1>1, <1>2

\* The newest of some conversations is one of them, or Null.
LEMMA NewestIsOne == \A ids : Newest(ids) \in ids \union {Null}
BY DEF Newest

LEMMA DeletionKeepsChat ==
  ASSUME NEW n, NEW s, IsChat(s, n), NEW c, NEW t, t = DeleteConversation(s, c)
  PROVE  IsChat(t, n) /\ DOMAIN t.convs = DOMAIN s.convs \ {c}
<1>1. CASE c \in DOMAIN s.convs
  <2> DEFINE left == DOMAIN s.convs \ {c}
             convs == [d \in left |-> s.convs[d]]
             active == IF s.active = c THEN Newest(left) ELSE s.active
  <2>1. t = [convs |-> convs, folders |-> s.folders, active |-> active, error |-> s.error]
    BY <1>1 DEF DeleteConversation, Restrict, IsChat
  <2>2. active \in left \union {Null}
    BY NewestIsOne DEF IsChat, ActiveIsThere
  <2>3. convs = [d \in left |-> convs[d]] /\ \A d \in left : IsConversation(convs[d], n)
    BY DEF IsChat
  <2>4. DOMAIN convs = left
    OBVIOUS
  <2> HIDE DEF convs, active, left
  <2>5. IsChat(t, n) /\ DOMAIN t.convs = left
    BY <2>1, <2>2, <2>3, <2>4 DEF IsChat, ActiveIsThere
  <2> QED BY <2>5 DEF left
<1>2. CASE c \notin DOMAIN s.convs
  BY <1>2 DEF DeleteConversation
<1> QED BY <1>1, <1>2

LEMMA BulkKeepsChat ==
  ASSUME NEW n, NEW s, IsChat(s, n), NEW ids, NEW x, NEW t,
         t = BulkDelete(s, ids) \/ t = BulkPin(s, ids, x) \/ t = BulkArchive(s, ids, x) \/ t = BulkAddTag(s, ids, x)
  PROVE  IsChat(t, n) /\ DOMAIN t.convs \subseteq DOMAIN s.convs
<1>1. CASE t = BulkDelete(s, ids)
  <2> DEFINE left == DOMAIN s.convs \ ids
             convs == [d \in left |-> s.convs[d]]
             active == IF s.active \in ids THEN Newest(left) ELSE s.active
  <2>1. t = [convs |-> convs, folders |-> s.folders, active |-> active, error |-> s.error]
    BY <1>1 DEF BulkDelete, Restrict, IsChat
  <2>2. active \in left \union {Null}
    BY NewestIsOne DEF IsChat, ActiveIsThere
  <2>3. convs = [d \in left |-> convs[d]] /\ \A d \in left : IsConversation(convs[d], n)
    BY DEF IsChat
  <2>4. DOMAIN convs = left
    OBVIOUS
  <2> HIDE DEF convs, active, left
  <2>5. IsChat(t, n) /\ DOMAIN t.convs = left
    BY <2>1, <2>2, <2>3, <2>4 DEF IsChat, ActiveIsThere
  <2> QED BY <2>5 DEF left
<1>2. \A c \in DOMAIN s.convs : IsConversation(s.convs[c], n)
  BY DEF IsChat
<1>3. CASE t = BulkPin(s, ids, x)
  <2> DEFINE convs == [c \in DOMAIN s.convs |-> IF c \in ids THEN [s.convs[c] EXCEPT !.pinned = x] ELSE s.convs[c]]
  <2>1. t = [s EXCEPT !.convs = convs]
    BY <1>3 DEF BulkPin
  <2>2. \A c \in DOMAIN s.convs : IsConversation(convs[c], n)
    BY <1>2, OtherField
  <2>3. convs = [c \in DOMAIN s.convs |-> convs[c]]
    OBVIOUS
  <2> HIDE DEF convs
  <2> QED BY <2>1, <2>2, <2>3, WithConversations
<1>4. CASE t = BulkArchive(s, ids, x)
  <2> DEFINE convs == [c \in DOMAIN s.convs |-> IF c \in ids THEN [s.convs[c] EXCEPT !.archived = x] ELSE s.convs[c]]
  <2>1. t = [s EXCEPT !.convs = convs]
    BY <1>4 DEF BulkArchive
  <2>2. \A c \in DOMAIN s.convs : IsConversation(convs[c], n)
    BY <1>2, OtherField
  <2>3. convs = [c \in DOMAIN s.convs |-> convs[c]]
    OBVIOUS
  <2> HIDE DEF convs
  <2> QED BY <2>1, <2>2, <2>3, WithConversations
<1>5. CASE t = BulkAddTag(s, ids, x)
  <2> DEFINE tags(c) == s.convs[c].tags \union {x}
             convs == [c \in DOMAIN s.convs |-> IF c \in ids THEN [s.convs[c] EXCEPT !.tags = tags(c)] ELSE s.convs[c]]
  <2>1. t = [s EXCEPT !.convs = convs]
    BY <1>5 DEF BulkAddTag
  <2> HIDE DEF tags
  <2>2. \A c \in DOMAIN s.convs : IsConversation(convs[c], n)
    BY <1>2, OtherField
  <2>3. convs = [c \in DOMAIN s.convs |-> convs[c]]
    OBVIOUS
  <2> HIDE DEF convs
  <2> QED BY <2>1, <2>2, <2>3, WithConversations
<1> QED BY <1>1, <1>3, <1>4, <1>5

\* A creation adds the conversation and selects it, unless it is there.
LEMMA CreationKeepsChat ==
  ASSUME NEW n \in Nat, NEW s, IsChat(s, n), NEW c, NEW t,
         t = CreateConversation(s, c, NewConversation(Null))
  PROVE  /\ IsChat(t, n)
         /\ DOMAIN t.convs = DOMAIN s.convs \union {c}
         /\ c \notin DOMAIN s.convs => t.convs[c] = NewConversation(Null) /\ t.active = c
<1>1. CASE c \in DOMAIN s.convs
  BY <1>1 DEF CreateConversation
<1>2. CASE c \notin DOMAIN s.convs
  <2> DEFINE convs == [x \in DOMAIN s.convs \union {c} |-> IF x = c THEN NewConversation(Null) ELSE s.convs[x]]
  <2>1. t = [convs |-> convs, folders |-> s.folders, active |-> c, error |-> s.error]
    BY <1>2 DEF CreateConversation, Update, IsChat
  <2>2. IsConversation(NewConversation(Null), n)
    BY DEF NewConversation, IsConversation, Issued
  <2>3. /\ DOMAIN convs = DOMAIN s.convs \union {c} /\ convs[c] = NewConversation(Null)
        /\ convs = [x \in DOMAIN convs |-> convs[x]]
        /\ \A x \in DOMAIN convs : IsConversation(convs[x], n)
    BY <2>2 DEF IsChat
  <2> HIDE DEF convs
  <2> QED BY <2>1, <2>3 DEF IsChat, ActiveIsThere
<1> QED BY <1>1, <1>2

\* More message ids are issued.
LEMMA ChatKept ==
  ASSUME NEW n \in Nat, NEW s, IsChat(s, n)
  PROVE  IsChat(s, n + 1)
<1>1. \A c \in DOMAIN s.convs : IsConversation(s.convs[c], n + 1)
  BY IssuedMore DEF IsChat, IsConversation
<1> QED BY <1>1 DEF IsChat

\* A message with a new id is added, or reported as lost.
LEMMA AddMessageKeepsChat ==
  ASSUME NEW n \in Nat, NEW s, IsChat(s, n), NEW c, NEW m \in Message, m.id = n + 1,
         NEW t, t = AddMessage(s, c, m)
  PROVE  IsChat(t, n + 1) /\ DOMAIN t.convs = DOMAIN s.convs
<1>1. CASE c \notin DOMAIN s.convs
  <2>1. t = [s EXCEPT !.error = TRUE]
    BY <1>1 DEF AddMessage
  <2>2. IsChat(t, n) /\ DOMAIN t.convs = DOMAIN s.convs
    BY <2>1 DEF IsChat, ActiveIsThere
  <2> QED BY <2>2, ChatKept
<1>2. CASE c \in DOMAIN s.convs
  <2> DEFINE old == s.convs[c]
             msgs == Append(old.msgs, m)
             longer == [old EXCEPT !.msgs = msgs]
  <2>1. IsConversation(old, n)
    BY <1>2 DEF IsChat
  <2> DEFINE title == IF old.msgs = <<>> /\ m.role = "user" THEN "auto" ELSE old.title
  <2>2. t = [s EXCEPT !.convs = [s.convs EXCEPT ![c] = [longer EXCEPT !.title = title]]]
    BY <1>2 DEF AddMessage, IsChat, IsConversation
  <2> HIDE DEF title
  <2>3. msgs \in Seq(Message) /\ Issued(msgs, n + 1)
    BY <2>1, AppendIssued DEF IsConversation
  <2> HIDE DEF msgs
  <2>4. IsConversation(longer, n + 1)
    BY <2>1, <2>3, WithMessages
  <2> HIDE DEF longer
  <2>5. IsConversation([longer EXCEPT !.title = title], n + 1)
    BY <2>4, OtherField
  <2>6. IsChat(s, n + 1)
    BY ChatKept
  <2> QED BY <1>2, <2>2, <2>5, <2>6, WithConversation
<1> QED BY <1>1, <1>2

\* A message is replaced or deleted.
LEMMA EditKeepsChat ==
  ASSUME NEW n \in Nat, NEW s, IsChat(s, n), NEW c, NEW m \in Message, NEW id,
         NEW t, t = UpdateMessage(s, c, m) \/ t = DeleteMessage(s, c, id)
  PROVE  IsChat(t, n) /\ DOMAIN t.convs = DOMAIN s.convs
<1>1. CASE c \notin DOMAIN s.convs
  BY <1>1 DEF UpdateMessage, DeleteMessage
<1>2. CASE c \in DOMAIN s.convs
  <2> DEFINE old == s.convs[c]
             new == ReplaceFirst(old.msgs, m)
  <2>1. IsConversation(old, n) /\ old.msgs \in Seq(Message) /\ Issued(old.msgs, n)
    BY <1>2 DEF IsChat, IsConversation
  <2>2. PICK msgs : /\ msgs = new \/ msgs = Without(old.msgs, id)
                    /\ t = [s EXCEPT !.convs = [s.convs EXCEPT ![c] = [old EXCEPT !.msgs = msgs]]]
    BY <1>2 DEF UpdateMessage, DeleteMessage
  <2>3. new \in Seq(Message) /\ Issued(new, n)
    BY <2>1, ReplacedIssued
  <2>4. Without(old.msgs, id) \in Seq(Message) /\ Issued(Without(old.msgs, id), n)
    BY <2>1, FilteredIssued
  <2> HIDE DEF new
  <2>5. msgs \in Seq(Message) /\ Issued(msgs, n)
    BY <2>2, <2>3, <2>4
  <2> DEFINE conv == [old EXCEPT !.msgs = msgs]
  <2>6. IsConversation(conv, n)
    BY <2>1, <2>5, WithMessages
  <2>7. t = [s EXCEPT !.convs = [s.convs EXCEPT ![c] = conv]]
    BY <2>2
  <2> HIDE DEF conv
  <2> QED BY <1>2, <2>6, <2>7, WithConversation
<1> QED BY <1>1, <1>2

-----------------------------------------------------------------------------
(***************************************************************************)
(* The actions.                                                            *)
(***************************************************************************)

OnlyByCreation ==
  \A c \in DOMAIN chat'.convs \ Conversations :
    /\ c \notin ConvId
    /\ chat'.convs[c] = NewConversation(Null)
    /\ chat'.active = c

\* A step that changes the chat and leaves the conversations there are.
LEMMA ChatSteps ==
  ASSUME StoreInv, convIds' = convIds, messageIds' \in Nat,
         IsChat(chat', messageIds'), DOMAIN chat'.convs \subseteq DOMAIN chat.convs
  PROVE  StoreInv' /\ OnlyByCreation
BY DEF StoreInv, OnlyByCreation, Conversations, ConvId

LEMMA CreateSteps ==
  ASSUME StoreInv, Create
  PROVE  StoreInv' /\ OnlyByCreation
<1>1. /\ convIds' = convIds + 1 /\ messageIds' = messageIds
      /\ chat' = CreateConversation(chat, convIds', NewConversation(Null))
      /\ convIds \in Nat /\ messageIds \in Nat /\ IsChat(chat, messageIds)
      /\ DOMAIN chat.convs \subseteq 1 .. convIds
  BY DEF Create, StoreInv, Conversations, ConvId
<1>2. /\ IsChat(chat', messageIds)
      /\ DOMAIN chat'.convs = DOMAIN chat.convs \union {convIds'}
      /\ convIds' \notin DOMAIN chat.convs =>
           chat'.convs[convIds'] = NewConversation(Null) /\ chat'.active = convIds'
  BY <1>1, CreationKeepsChat
<1>3. DOMAIN chat'.convs \subseteq 1 .. convIds'
  BY <1>1, <1>2
<1>4. StoreInv'
  BY <1>1, <1>2, <1>3 DEF StoreInv, Conversations, ConvId
<1>5. convIds' \notin 1 .. convIds
  BY <1>1
<1> QED BY <1>2, <1>4, <1>5 DEF OnlyByCreation, Conversations, ConvId

LEMMA AddSteps ==
  ASSUME StoreInv, Add
  PROVE  StoreInv' /\ OnlyByCreation
<1>1. PICK c \in ConvId, role \in {"user", "assistant"} :
        chat' = AddMessage(chat, c, [id |-> messageIds', role |-> role, model |-> Null])
  BY DEF Add
<1> DEFINE m == [id |-> messageIds', role |-> role, model |-> Null]
<1>2. /\ messageIds \in Nat /\ messageIds' = messageIds + 1 /\ convIds' = convIds
      /\ IsChat(chat, messageIds)
  BY DEF Add, StoreInv
<1>3. m \in Message /\ m.id = messageIds + 1
  BY <1>2 DEF Message
<1>4. chat' = AddMessage(chat, c, m)
  BY <1>1
<1> HIDE DEF m
<1>5. IsChat(chat', messageIds + 1) /\ DOMAIN chat'.convs = DOMAIN chat.convs
  BY <1>2, <1>3, <1>4, AddMessageKeepsChat
<1> QED BY <1>2, <1>5, ChatSteps

LEMMA EditMessageSteps ==
  ASSUME StoreInv, EditMessage
  PROVE  StoreInv' /\ OnlyByCreation
<1>1. /\ convIds' = convIds /\ messageIds' = messageIds
      /\ messageIds \in Nat /\ IsChat(chat, messageIds)
  BY DEF EditMessage, StoreInv
<1>2. PICK c \in ConvId, id \in 1 .. messageIds :
        \/ chat' = DeleteMessage(chat, c, id)
        \/ \E model \in Models :
             chat' = UpdateMessage(chat, c, [id |-> id, role |-> "assistant", model |-> model])
  BY DEF EditMessage
<1>3. PICK m \in Message : chat' = UpdateMessage(chat, c, m) \/ chat' = DeleteMessage(chat, c, id)
  <2>1. \A model \in Models \union {Null} : [id |-> id, role |-> "assistant", model |-> model] \in Message
    BY <1>1 DEF Message
  <2> QED BY <1>2, <2>1
<1>4. IsChat(chat', messageIds) /\ DOMAIN chat'.convs = DOMAIN chat.convs
  BY <1>1, <1>3, EditKeepsChat
<1> QED BY <1>1, <1>4, ChatSteps

LEMMA EditConversationSteps ==
  ASSUME StoreInv, EditConversation
  PROVE  StoreInv' /\ OnlyByCreation
<1>1. /\ convIds' = convIds /\ messageIds' = messageIds
      /\ messageIds \in Nat /\ IsChat(chat, messageIds)
  BY DEF EditConversation, StoreInv
<1> DEFINE other == [NewConversation(Null) EXCEPT !.title = "user"]
           Set(c, x) ==
             \/ chat' = SetTitle(chat, c, x) \/ chat' = SetModel(chat, c, x)
             \/ chat' = SetPinned(chat, c, x) \/ chat' = SetArchived(chat, c, x)
             \/ chat' = TogglePin(chat, c) \/ chat' = ToggleArchive(chat, c)
             \/ chat' = AddTag(chat, c, x) \/ chat' = RemoveTag(chat, c, x) \/ chat' = SetTags(chat, c, x)
<1>2. PICK c : \/ chat' = DeleteConversation(chat, c)
               \/ \E x : Set(c, x)
               \/ chat' = UpdateConversation(chat, c, other)
  BY DEF EditConversation
<1>3. CASE chat' = DeleteConversation(chat, c)
  <2>1. IsChat(chat', messageIds) /\ DOMAIN chat'.convs = DOMAIN chat.convs \ {c}
    BY <1>1, <1>3, DeletionKeepsChat
  <2> QED BY <1>1, <2>1, ChatSteps
<1>4. ASSUME NEW x, Set(c, x) PROVE StoreInv' /\ OnlyByCreation
  <2>1. IsChat(chat', messageIds) /\ DOMAIN chat'.convs = DOMAIN chat.convs
    BY <1>1, <1>4, SettersKeepChat
  <2> QED BY <1>1, <2>1, ChatSteps
<1>5. CASE chat' = UpdateConversation(chat, c, other)
  <2>1. IsConversation(other, messageIds)
    <3>1. IsConversation(NewConversation(Null), messageIds)
      BY DEF NewConversation, IsConversation, Issued
    <3> QED BY <3>1, OtherField
  <2>2. chat' = chat \/ (c \in DOMAIN chat.convs /\ chat' = [chat EXCEPT !.convs = [chat.convs EXCEPT ![c] = other]])
    BY <1>5 DEF UpdateConversation
  <2> HIDE DEF other
  <2>3. IsChat(chat', messageIds) /\ DOMAIN chat'.convs = DOMAIN chat.convs
    BY <1>1, <2>1, <2>2, WithConversation
  <2> QED BY <1>1, <2>3, ChatSteps
<1> HIDE DEF Set
<1> QED BY <1>2, <1>3, <1>4, <1>5

LEMMA SelectSteps ==
  ASSUME StoreInv, Select
  PROVE  StoreInv' /\ OnlyByCreation
<1>1. /\ convIds' = convIds /\ messageIds' = messageIds
      /\ messageIds \in Nat /\ IsChat(chat, messageIds)
  BY DEF Select, StoreInv
<1>2. PICK c \in Conversations \union {Null} : chat' = [chat EXCEPT !.active = c]
  BY DEF Select, SetActiveConversation
<1>3. IsChat(chat', messageIds) /\ DOMAIN chat'.convs = DOMAIN chat.convs
  BY <1>1, <1>2 DEF IsChat, ActiveIsThere, Conversations
<1> QED BY <1>1, <1>3, ChatSteps

LEMMA BulkSteps ==
  ASSUME StoreInv, Bulk
  PROVE  StoreInv' /\ OnlyByCreation
<1>1. /\ convIds' = convIds /\ messageIds' = messageIds
      /\ messageIds \in Nat /\ IsChat(chat, messageIds)
  BY DEF Bulk, StoreInv
<1>2. PICK ids, x : \/ chat' = BulkDelete(chat, ids) \/ chat' = BulkPin(chat, ids, x)
                    \/ chat' = BulkArchive(chat, ids, x) \/ chat' = BulkAddTag(chat, ids, x)
  BY DEF Bulk
<1>3. IsChat(chat', messageIds) /\ DOMAIN chat'.convs \subseteq DOMAIN chat.convs
  BY <1>1, <1>2, BulkKeepsChat
<1> QED BY <1>1, <1>3, ChatSteps

LEMMA InitStore == Init => StoreInv
<1>1. DOMAIN <<>> = {} /\ <<>> = [c \in {} |-> {}]
  OBVIOUS
<1> QED BY <1>1 DEF Init, StoreInv, initialState, IsChat, ActiveIsThere, Conversations, ConvId

LEMMA NextSteps ==
  ASSUME StoreInv, [Next]_vars
  PROVE  StoreInv'
<1>1. CASE UNCHANGED vars
  BY <1>1 DEF vars, StoreInv, Conversations, ConvId
<1>2. CASE Next
  BY <1>2, CreateSteps, AddSteps, EditMessageSteps, EditConversationSteps,
     SelectSteps, BulkSteps DEF Next
<1> QED BY <1>1, <1>2

LEMMA StoreHolds == Spec => []StoreInv
<1>1. StoreInv /\ [Next]_vars => StoreInv'
  BY NextSteps
<1> QED BY <1>1, InitStore, PTL DEF Spec

(***************************************************************************)
(* UPDATE_MESSAGE and DELETE_MESSAGE reach one message at most, for any    *)
(* number of conversations and messages.                                   *)
(***************************************************************************)
THEOREM MessagesDistinct == Spec => []MessageIdsDistinct
<1>1. StoreInv => MessageIdsDistinct
  BY DEF StoreInv, MessageIdsDistinct, IsChat, IsConversation, Issued, Conversations
<1> QED BY <1>1, StoreHolds, PTL

(***************************************************************************)
(* Whatever is still dispatched for a deleted conversation, it stays       *)
(* deleted: a conversation enters under an id that was never in the store. *)
(***************************************************************************)
THEOREM DeletionIsFinal == Spec => DeletedStaysDeleted
<1>1. StoreInv /\ [Next]_vars => [OnlyByCreation]_vars
  <2>1. ASSUME StoreInv, Next PROVE OnlyByCreation
    BY <2>1, CreateSteps, AddSteps, EditMessageSteps, EditConversationSteps,
       SelectSteps, BulkSteps DEF Next
  <2> QED BY <2>1
<1> QED BY <1>1, StoreHolds, PTL DEF Spec, DeletedStaysDeleted, OnlyByCreation

-----------------------------------------------------------------------------
(***************************************************************************)
(* Bulk actions.  What one does for a set of conversations, and then its   *)
(* single counterpart for one more, is what it does for both; so the       *)
(* states a fold of the counterpart goes through are those of the bulk     *)
(* action for the conversations so far.                                    *)
(***************************************************************************)

LEMMA NewestKept ==
  ASSUME NEW ids, ids \subseteq Nat, NEW c \in ids, c # Newest(ids)
  PROVE  Newest(ids \ {c}) = Newest(ids)
<1> DEFINE front(S) == {x \in S : \A d \in S : d <= x}
<1>1. /\ Newest(ids) = IF front(ids) = {} THEN Null ELSE CHOOSE x \in front(ids) : TRUE
      /\ Newest(ids \ {c}) =
           IF front(ids \ {c}) = {} THEN Null ELSE CHOOSE x \in front(ids \ {c}) : TRUE
  BY DEF Newest
<1>2. \A S \in SUBSET Nat : \A x, y \in front(S) : x = y
  OBVIOUS
<1>3. c \notin front(ids)
  BY <1>1, <1>2
<1>4. front(ids) = front(ids \ {c})
  <2>1. PICK d \in ids : ~(d <= c)
    BY <1>3
  <2>2. \A x \in ids : x \in Nat
    OBVIOUS
  <2>3. ASSUME NEW x \in front(ids) PROVE x \in front(ids \ {c})
    BY <1>3
  <2>4. ASSUME NEW x \in front(ids \ {c}) PROVE x \in front(ids)
    BY <2>1, <2>2
  <2> QED BY <2>3, <2>4
<1> HIDE DEF front
<1>5. Newest(ids \ {c}) = IF front(ids) = {} THEN Null ELSE CHOOSE x \in front(ids) : TRUE
  BY <1>1, <1>4
<1> QED BY <1>1, <1>5

LEMMA DeleteAndOne ==
  ASSUME NEW n, NEW s, IsChat(s, n), DOMAIN s.convs \subseteq Nat, NEW S, NEW c \in Nat
  PROVE  DeleteConversation(BulkDelete(s, S), c) = BulkDelete(s, S \union {c})
<1> DEFINE Left(T) == DOMAIN s.convs \ T
           Active(T) == IF s.active \in T THEN Newest(Left(T)) ELSE s.active
           Convs(T) == [d \in Left(T) |-> s.convs[d]]
           With(convs, active) == [convs |-> convs, folders |-> s.folders, active |-> active, error |-> s.error]
<1>1. ASSUME NEW T PROVE BulkDelete(s, T) = With(Convs(T), Active(T))
  <2>1. BulkDelete(s, T) = [s EXCEPT !.convs = Convs(T), !.active = Active(T)]
    BY DEF BulkDelete, Restrict
  <2> HIDE DEF Convs, Active
  <2> QED BY <2>1 DEF IsChat
<1>2. s.active \in DOMAIN s.convs \/ s.active = Null
  BY DEF IsChat, ActiveIsThere
<1>3. c # Null
  BY NullIsNoId
<1>4. CASE c \notin Left(S)
  <2>1. Left(S \union {c}) = Left(S)
    BY <1>4
  <2>2. s.active \in S \union {c} <=> s.active \in S
    BY <1>2, <1>3, <1>4
  <2>3. DeleteConversation(With(Convs(S), Active(S)), c) = With(Convs(S), Active(S))
    BY <1>4 DEF DeleteConversation
  <2>4. Convs(S \union {c}) = Convs(S) /\ Active(S \union {c}) = Active(S)
    <3> HIDE DEF Left
    <3> QED BY <2>1, <2>2
  <2> HIDE DEF Convs, Active
  <2> QED BY <1>1, <2>3, <2>4
<1>5. CASE c \in Left(S)
  <2>1. Left(S \union {c}) = Left(S) \ {c} /\ Left(S) \subseteq Nat
    BY <1>5
  <2>2. Convs(S \union {c}) = [d \in Left(S) \ {c} |-> Convs(S)[d]]
    BY <2>1
  <2>3. DeleteConversation(With(Convs(S), Active(S)), c)
          = With([d \in Left(S) \ {c} |-> Convs(S)[d]],
                 IF Active(S) = c THEN Newest(Left(S) \ {c}) ELSE Active(S))
    BY <1>5 DEF DeleteConversation, Restrict
  <2>4. Active(S \union {c}) = IF Active(S) = c THEN Newest(Left(S) \ {c}) ELSE Active(S)
    <3>1. c \notin S
      BY <1>5
    <3> HIDE DEF Left
    <3>2. CASE s.active \in S
      <4>1. Active(S) = Newest(Left(S)) /\ Active(S \union {c}) = Newest(Left(S) \ {c})
        BY <2>1, <3>2
      <4>2. Newest(Left(S)) # c => Newest(Left(S) \ {c}) = Newest(Left(S))
        BY <1>5, <2>1, NewestKept
      <4> QED BY <4>1, <4>2
    <3>3. CASE s.active \notin S
      BY <2>1, <3>1, <3>3
    <3> QED BY <3>2, <3>3
  <2> HIDE DEF Convs, Active, Left
  <2> QED BY <1>1, <2>2, <2>3, <2>4
<1> QED BY <1>4, <1>5

LEMMA DeleteOneByOne ==
  ASSUME NEW n, IsChat(chat, n), DOMAIN chat.convs \subseteq Nat, NEW order \in Seq(Nat)
  PROVE  BulkDelete(chat, Range(order)) = FoldLeft(DeleteConversation, chat, order)
<1> DEFINE k == Len(order)
           Bulk1(S) == BulkDelete(chat, S)
           Single(s, c) == DeleteConversation(s, c)
           Of(I) == {order[i] : i \in I}
           Eq(g) == g = [I \in SUBSET DOMAIN order |-> IF I = {} THEN chat
                            ELSE Single(g[I \ {Max(I)}], order[Max(I)])]
           iter == CHOOSE g : Eq(g)
<1>1. k \in Nat /\ DOMAIN order = 1 .. k /\ \A i \in 1 .. k : order[i] \in Nat
  OBVIOUS
<1>2. Bulk1({}) = chat
  BY DEF BulkDelete, Restrict, IsChat
<1>3. ASSUME NEW S, NEW c \in Nat PROVE Single(Bulk1(S), c) = Bulk1(S \union {c})
  BY DeleteAndOne
<1>4. FoldLeft(DeleteConversation, chat, order) = iter[DOMAIN order]
  BY DEF FoldLeft, MapThenFoldSet
<1> HIDE DEF Bulk1, Single
<1>5. Eq([I \in SUBSET DOMAIN order |-> Bulk1(Of(I))])
  <2> DEFINE g == [I \in SUBSET DOMAIN order |-> Bulk1(Of(I))]
  <2>1. ASSUME NEW I \in SUBSET (1 .. k), I # {}
        PROVE  Bulk1(Of(I)) = Single(g[I \ {Max(I)}], order[Max(I)])
    <3> HIDE DEF k
    <3> DEFINE J == I \ {Max(I)}
               c == order[Max(I)]
    <3>1. Max(I) \in I /\ Max(I) \in 1 .. k /\ J \in SUBSET (1 .. k)
      BY <1>1, <2>1, MaxExists
    <3>2. Of(I) = Of(J) \union {c} /\ c \in Nat
      BY <1>1, <3>1
    <3>3. g[J] = Bulk1(Of(J))
      BY <1>1, <3>1
    <3> HIDE DEF g, Of, c
    <3>4. Single(Bulk1(Of(J)), c) = Bulk1(Of(J) \union {c})
      BY <1>3, <3>2
    <3>5. Bulk1(Of(I)) = Single(g[J], c)
      BY <3>2, <3>3, <3>4
    <3> QED BY <3>5 DEF c
  <2>2. Of({}) = {}
    OBVIOUS
  <2> HIDE DEF Of
  <2> QED BY <1>1, <1>2, <2>1, <2>2
<1>6. Eq(iter)
  <2> HIDE DEF Eq
  <2> QED BY <1>5
<1> HIDE DEF iter
<1> DEFINE T == {j \in 0 .. k : iter[1 .. j] = Bulk1(Of(1 .. j))}
<1>7. 0 \in T
  <2>1. iter[1 .. 0] = chat /\ Of(1 .. 0) = {} /\ 0 \in 0 .. k
    BY <1>1, <1>6
  <2>2. iter[1 .. 0] = Bulk1(Of(1 .. 0))
    BY <1>2, <2>1
  <2> HIDE DEF Of, k
  <2> QED BY <2>1, <2>2
<1>8. ASSUME NEW j \in 0 .. k - 1, j \in T PROVE j + 1 \in T
  <2> HIDE DEF k
  <2>1. /\ 1 .. j+1 \in SUBSET (1 .. k) /\ 1 .. j+1 # {} /\ j + 1 \in 1 .. k
        /\ Max(1 .. j+1) = j + 1 /\ (1 .. j+1) \ {j+1} = 1 .. j
    BY <1>1, IntervalTop
  <2>2. iter[1 .. j+1] = Single(iter[1 .. j], order[j+1])
    BY <1>1, <1>6, <2>1
  <2>3. Of(1 .. j+1) = Of(1 .. j) \union {order[j+1]} /\ order[j+1] \in Nat
    <3>1. 1 .. j+1 = (1 .. j) \union {j+1}
      BY <1>1, <2>1
    <3> QED BY <1>1, <2>1, <3>1
  <2>4. j + 1 \in 0 .. k
    BY <1>1, <2>1
  <2> HIDE DEF Of
  <2> QED BY <1>3, <1>8, <2>2, <2>3, <2>4
<1> HIDE DEF T, Of, k
<1>9. 0 .. k \subseteq T
  BY <1>1, <1>7, <1>8, IntervalInduction
<1>10. k \in T
  BY <1>1, <1>9
<1>11. Of(1 .. k) = Range(order)
  BY <1>1 DEF Of, Range
<1> QED BY <1>1, <1>4, <1>10, <1>11 DEF T, Bulk1

PinEach(order, b) == FoldLeft(LAMBDA s, c : SetPinned(s, c, b), chat, order)

LEMMA PinAndOne ==
  ASSUME NEW n, NEW s, IsChat(s, n), NEW S, NEW c, NEW b
  PROVE  SetPinned(BulkPin(s, S, b), c, b) = BulkPin(s, S \union {c}, b)
<1> DEFINE On(conv) == [conv EXCEPT !.pinned = b]
           Convs(T) == [d \in DOMAIN s.convs |-> IF d \in T THEN On(s.convs[d]) ELSE s.convs[d]]
           With(convs) == [convs |-> convs, folders |-> s.folders, active |-> s.active, error |-> s.error]
<1>1. ASSUME NEW T PROVE BulkPin(s, T, b) = With(Convs(T))
  <2>1. BulkPin(s, T, b) = [s EXCEPT !.convs = Convs(T)]
    BY DEF BulkPin
  <2> HIDE DEF Convs
  <2> QED BY <2>1 DEF IsChat
<1>2. \A d \in DOMAIN s.convs : On(On(s.convs[d])) = On(s.convs[d])
  BY DEF IsChat, IsConversation
<1>3. \A T : DOMAIN Convs(T) = DOMAIN s.convs /\ Convs(T) = [d \in DOMAIN s.convs |-> Convs(T)[d]]
  OBVIOUS
<1>4. CASE c \notin DOMAIN s.convs
  <2>1. Convs(S \union {c}) = Convs(S)
    BY <1>4
  <2>2. SetPinned(With(Convs(S)), c, b) = With(Convs(S))
    BY <1>3, <1>4 DEF SetPinned
  <2> QED BY <1>1, <2>1, <2>2
<1>5. CASE c \in DOMAIN s.convs
  <2>1. [Convs(S) EXCEPT ![c] = On(Convs(S)[c])] = Convs(S \union {c})
    <3>1. On(Convs(S)[c]) = On(s.convs[c])
      BY <1>2, <1>5
    <3> HIDE DEF On
    <3> QED BY <3>1
  <2>2. SetPinned(With(Convs(S)), c, b) = With([Convs(S) EXCEPT ![c] = On(Convs(S)[c])])
    <3> HIDE DEF Convs
    <3> QED BY <1>3, <1>5 DEF SetPinned
  <2> QED BY <1>1, <2>1, <2>2
<1> QED BY <1>4, <1>5

LEMMA PinOneByOne ==
  ASSUME NEW n, IsChat(chat, n), NEW order \in Seq(Nat), NEW b
  PROVE  BulkPin(chat, Range(order), b) = PinEach(order, b)
<1> DEFINE k == Len(order)
           Bulk1(S) == BulkPin(chat, S, b)
           Single(s, c) == SetPinned(s, c, b)
           Of(I) == {order[i] : i \in I}
           Eq(g) == g = [I \in SUBSET DOMAIN order |-> IF I = {} THEN chat
                            ELSE Single(g[I \ {Max(I)}], order[Max(I)])]
           iter == CHOOSE g : Eq(g)
<1>1. k \in Nat /\ DOMAIN order = 1 .. k /\ \A i \in 1 .. k : order[i] \in Nat
  OBVIOUS
<1>2. Bulk1({}) = chat
  BY DEF BulkPin, IsChat
<1>3. ASSUME NEW S, NEW c \in Nat PROVE Single(Bulk1(S), c) = Bulk1(S \union {c})
  BY PinAndOne
<1>4. PinEach(order, b) = iter[DOMAIN order]
  BY DEF PinEach, FoldLeft, MapThenFoldSet
<1> HIDE DEF Bulk1, Single
<1>5. Eq([I \in SUBSET DOMAIN order |-> Bulk1(Of(I))])
  <2> DEFINE g == [I \in SUBSET DOMAIN order |-> Bulk1(Of(I))]
  <2>1. ASSUME NEW I \in SUBSET (1 .. k), I # {}
        PROVE  Bulk1(Of(I)) = Single(g[I \ {Max(I)}], order[Max(I)])
    <3> HIDE DEF k
    <3> DEFINE J == I \ {Max(I)}
               c == order[Max(I)]
    <3>1. Max(I) \in I /\ Max(I) \in 1 .. k /\ J \in SUBSET (1 .. k)
      BY <1>1, <2>1, MaxExists
    <3>2. Of(I) = Of(J) \union {c} /\ c \in Nat
      BY <1>1, <3>1
    <3>3. g[J] = Bulk1(Of(J))
      BY <1>1, <3>1
    <3> HIDE DEF g, Of, c
    <3>4. Single(Bulk1(Of(J)), c) = Bulk1(Of(J) \union {c})
      BY <1>3, <3>2
    <3>5. Bulk1(Of(I)) = Single(g[J], c)
      BY <3>2, <3>3, <3>4
    <3> QED BY <3>5 DEF c
  <2>2. Of({}) = {}
    OBVIOUS
  <2> HIDE DEF Of
  <2> QED BY <1>1, <1>2, <2>1, <2>2
<1>6. Eq(iter)
  <2> HIDE DEF Eq
  <2> QED BY <1>5
<1> HIDE DEF iter
<1> DEFINE T == {j \in 0 .. k : iter[1 .. j] = Bulk1(Of(1 .. j))}
<1>7. 0 \in T
  <2>1. iter[1 .. 0] = chat /\ Of(1 .. 0) = {} /\ 0 \in 0 .. k
    BY <1>1, <1>6
  <2>2. iter[1 .. 0] = Bulk1(Of(1 .. 0))
    BY <1>2, <2>1
  <2> HIDE DEF Of, k
  <2> QED BY <2>1, <2>2
<1>8. ASSUME NEW j \in 0 .. k - 1, j \in T PROVE j + 1 \in T
  <2> HIDE DEF k
  <2>1. /\ 1 .. j+1 \in SUBSET (1 .. k) /\ 1 .. j+1 # {} /\ j + 1 \in 1 .. k
        /\ Max(1 .. j+1) = j + 1 /\ (1 .. j+1) \ {j+1} = 1 .. j
    BY <1>1, IntervalTop
  <2>2. iter[1 .. j+1] = Single(iter[1 .. j], order[j+1])
    BY <1>1, <1>6, <2>1
  <2>3. Of(1 .. j+1) = Of(1 .. j) \union {order[j+1]} /\ order[j+1] \in Nat
    <3>1. 1 .. j+1 = (1 .. j) \union {j+1}
      BY <1>1, <2>1
    <3> QED BY <1>1, <2>1, <3>1
  <2>4. j + 1 \in 0 .. k
    BY <1>1, <2>1
  <2> HIDE DEF Of
  <2> QED BY <1>3, <1>8, <2>2, <2>3, <2>4
<1> HIDE DEF T, Of, k
<1>9. 0 .. k \subseteq T
  BY <1>1, <1>7, <1>8, IntervalInduction
<1>10. k \in T
  BY <1>1, <1>9
<1>11. Of(1 .. k) = Range(order)
  BY <1>1 DEF Of, Range
<1> QED BY <1>1, <1>4, <1>10, <1>11 DEF T, Bulk1

ArchiveEach(order, b) == FoldLeft(LAMBDA s, c : SetArchived(s, c, b), chat, order)

LEMMA ArchiveAndOne ==
  ASSUME NEW n, NEW s, IsChat(s, n), NEW S, NEW c, NEW b
  PROVE  SetArchived(BulkArchive(s, S, b), c, b) = BulkArchive(s, S \union {c}, b)
<1> DEFINE On(conv) == [conv EXCEPT !.archived = b]
           Convs(T) == [d \in DOMAIN s.convs |-> IF d \in T THEN On(s.convs[d]) ELSE s.convs[d]]
           With(convs) == [convs |-> convs, folders |-> s.folders, active |-> s.active, error |-> s.error]
<1>1. ASSUME NEW T PROVE BulkArchive(s, T, b) = With(Convs(T))
  <2>1. BulkArchive(s, T, b) = [s EXCEPT !.convs = Convs(T)]
    BY DEF BulkArchive
  <2> HIDE DEF Convs
  <2> QED BY <2>1 DEF IsChat
<1>2. \A d \in DOMAIN s.convs : On(On(s.convs[d])) = On(s.convs[d])
  BY DEF IsChat, IsConversation
<1>3. \A T : DOMAIN Convs(T) = DOMAIN s.convs /\ Convs(T) = [d \in DOMAIN s.convs |-> Convs(T)[d]]
  OBVIOUS
<1>4. CASE c \notin DOMAIN s.convs
  <2>1. Convs(S \union {c}) = Convs(S)
    BY <1>4
  <2>2. SetArchived(With(Convs(S)), c, b) = With(Convs(S))
    BY <1>3, <1>4 DEF SetArchived
  <2> QED BY <1>1, <2>1, <2>2
<1>5. CASE c \in DOMAIN s.convs
  <2>1. [Convs(S) EXCEPT ![c] = On(Convs(S)[c])] = Convs(S \union {c})
    <3>1. On(Convs(S)[c]) = On(s.convs[c])
      BY <1>2, <1>5
    <3> HIDE DEF On
    <3> QED BY <3>1
  <2>2. SetArchived(With(Convs(S)), c, b) = With([Convs(S) EXCEPT ![c] = On(Convs(S)[c])])
    <3> HIDE DEF Convs
    <3> QED BY <1>3, <1>5 DEF SetArchived
  <2> QED BY <1>1, <2>1, <2>2
<1> QED BY <1>4, <1>5

LEMMA ArchiveOneByOne ==
  ASSUME NEW n, IsChat(chat, n), NEW order \in Seq(Nat), NEW b
  PROVE  BulkArchive(chat, Range(order), b) = ArchiveEach(order, b)
<1> DEFINE k == Len(order)
           Bulk1(S) == BulkArchive(chat, S, b)
           Single(s, c) == SetArchived(s, c, b)
           Of(I) == {order[i] : i \in I}
           Eq(g) == g = [I \in SUBSET DOMAIN order |-> IF I = {} THEN chat
                            ELSE Single(g[I \ {Max(I)}], order[Max(I)])]
           iter == CHOOSE g : Eq(g)
<1>1. k \in Nat /\ DOMAIN order = 1 .. k /\ \A i \in 1 .. k : order[i] \in Nat
  OBVIOUS
<1>2. Bulk1({}) = chat
  BY DEF BulkArchive, IsChat
<1>3. ASSUME NEW S, NEW c \in Nat PROVE Single(Bulk1(S), c) = Bulk1(S \union {c})
  BY ArchiveAndOne
<1>4. ArchiveEach(order, b) = iter[DOMAIN order]
  BY DEF ArchiveEach, FoldLeft, MapThenFoldSet
<1> HIDE DEF Bulk1, Single
<1>5. Eq([I \in SUBSET DOMAIN order |-> Bulk1(Of(I))])
  <2> DEFINE g == [I \in SUBSET DOMAIN order |-> Bulk1(Of(I))]
  <2>1. ASSUME NEW I \in SUBSET (1 .. k), I # {}
        PROVE  Bulk1(Of(I)) = Single(g[I \ {Max(I)}], order[Max(I)])
    <3> HIDE DEF k
    <3> DEFINE J == I \ {Max(I)}
               c == order[Max(I)]
    <3>1. Max(I) \in I /\ Max(I) \in 1 .. k /\ J \in SUBSET (1 .. k)
      BY <1>1, <2>1, MaxExists
    <3>2. Of(I) = Of(J) \union {c} /\ c \in Nat
      BY <1>1, <3>1
    <3>3. g[J] = Bulk1(Of(J))
      BY <1>1, <3>1
    <3> HIDE DEF g, Of, c
    <3>4. Single(Bulk1(Of(J)), c) = Bulk1(Of(J) \union {c})
      BY <1>3, <3>2
    <3>5. Bulk1(Of(I)) = Single(g[J], c)
      BY <3>2, <3>3, <3>4
    <3> QED BY <3>5 DEF c
  <2>2. Of({}) = {}
    OBVIOUS
  <2> HIDE DEF Of
  <2> QED BY <1>1, <1>2, <2>1, <2>2
<1>6. Eq(iter)
  <2> HIDE DEF Eq
  <2> QED BY <1>5
<1> HIDE DEF iter
<1> DEFINE T == {j \in 0 .. k : iter[1 .. j] = Bulk1(Of(1 .. j))}
<1>7. 0 \in T
  <2>1. iter[1 .. 0] = chat /\ Of(1 .. 0) = {} /\ 0 \in 0 .. k
    BY <1>1, <1>6
  <2>2. iter[1 .. 0] = Bulk1(Of(1 .. 0))
    BY <1>2, <2>1
  <2> HIDE DEF Of, k
  <2> QED BY <2>1, <2>2
<1>8. ASSUME NEW j \in 0 .. k - 1, j \in T PROVE j + 1 \in T
  <2> HIDE DEF k
  <2>1. /\ 1 .. j+1 \in SUBSET (1 .. k) /\ 1 .. j+1 # {} /\ j + 1 \in 1 .. k
        /\ Max(1 .. j+1) = j + 1 /\ (1 .. j+1) \ {j+1} = 1 .. j
    BY <1>1, IntervalTop
  <2>2. iter[1 .. j+1] = Single(iter[1 .. j], order[j+1])
    BY <1>1, <1>6, <2>1
  <2>3. Of(1 .. j+1) = Of(1 .. j) \union {order[j+1]} /\ order[j+1] \in Nat
    <3>1. 1 .. j+1 = (1 .. j) \union {j+1}
      BY <1>1, <2>1
    <3> QED BY <1>1, <2>1, <3>1
  <2>4. j + 1 \in 0 .. k
    BY <1>1, <2>1
  <2> HIDE DEF Of
  <2> QED BY <1>3, <1>8, <2>2, <2>3, <2>4
<1> HIDE DEF T, Of, k
<1>9. 0 .. k \subseteq T
  BY <1>1, <1>7, <1>8, IntervalInduction
<1>10. k \in T
  BY <1>1, <1>9
<1>11. Of(1 .. k) = Range(order)
  BY <1>1 DEF Of, Range
<1> QED BY <1>1, <1>4, <1>10, <1>11 DEF T, Bulk1

TagEach(order, tag) == FoldLeft(LAMBDA s, c : AddTag(s, c, tag), chat, order)

LEMMA TagAndOne ==
  ASSUME NEW n, NEW s, IsChat(s, n), NEW S, NEW c, NEW tag
  PROVE  AddTag(BulkAddTag(s, S, tag), c, tag) = BulkAddTag(s, S \union {c}, tag)
<1> DEFINE On(conv) == [conv EXCEPT !.tags = conv.tags \union {tag}]
           Convs(T) == [d \in DOMAIN s.convs |-> IF d \in T THEN On(s.convs[d]) ELSE s.convs[d]]
           With(convs) == [convs |-> convs, folders |-> s.folders, active |-> s.active, error |-> s.error]
<1>1. ASSUME NEW T PROVE BulkAddTag(s, T, tag) = With(Convs(T))
  <2>1. BulkAddTag(s, T, tag) = [s EXCEPT !.convs = Convs(T)]
    BY DEF BulkAddTag
  <2> HIDE DEF Convs
  <2> QED BY <2>1 DEF IsChat
<1>2. \A d \in DOMAIN s.convs : On(On(s.convs[d])) = On(s.convs[d])
  BY DEF IsChat, IsConversation
<1>3. \A T : DOMAIN Convs(T) = DOMAIN s.convs /\ Convs(T) = [d \in DOMAIN s.convs |-> Convs(T)[d]]
  OBVIOUS
<1>4. CASE c \notin DOMAIN s.convs
  <2>1. Convs(S \union {c}) = Convs(S)
    BY <1>4
  <2>2. AddTag(With(Convs(S)), c, tag) = With(Convs(S))
    BY <1>3, <1>4 DEF AddTag
  <2> QED BY <1>1, <2>1, <2>2
<1>5. CASE c \in DOMAIN s.convs
  <2>1. [Convs(S) EXCEPT ![c] = On(Convs(S)[c])] = Convs(S \union {c})
    <3>1. On(Convs(S)[c]) = On(s.convs[c])
      BY <1>2, <1>5
    <3> HIDE DEF On
    <3> QED BY <3>1
  <2>2. AddTag(With(Convs(S)), c, tag) = With([Convs(S) EXCEPT ![c] = On(Convs(S)[c])])
    <3> HIDE DEF Convs
    <3> QED BY <1>3, <1>5 DEF AddTag
  <2> QED BY <1>1, <2>1, <2>2
<1> QED BY <1>4, <1>5

LEMMA TagOneByOne ==
  ASSUME NEW n, IsChat(chat, n), NEW order \in Seq(Nat), NEW tag
  PROVE  BulkAddTag(chat, Range(order), tag) = TagEach(order, tag)
<1> DEFINE k == Len(order)
           Bulk1(S) == BulkAddTag(chat, S, tag)
           Single(s, c) == AddTag(s, c, tag)
           Of(I) == {order[i] : i \in I}
           Eq(g) == g = [I \in SUBSET DOMAIN order |-> IF I = {} THEN chat
                            ELSE Single(g[I \ {Max(I)}], order[Max(I)])]
           iter == CHOOSE g : Eq(g)
<1>1. k \in Nat /\ DOMAIN order = 1 .. k /\ \A i \in 1 .. k : order[i] \in Nat
  OBVIOUS
<1>2. Bulk1({}) = chat
  BY DEF BulkAddTag, IsChat
<1>3. ASSUME NEW S, NEW c \in Nat PROVE Single(Bulk1(S), c) = Bulk1(S \union {c})
  BY TagAndOne
<1>4. TagEach(order, tag) = iter[DOMAIN order]
  BY DEF TagEach, FoldLeft, MapThenFoldSet
<1> HIDE DEF Bulk1, Single
<1>5. Eq([I \in SUBSET DOMAIN order |-> Bulk1(Of(I))])
  <2> DEFINE g == [I \in SUBSET DOMAIN order |-> Bulk1(Of(I))]
  <2>1. ASSUME NEW I \in SUBSET (1 .. k), I # {}
        PROVE  Bulk1(Of(I)) = Single(g[I \ {Max(I)}], order[Max(I)])
    <3> HIDE DEF k
    <3> DEFINE J == I \ {Max(I)}
               c == order[Max(I)]
    <3>1. Max(I) \in I /\ Max(I) \in 1 .. k /\ J \in SUBSET (1 .. k)
      BY <1>1, <2>1, MaxExists
    <3>2. Of(I) = Of(J) \union {c} /\ c \in Nat
      BY <1>1, <3>1
    <3>3. g[J] = Bulk1(Of(J))
      BY <1>1, <3>1
    <3> HIDE DEF g, Of, c
    <3>4. Single(Bulk1(Of(J)), c) = Bulk1(Of(J) \union {c})
      BY <1>3, <3>2
    <3>5. Bulk1(Of(I)) = Single(g[J], c)
      BY <3>2, <3>3, <3>4
    <3> QED BY <3>5 DEF c
  <2>2. Of({}) = {}
    OBVIOUS
  <2> HIDE DEF Of
  <2> QED BY <1>1, <1>2, <2>1, <2>2
<1>6. Eq(iter)
  <2> HIDE DEF Eq
  <2> QED BY <1>5
<1> HIDE DEF iter
<1> DEFINE T == {j \in 0 .. k : iter[1 .. j] = Bulk1(Of(1 .. j))}
<1>7. 0 \in T
  <2>1. iter[1 .. 0] = chat /\ Of(1 .. 0) = {} /\ 0 \in 0 .. k
    BY <1>1, <1>6
  <2>2. iter[1 .. 0] = Bulk1(Of(1 .. 0))
    BY <1>2, <2>1
  <2> HIDE DEF Of, k
  <2> QED BY <2>1, <2>2
<1>8. ASSUME NEW j \in 0 .. k - 1, j \in T PROVE j + 1 \in T
  <2> HIDE DEF k
  <2>1. /\ 1 .. j+1 \in SUBSET (1 .. k) /\ 1 .. j+1 # {} /\ j + 1 \in 1 .. k
        /\ Max(1 .. j+1) = j + 1 /\ (1 .. j+1) \ {j+1} = 1 .. j
    BY <1>1, IntervalTop
  <2>2. iter[1 .. j+1] = Single(iter[1 .. j], order[j+1])
    BY <1>1, <1>6, <2>1
  <2>3. Of(1 .. j+1) = Of(1 .. j) \union {order[j+1]} /\ order[j+1] \in Nat
    <3>1. 1 .. j+1 = (1 .. j) \union {j+1}
      BY <1>1, <2>1
    <3> QED BY <1>1, <2>1, <3>1
  <2>4. j + 1 \in 0 .. k
    BY <1>1, <2>1
  <2> HIDE DEF Of
  <2> QED BY <1>3, <1>8, <2>2, <2>3, <2>4
<1> HIDE DEF T, Of, k
<1>9. 0 .. k \subseteq T
  BY <1>1, <1>7, <1>8, IntervalInduction
<1>10. k \in T
  BY <1>1, <1>9
<1>11. Of(1 .. k) = Range(order)
  BY <1>1 DEF Of, Range
<1> QED BY <1>1, <1>4, <1>10, <1>11 DEF T, Bulk1

LEMMA OrderIsSequence ==
  ASSUME convIds \in Nat, NEW order \in SetToAllKPermutations(ConvId)
  PROVE  order \in Seq(Nat)
<1>1. PICK ids \in SUBSET ConvId : order \in SetToSeqs(ids)
  BY DEF SetToAllKPermutations
<1>2. order \in [1 .. Cardinality(ids) -> ids]
  BY <1>1 DEF SetToSeqs
<1>3. IsFiniteSet(ConvId) /\ ConvId \subseteq Nat
  BY FS_Interval DEF ConvId
<1>4. Cardinality(ids) \in Nat
  BY <1>1, <1>3, FS_Subset, FS_CardinalityType
<1>5. order \in [1 .. Cardinality(ids) -> Nat]
  BY <1>1, <1>2, <1>3
<1> QED BY <1>4, <1>5, SeqDef

(***************************************************************************)
(* What is done to many conversations at once is what would be done to one *)
(* after the other, for any number of conversations, in any order.         *)
(***************************************************************************)
THEOREM BulkRepeats == Spec => []BulkIsRepeated
<1>1. StoreInv => BulkIsRepeated
  <2> SUFFICES ASSUME StoreInv, NEW order \in SetToAllKPermutations(ConvId)
               PROVE  /\ BulkDelete(chat, Range(order)) = FoldLeft(DeleteConversation, chat, order)
                      /\ \A b \in BOOLEAN :
                           /\ BulkPin(chat, Range(order), b)
                                = FoldLeft(LAMBDA s, c : SetPinned(s, c, b), chat, order)
                           /\ BulkArchive(chat, Range(order), b)
                                = FoldLeft(LAMBDA s, c : SetArchived(s, c, b), chat, order)
                      /\ \A tag \in Tags :
                           BulkAddTag(chat, Range(order), tag)
                             = FoldLeft(LAMBDA s, c : AddTag(s, c, tag), chat, order)
    BY DEF BulkIsRepeated
  <2>1. IsChat(chat, messageIds) /\ convIds \in Nat /\ DOMAIN chat.convs \subseteq Nat
    BY DEF StoreInv, Conversations, ConvId
  <2>2. order \in Seq(Nat)
    BY <2>1, OrderIsSequence
  <2>3. BulkDelete(chat, Range(order)) = FoldLeft(DeleteConversation, chat, order)
    BY <2>1, <2>2, DeleteOneByOne
  <2>4. ASSUME NEW b \in BOOLEAN
        PROVE  BulkPin(chat, Range(order), b) = FoldLeft(LAMBDA s, c : SetPinned(s, c, b), chat, order)
    <3>1. BulkPin(chat, Range(order), b) = PinEach(order, b)
      BY <2>1, <2>2, PinOneByOne
    <3> QED BY <3>1 DEF PinEach
  <2>5. ASSUME NEW b \in BOOLEAN
        PROVE  BulkArchive(chat, Range(order), b) = FoldLeft(LAMBDA s, c : SetArchived(s, c, b), chat, order)
    <3>1. BulkArchive(chat, Range(order), b) = ArchiveEach(order, b)
      BY <2>1, <2>2, ArchiveOneByOne
    <3> QED BY <3>1 DEF ArchiveEach
  <2>6. ASSUME NEW tag \in Tags
        PROVE  BulkAddTag(chat, Range(order), tag) = FoldLeft(LAMBDA s, c : AddTag(s, c, tag), chat, order)
    <3>1. BulkAddTag(chat, Range(order), tag) = TagEach(order, tag)
      BY <2>1, <2>2, TagOneByOne
    <3> QED BY <3>1 DEF TagEach
  <2> QED BY <2>3, <2>4, <2>5, <2>6
<1> QED BY <1>1, StoreHolds, PTL
===============================================================================
