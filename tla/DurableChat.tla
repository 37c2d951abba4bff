---------------------------- MODULE DurableChat ----------------------------
(***************************************************************************)
(* What the persistence of the chat promises its user: the chat is edited  *)
(* and, once edits pause, saved; a restart, whenever it happens, brings    *)
(* back exactly what was saved last.  Edits since then are lost.           *)
(***************************************************************************)
CONSTANT Conversation   \* every id a conversation may have

VARIABLES chat,   \* the conversations the user sees, as a set of their ids
          saved   \* the conversations a restart brings back

dvars == <<chat, saved>>

DInit == chat \subseteq Conversation /\ saved = chat

DEdit ==
  /\ \/ \E c \in Conversation \ chat : chat' = chat \union {c}
     \/ \E c \in chat : chat' = chat \ {c}
  /\ UNCHANGED saved

DSave == saved' = chat /\ UNCHANGED chat

DRestart == chat' = saved /\ UNCHANGED saved

DNext == DEdit \/ DSave \/ DRestart

DSafety == DInit /\ [][DNext]_dvars
=============================================================================
