------------------------ MODULE ChatPersistence_proofs ------------------------
(***************************************************************************)
(* Proofs about the persistence of the chat, for any number of             *)
(* conversations and of calls under way, whichever commands fail, with and *)
(* without the API module, and however late the load is answered.          *)
(***************************************************************************)
EXTENDS ChatPersistence, TLAPS

-----------------------------------------------------------------------------
(***************************************************************************)
(* The inductive invariant.                                                *)
(***************************************************************************)

\* A call of the save effect is a save, and every save carries a chat.
Call == {c \in [cmd : Commands, by : {"load", "save", "gone"}, state : State \union {Null},
                blind : BOOLEAN] :
           /\ c.by = "save" => c.cmd = "save_chat_state"
           /\ c.by = "load" => ~c.blind
           /\ c.cmd = "save_chat_state" => c.state \in State}

CallsOK == calls \in Seq(Call)

\* No reply is a torn file.
RepliesOK ==
  \A r \in replies :
    /\ r.by = "save" => r.state \in State
    /\ r.by = "load" /\ r.ok /\ r.cmd = "load_chat_state" => r.value \in State \union {Null}

\* Of the load effect there is one call or one reply under way, or none, and
\* that is what it awaits.
LoadsOK ==
  /\ \A i \in DOMAIN calls, r \in replies : ~(calls[i].by = "load" /\ r.by = "load")
  /\ \A i, j \in DOMAIN calls : calls[i].by = "load" /\ calls[j].by = "load" => i = j
  /\ \A r, s \in replies : r.by = "load" /\ s.by = "load" => r = s
  /\ \A i \in DOMAIN calls : calls[i].by = "load" => calls[i].cmd = loading
  /\ \A r \in replies : r.by = "load" => r.cmd = loading

\* What is renamed into place is the chat of the save at the head of the queue.
WritingOK ==
  writing = "complete" =>
    /\ calls # <<>>
    /\ calls[1].cmd = "save_chat_state" /\ temp = calls[1].state

ValuesOK ==
  /\ chat \in State /\ unissued \in State /\ deleted \in State /\ replaced \in State
  /\ timer \in BOOLEAN /\ loaded \in BOOLEAN /\ migrated \in BOOLEAN /\ saveFailed \in BOOLEAN
  /\ writing \in {"no", "begun", "complete"}
  /\ localStorage \in State \union {Null}
  /\ file \in State \union {Null}
  /\ temp \in State \union {Null, Torn}
  /\ loading \in Commands \union {"done"}

\* In a browser nothing is invoked, and without the API module nothing is
\* executed, one promise settling at a time.
PlatformOK ==
  /\ ~isTauri => calls = <<>> /\ replies = {} /\ loaded
  /\ ~imports => writing = "no" /\ file = Null /\ \A r, s \in replies : r = s

IInv == ValuesOK /\ CallsOK /\ RepliesOK /\ LoadsOK /\ WritingOK /\ PlatformOK

LEMMA Distinct == Torn # Null /\ Null \notin State /\ Torn \notin State
  BY PersistenceAssumption DEF PersistenceAssumption, State

LEMMA IInvImpliesTypeOK == IInv => TypeOK
<1> SUFFICES ASSUME IInv PROVE TypeOK
  OBVIOUS
<1>1. file # Torn
  BY Distinct DEF IInv, ValuesOK
<1>2. {i \in DOMAIN calls : calls[i].by = "load"} \X {r \in replies : r.by = "load"} = {}
  BY DEF IInv, LoadsOK
<1> QED BY <1>1, <1>2 DEF IInv, ValuesOK, LoadsOK, TypeOK

-----------------------------------------------------------------------------
(***************************************************************************)
(* What the building blocks of the actions do to the queue.                *)
(***************************************************************************)

\* An invoke of the save effect.
LEMMA InvokeBySave ==
  ASSUME CallsOK, LoadsOK, loaded \in BOOLEAN, NEW state \in State,
         Invoke("save_chat_state", "save", state), UNCHANGED <<replies, loading>>
  PROVE  CallsOK' /\ LoadsOK' /\ (calls # <<>> => calls'[1] = calls[1] /\ calls' # <<>>)
<1> DEFINE c == [cmd |-> "save_chat_state", by |-> "save", state |-> state,
                 blind |-> "save" = "save" /\ ~loaded]
<1>1. c \in Call /\ calls' = Append(calls, c)
  BY DEF Call, Commands, Invoke
<1>2. c.by = "save"
  OBVIOUS
<1> HIDE DEF c
<1>3. CallsOK'
  BY <1>1 DEF CallsOK
<1>4. /\ DOMAIN calls' = 1..(Len(calls) + 1) /\ DOMAIN calls = 1..Len(calls) /\ Len(calls) \in Nat
      /\ calls'[Len(calls) + 1] = c
      /\ \A i \in DOMAIN calls : calls'[i] = calls[i]
  BY <1>1 DEF CallsOK
<1>5. \A i \in DOMAIN calls' : calls'[i].by = "load" => i \in DOMAIN calls /\ calls'[i] = calls[i]
  BY <1>2, <1>4
<1>6. LoadsOK'
  BY <1>5 DEF LoadsOK
<1>7. calls # <<>> => 1 \in DOMAIN calls /\ calls' # <<>>
  BY <1>1 DEF CallsOK
<1> QED BY <1>3, <1>4, <1>6, <1>7

\* An invoke of the load effect, which awaits no other.
LEMMA InvokeByLoad ==
  ASSUME CallsOK, NEW cmd \in Commands, NEW state \in State \union {Null},
         cmd = "save_chat_state" => state \in State,
         Invoke(cmd, "load", state), loading' = cmd,
         \A i \in DOMAIN calls : calls[i].by # "load",
         \A r \in replies' : r.by # "load"
  PROVE  CallsOK' /\ LoadsOK' /\ (calls # <<>> => calls'[1] = calls[1] /\ calls' # <<>>)
<1> DEFINE c == [cmd |-> cmd, by |-> "load", state |-> state, blind |-> "load" = "save" /\ ~loaded]
<1>1. c \in Call /\ calls' = Append(calls, c)
  BY DEF Call, Invoke
<1>2. c.by = "load" /\ c.cmd = cmd
  OBVIOUS
<1> HIDE DEF c
<1>3. CallsOK'
  BY <1>1 DEF CallsOK
<1>4. /\ DOMAIN calls' = 1..(Len(calls) + 1) /\ DOMAIN calls = 1..Len(calls) /\ Len(calls) \in Nat
      /\ calls'[Len(calls) + 1] = c
      /\ \A i \in DOMAIN calls : calls'[i] = calls[i]
  BY <1>1 DEF CallsOK
<1>5. \A i \in DOMAIN calls' : calls'[i].by = "load" => i = Len(calls) + 1
  BY <1>4
<1>6. LoadsOK'
  BY <1>2, <1>4, <1>5 DEF LoadsOK
<1>7. calls # <<>> => 1 \in DOMAIN calls /\ calls' # <<>>
  BY <1>1 DEF CallsOK
<1> QED BY <1>3, <1>4, <1>6, <1>7

\* The promise of the oldest call settles.
LEMMA SettleKeeps ==
  ASSUME CallsOK, RepliesOK, LoadsOK, calls # <<>>, UNCHANGED loading,
         NEW ok, NEW value, Settle(ok, value),
         ok /\ Head(calls).cmd = "load_chat_state" => value \in State \union {Null}
  PROVE  CallsOK' /\ RepliesOK' /\ LoadsOK'
<1> DEFINE call == Head(calls)
           r == [cmd |-> call.cmd, by |-> call.by, state |-> call.state, blind |-> call.blind,
                 ok |-> ok, value |-> value]
<1>1. /\ calls' = Tail(calls) /\ call = calls[1] /\ 1 \in DOMAIN calls
      /\ call \in Call
      /\ replies' = IF call.by = "gone" THEN replies ELSE replies \union {r}
  BY DEF Settle, CallsOK
<1>2. r.cmd = call.cmd /\ r.by = call.by /\ r.state = call.state /\ r.ok = ok /\ r.value = value
  OBVIOUS
<1>3. /\ call.by = "save" => call.state \in State
  BY <1>1 DEF Call
<1>10. ok /\ call.cmd = "load_chat_state" => value \in State \union {Null}
  OBVIOUS
<1> HIDE DEF call, r
<1>4. CallsOK'
  BY <1>1 DEF CallsOK
<1>5. RepliesOK'
  <2> SUFFICES ASSUME NEW s \in replies'
               PROVE  /\ s.by = "save" => s.state \in State
                      /\ s.by = "load" /\ s.ok /\ s.cmd = "load_chat_state" => s.value \in State \union {Null}
    BY DEF RepliesOK
  <2>1. CASE s \in replies
    BY <2>1 DEF RepliesOK
  <2>2. CASE s = r
    BY <2>2, <1>2, <1>3, <1>10
  <2> QED BY <1>1, <2>1, <2>2
<1>6. \A i \in DOMAIN calls' : i + 1 \in DOMAIN calls /\ calls'[i] = calls[i + 1] /\ i \in Nat \ {0}
  BY <1>1 DEF CallsOK
<1>7. CASE call.by # "load"
  <2>1. \A s \in replies' : s.by = "load" => s \in replies
    BY <1>1, <1>2, <1>7
  <2>2. \A i, j \in DOMAIN calls' : calls'[i].by = "load" /\ calls'[j].by = "load" => i = j
    <3> SUFFICES ASSUME NEW i \in DOMAIN calls', NEW j \in DOMAIN calls',
                        calls'[i].by = "load", calls'[j].by = "load"
                 PROVE  i = j
      OBVIOUS
    <3>1. i + 1 = j + 1
      BY <1>6 DEF LoadsOK
    <3> QED BY <3>1, <1>6
  <2> QED BY <1>4, <1>5, <1>6, <2>1, <2>2 DEF LoadsOK
<1>8. CASE call.by = "load"
  <2>1. \A i \in DOMAIN calls' : calls'[i].by # "load"
    <3> SUFFICES ASSUME NEW i \in DOMAIN calls', calls'[i].by = "load" PROVE FALSE
      OBVIOUS
    <3>1. i + 1 = 1
      BY <1>1, <1>6, <1>8 DEF LoadsOK
    <3> QED BY <3>1, <1>6
  <2>2. \A s \in replies' : s.by = "load" => s = r
    BY <1>1, <1>8 DEF LoadsOK
  <2>3. r.cmd = loading
    BY <1>1, <1>2, <1>8 DEF LoadsOK
  <2> QED BY <1>4, <1>5, <2>1, <2>2, <2>3 DEF LoadsOK
<1> QED BY <1>7, <1>8

-----------------------------------------------------------------------------
(***************************************************************************)
(* The invariant holds at first and is kept by each action.                *)
(***************************************************************************)

LEMMA InitEstablishes == Init => IInv
<1> SUFFICES ASSUME Init PROVE IInv
  OBVIOUS
<1> USE PersistenceAssumption DEF PersistenceAssumption
<1>1. Stored \in State /\ localStorage \in State \union {Null}
  BY DEF Init, Stored, State
<1>2. ValuesOK
  <2>1. unissued \in State
    BY DEF Init, State
  <2> QED BY <1>1, <2>1 DEF Init, ValuesOK, State, Commands
<1>3. CallsOK
  <2>1. LoadCall \in Call
    BY DEF LoadCall, Call, Commands
  <2>2. \A c \in Call : <<>> \in Seq(Call) /\ <<c>> \in Seq(Call)
    OBVIOUS
  <2>3. calls = <<>> \/ calls = <<LoadCall>>
    BY DEF Init
  <2>4. CASE calls = <<>>
    BY <2>4 DEF CallsOK
  <2>5. CASE calls = <<LoadCall>>
    BY <2>1, <2>2, <2>5, Zenon DEF CallsOK
  <2> QED BY <2>3, <2>4, <2>5
<1>4. replies = {} /\ LoadsOK /\ RepliesOK
  BY DEF Init, LoadCall, LoadsOK, RepliesOK
<1>5. WritingOK /\ PlatformOK
  BY DEF Init, WritingOK, PlatformOK
<1> QED BY <1>2, <1>3, <1>4, <1>5 DEF IInv

LEMMA EditKeeps == ASSUME IInv, UNCHANGED platform, Create \/ Delete PROVE IInv'
<1>1. ValuesOK'
  BY DEF IInv, ValuesOK, Create, Delete, State, backend
<1>2. UNCHANGED <<calls, replies, loading, loaded, writing, file, temp>>
  BY DEF Create, Delete, backend
<1> QED BY <1>1, <1>2 DEF IInv, CallsOK, RepliesOK, LoadsOK, WritingOK, PlatformOK, platform

LEMMA SaveTimerKeeps == ASSUME IInv, UNCHANGED platform, SaveTimer PROVE IInv'
<1>1. ValuesOK'
  BY DEF IInv, ValuesOK, SaveTimer, SetItem, State, backend
<1>2. UNCHANGED <<replies, loading, loaded, writing, file, temp>> /\ chat \in State /\ loaded \in BOOLEAN
  BY DEF SaveTimer, backend, IInv, ValuesOK
<1>3. CASE isTauri
  <2>1. Invoke("save_chat_state", "save", chat)
    BY <1>3 DEF SaveTimer
  <2>2. CallsOK' /\ LoadsOK' /\ (calls # <<>> => calls'[1] = calls[1] /\ calls' # <<>>)
    BY <1>2, <2>1, InvokeBySave DEF IInv
  <2> QED BY <1>1, <1>2, <1>3, <2>2 DEF IInv, RepliesOK, WritingOK, PlatformOK, platform
<1>4. CASE ~isTauri
  <2>1. UNCHANGED calls
    BY <1>4 DEF SaveTimer
  <2> QED BY <1>1, <1>2, <2>1 DEF IInv, CallsOK, RepliesOK, LoadsOK, WritingOK, PlatformOK, platform
<1> QED BY <1>3, <1>4

LEMMA SaveSettlesKeeps ==
  ASSUME IInv, UNCHANGED platform, NEW r \in replies, SaveSettles(r) PROVE IInv'
<1>1. ValuesOK'
  BY DEF IInv, ValuesOK, RepliesOK, SaveSettles, SetItem, Backed, window, backend
<1>2. UNCHANGED <<calls, loading, loaded, writing, file, temp>> /\ replies' = replies \ {r}
  BY DEF SaveSettles, window, backend
<1> QED BY <1>1, <1>2 DEF IInv, CallsOK, RepliesOK, LoadsOK, WritingOK, PlatformOK, platform

\* The load effect goes on: whatever it awaits next, its last reply is gone.
LEMMA LoadSettlesKeeps ==
  ASSUME IInv, UNCHANGED platform, NEW r \in replies, LoadSettles(r) PROVE IInv'
<1>1. /\ r.by = "load" /\ replies' = replies \ {r}
      /\ UNCHANGED <<unissued, writing, file, temp, migrated, saveFailed>>
  BY DEF LoadSettles, backend
<1>2. (\A i \in DOMAIN calls : calls[i].by # "load") /\ (\A s \in replies' : s.by # "load")
  BY <1>1 DEF IInv, LoadsOK
<1>3. RepliesOK' /\ isTauri /\ PlatformOK'
  BY <1>1 DEF IInv, RepliesOK, PlatformOK, platform
<1>4. ValuesOK'
  <2>1. /\ chat' \in State /\ deleted' \in State /\ replaced' \in State
        /\ timer' \in BOOLEAN /\ loaded' \in BOOLEAN
    BY <1>1, Distinct DEF IInv, ValuesOK, RepliesOK, LoadSettles, Install, State
  <2>2. localStorage' \in State \union {Null} /\ loading' \in Commands \union {"done"}
    BY <1>1 DEF IInv, ValuesOK, LoadSettles, Commands
  <2> QED BY <1>1, <2>1, <2>2 DEF IInv, ValuesOK
<1>5. CASE UNCHANGED calls
  <2>1. LoadsOK'
    BY <1>2, <1>5 DEF LoadsOK
  <2> QED BY <1>1, <1>3, <1>4, <1>5, <2>1 DEF IInv, CallsOK, WritingOK
<1>6. ASSUME NEW cmd \in Commands, NEW state \in State \union {Null},
             cmd = "save_chat_state" => state \in State,
             Invoke(cmd, "load", state), loading' = cmd
      PROVE  IInv'
  <2>1. CallsOK' /\ LoadsOK' /\ (calls # <<>> => calls'[1] = calls[1] /\ calls' # <<>>)
    BY <1>2, <1>6, InvokeByLoad DEF IInv
  <2> QED BY <1>1, <1>3, <1>4, <2>1 DEF IInv, WritingOK
<1>7. UNCHANGED calls \/ \E cmd \in Commands, state \in State \union {Null} :
        /\ cmd = "save_chat_state" => state \in State
        /\ Invoke(cmd, "load", state) /\ loading' = cmd
  <2>1. CASE r.cmd = "load_chat_state" /\ r.ok /\ r.value = Null
    BY <2>1 DEF LoadSettles, Commands
  <2>2. CASE r.cmd = "is_migration_complete" /\ r.ok /\ localStorage # Null /\ calls' # calls
    <3>1. localStorage \in State /\ Invoke("save_chat_state", "load", localStorage)
            /\ loading' = "save_chat_state"
      BY <2>2 DEF IInv, ValuesOK, LoadSettles
    <3> QED BY <3>1 DEF Commands
  <2>3. CASE r.cmd = "save_chat_state" /\ r.ok
    BY <2>3 DEF LoadSettles, Commands
  <2> QED BY <2>1, <2>2, <2>3 DEF LoadSettles
<1> QED BY <1>5, <1>6, <1>7

LEMMA FailsKeeps == ASSUME IInv, UNCHANGED platform, Fails PROVE IInv'
<1>1. calls # <<>> /\ Settle(FALSE, Null) /\ UNCHANGED loading /\ writing' = "no"
  BY DEF Fails, window
<1>2. CallsOK' /\ RepliesOK' /\ LoadsOK'
  BY <1>1, SettleKeeps DEF IInv
<1>3. ValuesOK'
  BY DEF IInv, ValuesOK, Fails, window
<1>4. imports /\ isTauri
  BY <1>1 DEF Fails, IInv, PlatformOK
<1> QED BY <1>1, <1>2, <1>3, <1>4 DEF IInv, WritingOK, PlatformOK, platform

LEMMA ReturnsNullKeeps == ASSUME IInv, UNCHANGED platform, ReturnsNull PROVE IInv'
<1>1. calls # <<>> /\ Settle(TRUE, Null) /\ UNCHANGED <<window, backend, localStorage, saveFailed>>
  BY DEF ReturnsNull
<1>2. UNCHANGED <<chat, unissued, timer, loading, loaded, deleted, replaced>>
      /\ UNCHANGED <<writing, file, temp, migrated>> /\ ~imports /\ replies = {}
  BY <1>1 DEF ReturnsNull, window, backend
<1>3. CallsOK' /\ RepliesOK' /\ LoadsOK'
  BY <1>1, <1>2, SettleKeeps DEF IInv
<1>4. \A r, s \in replies' : r = s
  BY <1>1, <1>2 DEF Settle
<1>5. isTauri
  BY <1>1 DEF IInv, PlatformOK
<1>6. ValuesOK' /\ WritingOK'
  BY <1>1, <1>2 DEF IInv, ValuesOK, WritingOK, PlatformOK
<1> QED BY <1>2, <1>3, <1>4, <1>5, <1>6 DEF IInv, PlatformOK, platform

LEMMA ExecutesKeeps == ASSUME IInv, UNCHANGED platform, Executes PROVE IInv'
<1>1. /\ calls # <<>> /\ UNCHANGED <<chat, unissued, timer, loading, loaded, deleted, replaced>>
      /\ imports
      /\ UNCHANGED <<writing, file, temp, localStorage, saveFailed>>
      /\ Head(calls).cmd \in {"load_chat_state", "is_migration_complete", "mark_migration_complete"}
  BY DEF Executes, window
<1>2. PICK value : Settle(TRUE, value) /\ (Head(calls).cmd = "load_chat_state" => value = file)
  BY DEF Executes
<1>3. CallsOK' /\ RepliesOK' /\ LoadsOK'
  BY <1>1, <1>2, SettleKeeps DEF IInv, ValuesOK
<1>4. migrated' \in BOOLEAN
  BY DEF IInv, ValuesOK, Executes
<1>5. writing # "complete"
  BY <1>1 DEF IInv, WritingOK, CallsOK
<1> QED BY <1>1, <1>3, <1>4, <1>5 DEF IInv, ValuesOK, WritingOK, PlatformOK, platform

LEMMA WriteTempKeeps == ASSUME IInv, UNCHANGED platform, WriteTemp PROVE IInv'
<1>1. /\ UNCHANGED <<chat, unissued, timer, loading, loaded, deleted, replaced, calls, replies>>
      /\ imports
      /\ UNCHANGED <<file, migrated, localStorage, saveFailed>>
      /\ calls # <<>> /\ Head(calls).cmd = "save_chat_state"
  BY DEF WriteTemp, Saving, window
<1>2. Head(calls) = calls[1] /\ calls[1].state \in State
  BY <1>1 DEF IInv, CallsOK, Call
<1>3. ValuesOK'
  BY <1>1, <1>2 DEF IInv, ValuesOK, WriteTemp
<1>4. WritingOK'
  BY <1>1, <1>2 DEF WritingOK, WriteTemp
<1> QED BY <1>1, <1>3, <1>4 DEF IInv, CallsOK, RepliesOK, LoadsOK, PlatformOK, platform

\* The file is replaced by a temporary file that is complete.
LEMMA RenameKeeps == ASSUME IInv, UNCHANGED platform, Rename PROVE IInv'
<1>1. /\ UNCHANGED <<chat, unissued, timer, loading, loaded, deleted, replaced, migrated, localStorage>>
      /\ imports
      /\ calls # <<>> /\ Head(calls).cmd = "save_chat_state" /\ writing = "complete"
      /\ writing' = "no" /\ file' = temp /\ temp' = Null /\ saveFailed' = FALSE
      /\ Settle(TRUE, Null)
  BY DEF Rename, Saving, window
<1>2. file' \in State
  BY <1>1 DEF IInv, WritingOK, CallsOK, Call
<1>3. CallsOK' /\ RepliesOK' /\ LoadsOK'
  BY <1>1, SettleKeeps DEF IInv
<1>4. ValuesOK'
  BY <1>1, <1>2 DEF IInv, ValuesOK
<1> QED BY <1>1, <1>3, <1>4 DEF IInv, WritingOK, PlatformOK, platform

\* What is left of the old page are calls whose promises nobody awaits.
LEMMA MountKeeps ==
  ASSUME IInv, UNCHANGED platform, NEW pending \in Seq(Call), Mount(pending),
         \A i \in DOMAIN pending : pending[i].by # "load",
         ~isTauri => pending = <<>>,
         UNCHANGED <<file, migrated>>, temp' = temp,
         \/ writing' = "no"
         \/ /\ writing' = writing
            /\ calls # <<>> => /\ pending # <<>> /\ pending[1].cmd = calls[1].cmd
                               /\ pending[1].state = calls[1].state
  PROVE  IInv'
<1>1. Stored \in State
  BY DEF Stored, IInv, ValuesOK, State
<1>2. ValuesOK'
  BY <1>1 DEF IInv, ValuesOK, Mount, NewPage, State, Commands
<1>3. replies' = {} /\ loaded' = ~isTauri /\ (~imports => writing' = "no" /\ file' = Null)
  BY DEF Mount, NewPage, IInv, PlatformOK
<1>4. CASE isTauri
  <2> DEFINE c == LoadCall
  <2>1. c \in Call /\ calls' = Append(pending, c) /\ loading' = "load_chat_state"
    BY <1>4 DEF Mount, NewPage, LoadCall, Call, Commands
  <2>2. c.by = "load" /\ c.cmd = "load_chat_state"
    BY DEF LoadCall
  <2> HIDE DEF c
  <2>3. CallsOK'
    BY <2>1 DEF CallsOK
  <2>4. /\ DOMAIN calls' = 1..(Len(pending) + 1) /\ DOMAIN pending = 1..Len(pending)
        /\ Len(pending) \in Nat /\ calls'[Len(pending) + 1] = c
        /\ \A i \in DOMAIN pending : calls'[i] = pending[i]
    BY <2>1
  <2>5. \A i \in DOMAIN calls' : calls'[i].by = "load" => i = Len(pending) + 1
    BY <2>4
  <2>6. LoadsOK'
    BY <1>3, <2>1, <2>2, <2>4, <2>5 DEF LoadsOK
  <2>7. pending # <<>> => 1 \in DOMAIN pending /\ calls' # <<>>
    BY <2>1
  <2>8. WritingOK'
    BY <2>4, <2>7 DEF WritingOK, IInv
  <2> QED BY <1>2, <1>3, <1>4, <2>3, <2>6, <2>8 DEF IInv, RepliesOK, PlatformOK, platform
<1>5. CASE ~isTauri
  <2>1. calls' = <<>> /\ calls = <<>>
    BY <1>5 DEF Mount, NewPage, IInv, PlatformOK
  <2>2. CallsOK' /\ LoadsOK' /\ RepliesOK' /\ PlatformOK'
    BY <1>3, <1>5, <2>1 DEF CallsOK, LoadsOK, RepliesOK, PlatformOK, platform
  <2>3. WritingOK'
    BY <2>1 DEF IInv, WritingOK
  <2> QED BY <1>2, <2>2, <2>3 DEF IInv
<1> QED BY <1>4, <1>5

LEMMA RestartKeeps == ASSUME IInv, UNCHANGED platform, Reload \/ Crash PROVE IInv'
<1>1. CASE Reload
  <2> DEFINE pending == [i \in DOMAIN calls |-> [calls[i] EXCEPT !.by = "gone"]]
  <2>1. calls \in Seq(Call) /\ DOMAIN calls = 1..Len(calls) /\ Len(calls) \in Nat
    BY DEF IInv, CallsOK
  <2>2. \A c \in Call : /\ [c EXCEPT !.by = "gone"] \in Call
                        /\ [c EXCEPT !.by = "gone"].by = "gone"
                        /\ [c EXCEPT !.by = "gone"].cmd = c.cmd
                        /\ [c EXCEPT !.by = "gone"].state = c.state
    BY DEF Call
  <2>3. \A i \in DOMAIN calls : calls[i] \in Call
    BY <2>1
  <2>4. DOMAIN pending = DOMAIN calls /\ \A i \in DOMAIN calls : pending[i] = [calls[i] EXCEPT !.by = "gone"]
    OBVIOUS
  <2>5. Mount(pending) /\ UNCHANGED <<writing, file, temp, migrated>>
    BY <1>1 DEF Reload, backend
  <2> HIDE DEF pending
  <2>6. pending \in Seq(Call)
    <3>1. pending \in [1..Len(calls) -> Call]
      <4>1. pending = [i \in 1..Len(calls) |-> [calls[i] EXCEPT !.by = "gone"]]
        BY <2>1 DEF pending
      <4> QED BY <4>1, <2>1, <2>2, <2>3
    <3> QED BY <3>1, <2>1
  <2>7. \A i \in DOMAIN pending : pending[i].by # "load"
    BY <2>2, <2>3, <2>4
  <2>8. ~isTauri => pending = <<>>
    <3>1. ~isTauri => DOMAIN pending = {}
      BY <2>4 DEF IInv, PlatformOK
    <3> QED BY <3>1, <2>6
  <2>9. calls # <<>> => pending # <<>> /\ pending[1].cmd = calls[1].cmd
                          /\ pending[1].state = calls[1].state
    <3>1. calls # <<>> => 1 \in DOMAIN calls
      BY <2>1
    <3>2. 1 \in DOMAIN calls =>
            /\ pending[1].cmd = calls[1].cmd /\ pending[1].state = calls[1].state
            /\ 1 \in DOMAIN pending
      BY <2>2, <2>3, <2>4
    <3>3. 1 \in DOMAIN pending => pending # <<>>
      OBVIOUS
    <3> QED BY <3>1, <3>2, <3>3
  <2> QED BY <2>5, <2>6, <2>7, <2>8, <2>9, MountKeeps
<1>2. CASE Crash
  <2>1. Mount(<<>>) /\ writing' = "no" /\ UNCHANGED <<file, temp, migrated>>
    BY <1>2 DEF Crash
  <2>2. <<>> \in Seq(Call) /\ DOMAIN (<<>>) = {}
    OBVIOUS
  <2> QED BY <2>1, <2>2, MountKeeps
<1> QED BY <1>1, <1>2

LEMMA StepKeeps == IInv /\ [Next]_vars => IInv'
<1> SUFFICES ASSUME IInv, [Next]_vars PROVE IInv'
  OBVIOUS
<1>1. CASE UNCHANGED vars
  BY <1>1 DEF vars, platform, window, backend, IInv, ValuesOK, CallsOK, RepliesOK, LoadsOK, WritingOK, PlatformOK
<1>2. CASE Next
  <2>1. UNCHANGED platform
    BY <1>2 DEF Next
  <2>2. CASE \E r \in replies : SaveSettles(r) \/ LoadSettles(r)
    BY <2>1, <2>2, SaveSettlesKeeps, LoadSettlesKeeps
  <2> QED BY <1>2, <2>1, <2>2, EditKeeps, SaveTimerKeeps, ReturnsNullKeeps, FailsKeeps, ExecutesKeeps, WriteTempKeeps,
             RenameKeeps, RestartKeeps DEF Next
<1> QED BY <1>1, <1>2

LEMMA InvariantHolds == Spec => []IInv
BY InitEstablishes, StepKeeps, PTL DEF Spec

-----------------------------------------------------------------------------
(***************************************************************************)
(* Through every crash and reload, in the middle of a save as well, the    *)
(* state file is absent or complete, and the load effect awaits one        *)
(* promise at a time.                                                      *)
(***************************************************************************)
THEOREM StateFileComplete == Spec => []TypeOK
BY InvariantHolds, IInvImpliesTypeOK, PTL

(***************************************************************************)
(* In a browser the page with its localStorage implements DurableChat: a   *)
(* restart brings back exactly the chat that was saved last.               *)
(***************************************************************************)
THEOREM BrowserIsDurable == Spec => ImplementsDurableChat
<1>1. Init => Durable!DInit
  <2> SUFFICES ASSUME Init PROVE Durable!DInit
    OBVIOUS
  <2> QED BY PersistenceAssumption DEF PersistenceAssumption, Init, Durable!DInit, Stored, State
<1>2. IInv /\ [Next]_vars => [Durable!DNext]_(Durable!dvars)
  <2> SUFFICES ASSUME IInv, [Next]_vars PROVE [Durable!DNext]_(Durable!dvars)
    OBVIOUS
  <2> USE DEF Durable!dvars
  <2>1. UNCHANGED isTauri
    BY DEF Next, vars, platform
  <2>2. CASE isTauri
    BY <2>1, <2>2
  <2>3. CASE ~isTauri
    <3>1. calls = <<>> /\ replies = {}
      BY <2>3 DEF IInv, PlatformOK
    <3>2. CASE Create
      <4>1. PICK c \in unissued : chat' = chat \union {c}
        BY <3>2 DEF Create
      <4>2. Stored' = Stored /\ c \in 1..MaxConvs
        BY <3>2 DEF Create, Stored, IInv, ValuesOK, State
      <4>3. CASE c \in chat
        BY <2>1, <2>3, <4>1, <4>2, <4>3
      <4>4. CASE c \notin chat
        BY <2>1, <2>3, <4>1, <4>2, <4>4 DEF Durable!DNext, Durable!DEdit
      <4> QED BY <4>3, <4>4
    <3>3. CASE Delete
      BY <2>1, <2>3, <3>3 DEF Delete, Stored, Durable!DNext, Durable!DEdit
    <3>4. CASE SaveTimer
      <4>1. chat' = chat /\ chat # Null /\ (localStorage' = chat \/ localStorage' = localStorage)
        BY <2>3, <3>4, Distinct DEF SaveTimer, SetItem, IInv, ValuesOK
      <4>2. Stored' = chat \/ Stored' = Stored
        BY <4>1 DEF Stored
      <4> QED BY <2>1, <2>3, <4>1, <4>2 DEF Durable!DNext, Durable!DSave
    <3>5. CASE Reload \/ Crash
      <4>1. chat' = Stored /\ Stored' = Stored
        BY <2>3, <3>5 DEF Reload, Crash, Mount, NewPage, Stored
      <4> QED BY <2>1, <2>3, <4>1 DEF Durable!DNext, Durable!DRestart
    <3>6. CASE UNCHANGED vars
      BY <2>1, <3>6 DEF vars, window, Stored
    <3> QED BY <3>1, <3>2, <3>3, <3>4, <3>5, <3>6
            DEF Next, ReturnsNull, Fails, Executes, WriteTemp, Rename, Saving
  <2> QED BY <2>2, <2>3
<1> QED BY <1>1, <1>2, InvariantHolds, PTL DEF Spec, ImplementsDurableChat, Durable!DSafety

-----------------------------------------------------------------------------
(***************************************************************************)
(* What storage holds, what is on its way there, and what the user sees.   *)
(***************************************************************************)

\* What the user deleted, or the load dropped.
Gone == deleted \union replaced

\* The load effect does not know the stored chat yet.
Awaited == loading \in {"load_chat_state", "is_migration_complete"}

\* The calls that may replace what a restart reads: without the API module,
\* those whose continuation writes localStorage.
Writes == {i \in DOMAIN calls : /\ calls[i].cmd = "save_chat_state"
                                /\ imports \/ calls[i].by = "save"}

\* The replies whose continuation does.
Answers == {r \in replies : ~imports /\ r.by = "save"}

\* A save that succeeded left a file, for good, and only then is the migration
\* recorded.
StoredOK ==
  imports =>
    /\ \A i \in DOMAIN calls : calls[i].cmd = "mark_migration_complete" => file # Null
    /\ \A r \in replies : r.ok /\ (r.by = "save" \/ r.cmd = "save_chat_state") => file # Null
    /\ \A r \in replies : r.ok /\ r.cmd = "mark_migration_complete" => file # Null /\ migrated

\* Until the page has the stored chat, what it saved itself is blind, and it
\* still shows it.
OwnOK ==
  /\ Awaited => ~loaded
  /\ ~loaded =>
       /\ \A i \in Writes : calls[i].by = "save" =>
            calls[i].blind /\ calls[i].state \ chat \subseteq Gone
       /\ \A r \in Answers : r.blind /\ r.state \ chat \subseteq Gone

\* What an older page invoked is executed before the load is.
FreshOK ==
  /\ \A i \in Writes, k \in DOMAIN calls :
       calls[k].by = "load" /\ k < i => calls[i].by = "save"
  /\ loading = "is_migration_complete" \/ (\E r \in replies : r.by = "load")
       => \A i \in Writes : calls[i].by = "save"

\* The answer to the load is what storage holds, but for what the page saved
\* since.
ReplyOK ==
  /\ \A r \in replies :
       r.by = "load" /\ r.ok /\ r.cmd = "load_chat_state" =>
         IF r.value = Null THEN file # Null => file \ chat \subseteq Gone
         ELSE Recoverable \ (r.value \union chat) \subseteq Gone
  /\ loading = "is_migration_complete" /\ file # Null => file \ chat \subseteq Gone

\* What is stored, what each write carries and what the page shows: each lacks
\* of those before it only what is gone, but for the blind writes.
SavesOK ==
  \A j \in Writes :
    ~calls[j].blind =>
      /\ Recoverable \ calls[j].state \subseteq Gone
      /\ \A i \in Writes : i < j => calls[i].state \ calls[j].state \subseteq Gone
      /\ \A r \in Answers : r.state \ calls[j].state \subseteq Gone

AnswersOK == \A r \in Answers : ~r.blind => Recoverable \ r.state \subseteq Gone

ChatOK ==
  loaded => /\ Recoverable \ chat \subseteq Gone
            /\ \A i \in Writes : calls[i].state \ chat \subseteq Gone
            /\ \A r \in Answers : r.state \ chat \subseteq Gone

KInv == StoredOK /\ OwnOK /\ FreshOK /\ ReplyOK /\ SavesOK /\ AnswersOK /\ ChatOK

\* The oldest call and the reply to it.
LEMMA SettleFacts ==
  ASSUME CallsOK, calls # <<>>, NEW ok, NEW value, Settle(ok, value)
  PROVE  /\ 1 \in DOMAIN calls /\ Head(calls) = calls[1] /\ calls[1] \in Call
         /\ \A i \in DOMAIN calls' : /\ i \in Nat /\ 1 < i + 1
                                     /\ i + 1 \in DOMAIN calls /\ calls'[i] = calls[i + 1]
         /\ \A r \in replies' : \/ r \in replies
                                \/ /\ r.cmd = calls[1].cmd /\ r.by = calls[1].by
                                   /\ r.state = calls[1].state /\ r.blind = calls[1].blind
                                   /\ r.ok = ok /\ r.value = value
<1>1. calls' = Tail(calls) /\ Head(calls) = calls[1] /\ 1 \in DOMAIN calls /\ calls[1] \in Call
  BY DEF Settle, CallsOK
<1>2. \A i \in DOMAIN calls' : /\ i \in Nat /\ 1 < i + 1
                               /\ i + 1 \in DOMAIN calls /\ calls'[i] = calls[i + 1]
  BY <1>1 DEF CallsOK
<1>3. \A r \in replies' : \/ r \in replies
                          \/ /\ r.cmd = calls[1].cmd /\ r.by = calls[1].by
                             /\ r.state = calls[1].state /\ r.blind = calls[1].blind
                             /\ r.ok = ok /\ r.value = value
  BY <1>1 DEF Settle
<1> QED BY <1>1, <1>2, <1>3

LEMMA InvokeFacts ==
  ASSUME CallsOK, NEW cmd, NEW by, NEW state, Invoke(cmd, by, state)
  PROVE  /\ DOMAIN calls' = 1..(Len(calls) + 1) /\ Len(calls) \in Nat
         /\ DOMAIN calls = 1..Len(calls)
         /\ \A i \in DOMAIN calls : calls'[i] = calls[i]
         /\ calls'[Len(calls) + 1].cmd = cmd /\ calls'[Len(calls) + 1].by = by
         /\ calls'[Len(calls) + 1].state = state
         /\ calls'[Len(calls) + 1].blind = (by = "save" /\ ~loaded)
<1> DEFINE c == [cmd |-> cmd, by |-> by, state |-> state, blind |-> by = "save" /\ ~loaded]
<1>1. calls' = Append(calls, c)
  BY DEF Invoke
<1>2. c.cmd = cmd /\ c.by = by /\ c.state = state /\ c.blind = (by = "save" /\ ~loaded)
  OBVIOUS
<1> HIDE DEF c
<1>3. /\ DOMAIN calls' = 1..(Len(calls) + 1) /\ Len(calls) \in Nat
      /\ DOMAIN calls = 1..Len(calls)
      /\ \A i \in DOMAIN calls : calls'[i] = calls[i]
      /\ calls'[Len(calls) + 1] = c
  BY <1>1 DEF CallsOK
<1> QED BY <1>2, <1>3

-----------------------------------------------------------------------------
(***************************************************************************)
(* The second invariant, kept by each action.                              *)
(***************************************************************************)

LEMMA InitEstablishesK == Init => KInv
<1> SUFFICES ASSUME Init PROVE KInv
  OBVIOUS
<1>1. replies = {} /\ Answers = {}
  BY DEF Init, Answers
<1>2. CASE isTauri
  <2>1. calls = <<LoadCall>> /\ loading = "load_chat_state" /\ file = Null /\ ~loaded
    BY <1>2 DEF Init
  <2>2. DOMAIN calls = {1} /\ calls[1].cmd = "load_chat_state"
    BY <2>1 DEF LoadCall
  <2>3. Writes = {}
    BY <2>2 DEF Writes
  <2> QED BY <1>1, <2>1, <2>2, <2>3
          DEF KInv, StoredOK, OwnOK, FreshOK, ReplyOK, SavesOK, AnswersOK, ChatOK
<1>3. CASE ~isTauri
  <2>1. calls = <<>> /\ loading = "done" /\ chat = Stored /\ loaded
    BY <1>3 DEF Init
  <2>2. DOMAIN calls = {} /\ Writes = {} /\ ~Awaited /\ Recoverable = chat
    BY <1>3, <2>1 DEF Writes, Awaited, Recoverable, Backed
  <2> QED BY <1>1, <2>1, <2>2
          DEF KInv, StoredOK, OwnOK, FreshOK, ReplyOK, SavesOK, AnswersOK, ChatOK
<1> QED BY <1>2, <1>3

\* A step that leaves storage, the queue and the replies alone.
LEMMA QuietKeepsK ==
  ASSUME KInv, UNCHANGED platform, UNCHANGED <<loading, loaded, calls, replies>>,
         UNCHANGED <<file, migrated, localStorage>>,
         Gone \subseteq Gone', chat \ chat' \subseteq Gone'
  PROVE  KInv'
<1>1. Recoverable' = Recoverable /\ Writes' = Writes /\ Answers' = Answers /\ Awaited' = Awaited
  BY DEF Recoverable, Writes, Answers, Awaited, Stored, Backed, platform
<1>2. StoredOK' /\ FreshOK'
  BY <1>1 DEF KInv, StoredOK, FreshOK, platform
<1>3. OwnOK'
  BY <1>1 DEF KInv, OwnOK
<1>4. ReplyOK'
  <2>1. ASSUME NEW r \in replies, r.by = "load", r.ok, r.cmd = "load_chat_state", r.value # Null
        PROVE  Recoverable' \ (r.value \union chat') \subseteq Gone'
    <3>1. Recoverable \ (r.value \union chat) \subseteq Gone
      BY <2>1 DEF KInv, ReplyOK
    <3> QED BY <1>1, <3>1
  <2>2. ASSUME NEW r \in replies, r.by = "load", r.ok, r.cmd = "load_chat_state", r.value = Null,
               file # Null
        PROVE  file' \ chat' \subseteq Gone'
    BY <2>2 DEF KInv, ReplyOK
  <2>3. loading = "is_migration_complete" /\ file # Null => file' \ chat' \subseteq Gone'
    BY DEF KInv, ReplyOK
  <2> QED BY <2>1, <2>2, <2>3 DEF ReplyOK
<1>5. SavesOK'
  BY <1>1 DEF KInv, SavesOK
<1>6. AnswersOK'
  BY <1>1 DEF KInv, AnswersOK
<1>7. ChatOK'
  BY <1>1 DEF KInv, ChatOK
<1> QED BY <1>2, <1>3, <1>4, <1>5, <1>6, <1>7 DEF KInv

LEMMA EditKeepsK == ASSUME IInv, KInv, UNCHANGED platform, Create \/ Delete PROVE KInv'
<1>1. /\ UNCHANGED <<loading, loaded, calls, replies>> /\ UNCHANGED <<file, migrated, localStorage>>
      /\ Gone \subseteq Gone' /\ chat \ chat' \subseteq Gone'
  BY DEF Create, Delete, backend, Gone
<1> QED BY <1>1, QuietKeepsK

LEMMA WriteTempKeepsK == ASSUME IInv, KInv, UNCHANGED platform, WriteTemp PROVE KInv'
<1>1. /\ UNCHANGED <<loading, loaded, calls, replies>> /\ UNCHANGED <<file, migrated, localStorage>>
      /\ Gone \subseteq Gone' /\ chat \ chat' \subseteq Gone'
  BY DEF WriteTemp, window, Gone
<1> QED BY <1>1, QuietKeepsK

\* The new save is blind, or the page shows what it would replace.
LEMMA SaveTimerKeepsK == ASSUME IInv, KInv, UNCHANGED platform, SaveTimer PROVE KInv'
<1>1. UNCHANGED <<chat, loading, loaded, deleted, replaced, replies, file, migrated>>
  BY DEF SaveTimer, backend
<1>2. Awaited' = Awaited /\ Answers' = Answers /\ Gone' = Gone
  BY <1>1 DEF Awaited, Answers, Gone, platform
<1>3. CASE isTauri
  <2>1. Invoke("save_chat_state", "save", chat) /\ UNCHANGED localStorage
    BY <1>3 DEF SaveTimer
  <2> DEFINE n == Len(calls) + 1
  <2>2. /\ DOMAIN calls' = 1..n /\ Len(calls) \in Nat /\ DOMAIN calls = 1..Len(calls)
        /\ \A i \in DOMAIN calls : calls'[i] = calls[i]
        /\ calls'[n].cmd = "save_chat_state" /\ calls'[n].by = "save" /\ calls'[n].state = chat
        /\ calls'[n].blind = ~loaded
    BY <2>1, InvokeFacts DEF IInv
  <2>3. Recoverable' = Recoverable
    BY <1>1, <2>1 DEF Recoverable, Stored, Backed, platform
  <2>4. /\ Writes' = Writes \union {n} /\ n \notin Writes
        /\ \A i \in Writes : calls'[i] = calls[i] /\ i \in Nat /\ i < n
    BY <2>2 DEF Writes, platform
  <2>5. StoredOK'
    BY <1>1, <2>2 DEF KInv, StoredOK, platform
  <2>6. OwnOK'
    BY <1>1, <1>2, <2>2, <2>4 DEF KInv, OwnOK
  <2>7. FreshOK'
    <3>1. \A i \in Writes, k \in DOMAIN calls' : k < i => k \in DOMAIN calls
      BY <2>2, <2>4
    <3> QED BY <1>1, <2>2, <2>4, <3>1 DEF KInv, FreshOK
  <2>8. ReplyOK'
    BY <1>1, <1>2, <2>3 DEF KInv, ReplyOK
  <2>9. SavesOK'
    <3> SUFFICES ASSUME NEW j \in Writes', ~calls'[j].blind
                 PROVE  /\ Recoverable' \ calls'[j].state \subseteq Gone'
                        /\ \A i \in Writes' : i < j => calls'[i].state \ calls'[j].state \subseteq Gone'
                        /\ \A r \in Answers' : r.state \ calls'[j].state \subseteq Gone'
      BY DEF SavesOK
    <3>1. CASE j \in Writes
      <4>1. \A i \in Writes' : i < j => i \in Writes
        BY <2>2, <2>4, <3>1
      <4> QED BY <1>2, <2>3, <2>4, <3>1, <4>1 DEF KInv, SavesOK
    <3>2. CASE j = n
      <4>1. \A i \in Writes' : i < j => i \in Writes
        BY <2>2, <2>4, <3>2
      <4>2. loaded
        BY <2>2, <3>2
      <4> QED BY <1>2, <2>2, <2>3, <2>4, <3>2, <4>1, <4>2 DEF KInv, ChatOK
    <3> QED BY <2>4, <3>1, <3>2
  <2>10. AnswersOK' /\ ChatOK'
    BY <1>1, <1>2, <2>2, <2>3, <2>4 DEF KInv, AnswersOK, ChatOK
  <2> QED BY <2>5, <2>6, <2>7, <2>8, <2>9, <2>10 DEF KInv
<1>4. CASE ~isTauri
  <2>1. calls' = <<>> /\ replies' = {} /\ loaded /\ ~Awaited
    BY <1>1, <1>4 DEF SaveTimer, IInv, PlatformOK, KInv, OwnOK
  <2>2. DOMAIN calls' = {} /\ Writes' = {} /\ Answers' = {}
    BY <2>1 DEF Writes, Answers
  <2>3. Recoverable' \ chat' \subseteq Gone'
    <3>1. localStorage' = chat \/ localStorage' = localStorage
      BY <1>4 DEF SaveTimer, SetItem
    <3>2. Recoverable' \in {chat, Recoverable}
      BY <1>4, <3>1, Distinct DEF Recoverable, Stored, Backed, IInv, ValuesOK, platform
    <3> QED BY <1>1, <1>2, <2>1, <3>2 DEF KInv, ChatOK
  <2> QED BY <1>1, <1>2, <2>1, <2>2, <2>3
          DEF KInv, StoredOK, OwnOK, FreshOK, ReplyOK, SavesOK, AnswersOK, ChatOK, Awaited
<1> QED BY <1>3, <1>4

\* Its continuation writes localStorage, which a restart reads only without
\* the API module.
LEMMA SaveSettlesKeepsK ==
  ASSUME IInv, KInv, UNCHANGED platform, NEW r \in replies, SaveSettles(r) PROVE KInv'
<1>1. /\ UNCHANGED <<chat, loading, loaded, deleted, replaced, calls, file, migrated>>
      /\ replies' = replies \ {r} /\ isTauri /\ r.by = "save"
      /\ localStorage' = localStorage \/ (r.ok /\ localStorage' = r.state)
  BY DEF SaveSettles, SetItem, window, backend, IInv, PlatformOK
<1>2. Writes' = Writes /\ Awaited' = Awaited /\ Gone' = Gone /\ Answers' = Answers \ {r}
  BY <1>1 DEF Writes, Awaited, Gone, Answers, platform
<1>3. StoredOK' /\ OwnOK' /\ FreshOK'
  BY <1>1, <1>2 DEF KInv, StoredOK, OwnOK, FreshOK, platform
<1>4. CASE Recoverable' = Recoverable
  <2>1. ReplyOK'
    BY <1>1, <1>2, <1>4 DEF KInv, ReplyOK
  <2>2. SavesOK' /\ AnswersOK' /\ ChatOK'
    BY <1>1, <1>2, <1>4 DEF KInv, SavesOK, AnswersOK, ChatOK
  <2> QED BY <1>3, <2>1, <2>2 DEF KInv
<1>5. CASE Recoverable' # Recoverable
  <2>1. ~imports /\ r \in Answers /\ Recoverable' = r.state
    <3>1. imports => file # Null \/ UNCHANGED localStorage
      BY <1>1 DEF KInv, StoredOK
    <3>2. ~imports
      BY <1>1, <1>5, <3>1 DEF Recoverable, Stored, Backed, platform
    <3>3. localStorage' = r.state /\ r.state # Null
      BY <1>1, <1>5, Distinct DEF Recoverable, Stored, Backed, IInv, RepliesOK, platform
    <3> QED BY <1>1, <3>2, <3>3 DEF Answers, Recoverable, Stored, Backed, platform
  <2>2. replies' = {} /\ file = Null /\ Answers' = {}
    BY <1>1, <2>1 DEF IInv, PlatformOK, Answers
  <2>3. ReplyOK' /\ AnswersOK'
    BY <1>1, <2>2 DEF ReplyOK, AnswersOK
  <2>4. SavesOK'
    BY <1>1, <1>2, <2>1, <2>2 DEF KInv, SavesOK
  <2>5. ChatOK'
    BY <1>1, <1>2, <2>1, <2>2 DEF KInv, ChatOK
  <2> QED BY <1>3, <2>3, <2>4, <2>5 DEF KInv
<1> QED BY <1>4, <1>5

\* A promise settles, and storage stays as it is.
LEMMA AnswerKeepsK ==
  ASSUME IInv, KInv, UNCHANGED platform, calls # <<>>, NEW ok, NEW value, Settle(ok, value),
         UNCHANGED <<chat, loading, loaded, deleted, replaced, file, localStorage>>,
         migrated => migrated',
         ok /\ imports => /\ calls[1].cmd # "save_chat_state"
                          /\ calls[1].cmd = "mark_migration_complete" => migrated',
         ok /\ calls[1].cmd = "load_chat_state" => value = file
  PROVE  KInv'
<1>1. /\ 1 \in DOMAIN calls /\ calls[1] \in Call
      /\ \A i \in DOMAIN calls' : i \in Nat /\ 1 < i + 1 /\ i + 1 \in DOMAIN calls /\ calls'[i] = calls[i + 1]
      /\ \A r \in replies' : \/ r \in replies
                             \/ /\ r.cmd = calls[1].cmd /\ r.by = calls[1].by
                                /\ r.state = calls[1].state /\ r.blind = calls[1].blind
                                /\ r.ok = ok /\ r.value = value
  BY SettleFacts DEF IInv
<1>2. Recoverable' = Recoverable /\ Awaited' = Awaited /\ Gone' = Gone
  BY DEF Recoverable, Stored, Backed, Awaited, Gone, platform
<1>3. \A i \in Writes' : /\ i \in Nat /\ 1 < i + 1 /\ i + 1 \in Writes /\ calls'[i] = calls[i + 1]
                         /\ i \in DOMAIN calls'
  BY <1>1 DEF Writes, platform
<1>4. \A r \in Answers' : \/ r \in Answers
                          \/ /\ 1 \in Writes /\ calls[1].by = "save"
                             /\ r.state = calls[1].state /\ r.blind = calls[1].blind
  BY <1>1 DEF Answers, Writes, Call, platform
<1>5. StoredOK'
  <2>1. calls[1].by = "save" => calls[1].cmd = "save_chat_state"
    BY <1>1 DEF Call
  <2> QED BY <1>1, <2>1 DEF KInv, StoredOK, platform
<1>6. OwnOK'
  BY <1>2, <1>3, <1>4 DEF KInv, OwnOK
<1>7. FreshOK'
  <2>1. ASSUME NEW i \in Writes', NEW k \in DOMAIN calls', calls'[k].by = "load", k < i
        PROVE  calls'[i].by = "save"
    <3>1. calls[k + 1].by = "load" /\ k + 1 < i + 1 /\ k + 1 \in DOMAIN calls /\ i + 1 \in Writes
      BY <1>1, <1>3, <2>1
    <3> QED BY <1>3, <3>1 DEF KInv, FreshOK
  <2>2. ASSUME NEW r \in replies', r.by = "load", NEW i \in Writes' PROVE calls'[i].by = "save"
    BY <1>1, <1>3, <2>2 DEF KInv, FreshOK
  <2>3. ASSUME loading' = "is_migration_complete", NEW i \in Writes' PROVE calls'[i].by = "save"
    BY <1>3, <2>3 DEF KInv, FreshOK
  <2> QED BY <2>1, <2>2, <2>3 DEF FreshOK
<1>8. ReplyOK'
  <2> SUFFICES ASSUME NEW r \in replies', r.by = "load", r.ok, r.cmd = "load_chat_state"
               PROVE  IF r.value = Null THEN file' # Null => file' \ chat' \subseteq Gone'
                      ELSE Recoverable' \ (r.value \union chat') \subseteq Gone'
    BY <1>2 DEF KInv, ReplyOK
  <2>1. CASE r \in replies
    BY <1>2, <2>1 DEF KInv, ReplyOK
  <2>2. CASE r \notin replies
    <3>1. r.value = file
      BY <1>1, <2>2
    <3>2. file # Null => Recoverable \subseteq file
      <4>1. file # Null => imports /\ isTauri /\ file # Torn
        BY Distinct DEF IInv, PlatformOK, ValuesOK
      <4> QED BY <4>1 DEF Recoverable, Backed
    <3> QED BY <1>2, <3>1, <3>2
  <2> QED BY <2>1, <2>2
<1>9. SavesOK'
  <2> SUFFICES ASSUME NEW j \in Writes', ~calls'[j].blind
               PROVE  /\ Recoverable' \ calls'[j].state \subseteq Gone'
                      /\ \A i \in Writes' : i < j => calls'[i].state \ calls'[j].state \subseteq Gone'
                      /\ \A r \in Answers' : r.state \ calls'[j].state \subseteq Gone'
    BY DEF SavesOK
  <2>1. j + 1 \in Writes /\ ~calls[j + 1].blind /\ calls'[j] = calls[j + 1] /\ 1 < j + 1
    BY <1>3
  <2>2. ASSUME NEW i \in Writes', i < j PROVE calls'[i].state \ calls'[j].state \subseteq Gone'
    <3>1. i + 1 \in Writes /\ i + 1 < j + 1 /\ calls'[i] = calls[i + 1]
      BY <1>3, <2>2
    <3> QED BY <1>2, <2>1, <3>1 DEF KInv, SavesOK
  <2> QED BY <1>2, <1>4, <2>1, <2>2 DEF KInv, SavesOK
<1>10. AnswersOK'
  BY <1>2, <1>4 DEF KInv, AnswersOK, SavesOK
<1>11. ChatOK'
  BY <1>2, <1>3, <1>4 DEF KInv, ChatOK
<1> QED BY <1>5, <1>6, <1>7, <1>8, <1>9, <1>10, <1>11 DEF KInv

LEMMA FailsKeepsK == ASSUME IInv, KInv, UNCHANGED platform, Fails PROVE KInv'
<1>1. /\ calls # <<>> /\ Settle(FALSE, Null)
      /\ UNCHANGED <<chat, loading, loaded, deleted, replaced, file, localStorage, migrated>>
  BY DEF Fails, window
<1> QED BY <1>1, AnswerKeepsK

LEMMA ReturnsNullKeepsK == ASSUME IInv, KInv, UNCHANGED platform, ReturnsNull PROVE KInv'
<1>1. /\ calls # <<>> /\ Settle(TRUE, Null) /\ ~imports /\ file = Null
      /\ UNCHANGED <<chat, loading, loaded, deleted, replaced, file, localStorage, migrated>>
  BY DEF ReturnsNull, window, backend, IInv, PlatformOK
<1> QED BY <1>1, AnswerKeepsK

LEMMA ExecutesKeepsK == ASSUME IInv, KInv, UNCHANGED platform, Executes PROVE KInv'
<1>1. calls # <<>> /\ Head(calls) = calls[1]
  BY DEF Executes, IInv, CallsOK
<1>2. UNCHANGED <<chat, loading, loaded, deleted, replaced, file, localStorage>>
  BY DEF Executes, window
<1>3. \E value : /\ Settle(TRUE, value)
                 /\ migrated => migrated'
                 /\ calls[1].cmd # "save_chat_state"
                 /\ calls[1].cmd = "load_chat_state" => value = file
                 /\ calls[1].cmd = "mark_migration_complete" => migrated'
  <2>1. CASE calls[1].cmd = "load_chat_state"
    <3>1. Settle(TRUE, file) /\ UNCHANGED migrated
      BY <1>1, <2>1 DEF Executes
    <3> QED BY <2>1, <3>1, Zenon
  <2>2. CASE calls[1].cmd = "is_migration_complete"
    <3>1. Settle(TRUE, migrated) /\ UNCHANGED migrated
      BY <1>1, <2>2 DEF Executes
    <3>2. calls[1].cmd # "save_chat_state" /\ calls[1].cmd # "load_chat_state"
          /\ calls[1].cmd # "mark_migration_complete"
      BY <2>2
    <3> QED BY <3>1, <3>2, Zenon
  <2>3. CASE calls[1].cmd = "mark_migration_complete"
    BY <1>1, <2>3 DEF Executes
  <2> QED BY <1>1, <2>1, <2>2, <2>3 DEF Executes
<1> QED BY <1>1, <1>2, <1>3, AnswerKeepsK

\* The oldest save becomes what is stored.
LEMMA RenameKeepsK == ASSUME IInv, KInv, UNCHANGED platform, Rename PROVE KInv'
<1>1. /\ calls # <<>> /\ calls[1].cmd = "save_chat_state" /\ writing = "complete" /\ imports
      /\ UNCHANGED <<chat, loading, loaded, deleted, replaced, migrated, localStorage>>
      /\ file' = temp /\ Settle(TRUE, Null)
  <2>1. calls # <<>> => Head(calls) = calls[1]
    BY DEF IInv, CallsOK
  <2> QED BY <2>1 DEF Rename, Saving, window
<1>2. /\ 1 \in DOMAIN calls /\ calls[1] \in Call
      /\ \A i \in DOMAIN calls' : i \in Nat /\ 1 < i + 1 /\ i + 1 \in DOMAIN calls /\ calls'[i] = calls[i + 1]
      /\ \A r \in replies' : \/ r \in replies
                             \/ r.cmd = "save_chat_state" /\ r.by = calls[1].by
  BY <1>1, SettleFacts DEF IInv
<1>3. file' = calls[1].state /\ file' \in State /\ isTauri
  BY <1>1, <1>2 DEF IInv, WritingOK, Call, PlatformOK
<1>4. /\ file' # Null /\ Recoverable' = calls[1].state /\ Awaited' = Awaited /\ Gone' = Gone
      /\ Answers = {} /\ Answers' = {} /\ 1 \in Writes
  BY <1>1, <1>2, <1>3, Distinct DEF Recoverable, Backed, Awaited, Gone, Answers, Writes, platform
<1>5. \A i \in Writes' : /\ i \in Nat /\ 1 < i + 1 /\ i + 1 \in Writes /\ calls'[i] = calls[i + 1]
                         /\ i \in DOMAIN calls'
  BY <1>2 DEF Writes, platform
<1>6. StoredOK'
  BY <1>1, <1>2, <1>4 DEF KInv, StoredOK, platform
<1>7. OwnOK'
  BY <1>1, <1>4, <1>5 DEF KInv, OwnOK
<1>8. FreshOK'
  <2>1. ASSUME NEW i \in Writes', NEW k \in DOMAIN calls', calls'[k].by = "load", k < i
        PROVE  calls'[i].by = "save"
    <3>1. calls[k + 1].by = "load" /\ k + 1 < i + 1 /\ k + 1 \in DOMAIN calls /\ i + 1 \in Writes
      BY <1>2, <1>5, <2>1
    <3> QED BY <1>5, <3>1 DEF KInv, FreshOK
  <2>2. ASSUME NEW r \in replies', r.by = "load", NEW i \in Writes' PROVE calls'[i].by = "save"
    BY <1>2, <1>5, <2>2 DEF KInv, FreshOK
  <2>3. ASSUME loading' = "is_migration_complete", NEW i \in Writes' PROVE calls'[i].by = "save"
    BY <1>1, <1>5, <2>3 DEF KInv, FreshOK
  <2> QED BY <2>1, <2>2, <2>3 DEF FreshOK
<1>9. ReplyOK'
  <2>1. Awaited /\ calls[1].by = "save" => calls[1].state \ chat \subseteq Gone
    BY <1>4 DEF KInv, OwnOK
  <2>2. ASSUME NEW r \in replies', r.by = "load", r.cmd = "load_chat_state"
        PROVE  Awaited /\ calls[1].by = "save"
    BY <1>2, <1>4, <2>2 DEF IInv, LoadsOK, KInv, FreshOK, Awaited
  <2>3. loading = "is_migration_complete" => Awaited /\ calls[1].by = "save"
    BY <1>4 DEF KInv, FreshOK, Awaited
  <2> QED BY <1>1, <1>3, <1>4, <2>1, <2>2, <2>3 DEF ReplyOK
<1>10. SavesOK'
  <2> SUFFICES ASSUME NEW j \in Writes', ~calls'[j].blind
               PROVE  /\ Recoverable' \ calls'[j].state \subseteq Gone'
                      /\ \A i \in Writes' : i < j => calls'[i].state \ calls'[j].state \subseteq Gone'
    BY <1>4 DEF SavesOK
  <2>1. j + 1 \in Writes /\ ~calls[j + 1].blind /\ calls'[j] = calls[j + 1] /\ 1 < j + 1
    BY <1>5
  <2>2. ASSUME NEW i \in Writes', i < j PROVE calls'[i].state \ calls'[j].state \subseteq Gone'
    <3>1. i + 1 \in Writes /\ i + 1 < j + 1 /\ calls'[i] = calls[i + 1]
      BY <1>5, <2>2
    <3> QED BY <1>4, <2>1, <3>1 DEF KInv, SavesOK
  <2> QED BY <1>4, <2>1, <2>2 DEF KInv, SavesOK
<1>11. AnswersOK' /\ ChatOK'
  BY <1>1, <1>4, <1>5 DEF KInv, AnswersOK, ChatOK
<1> QED BY <1>6, <1>7, <1>8, <1>9, <1>10, <1>11 DEF KInv

\* The load installs what storage holds; what was saved before is blind.
LEMMA InstallKeepsK ==
  ASSUME IInv, KInv, UNCHANGED platform, NEW r \in replies, LoadSettles(r), Awaited,
         NEW state \in State, Install(state), Recoverable \ (state \union chat) \subseteq Gone,
         \/ UNCHANGED calls /\ loading' = "done"
         \/ Invoke("save_chat_state", "load", state) /\ loading' = "save_chat_state"
  PROVE  KInv'
<1>1. /\ r.by = "load" /\ replies' = replies \ {r} /\ ~loaded /\ loaded' /\ chat' = state
      /\ UNCHANGED <<file, migrated, localStorage>> /\ ~Awaited'
      /\ \A s \in replies' : s.by # "load"
  <2>1. loaded' /\ chat' = state /\ r.by = "load" /\ ~loaded /\ r.cmd \in {"load_chat_state", "is_migration_complete"}
    BY DEF Install, LoadSettles, KInv, OwnOK, IInv, LoadsOK, Awaited
  <2>2. \A s \in replies \ {r} : s.by # "load"
    BY <2>1 DEF IInv, LoadsOK
  <2> QED BY <2>1, <2>2 DEF LoadSettles, backend, Awaited
<1>2. Gone' = (Gone \union chat) \ state
  BY DEF Install, Gone
<1>3. /\ Recoverable' = Recoverable /\ Answers' \subseteq Answers
      /\ Recoverable \ state \subseteq Gone'
  BY <1>1, <1>2 DEF Recoverable, Stored, Backed, Answers, platform
<1>4. /\ \A i \in Writes : calls[i].by = "save" /\ calls[i].blind /\ calls[i].state \ chat \subseteq Gone
      /\ \A s \in Answers : s.blind /\ s.state \ chat \subseteq Gone
  BY <1>1 DEF KInv, FreshOK, OwnOK
<1>5. /\ \A i \in Writes : calls[i].state \ state \subseteq Gone'
      /\ \A s \in Answers : s.state \ state \subseteq Gone'
  BY <1>2, <1>4
<1>6. CASE UNCHANGED calls /\ loading' = "done"
  <2>1. Writes' = Writes
    BY <1>6 DEF Writes, platform
  <2>2. StoredOK' /\ FreshOK' /\ ReplyOK'
    BY <1>1, <1>6, <2>1 DEF KInv, StoredOK, FreshOK, ReplyOK, platform
  <2>3. OwnOK' /\ SavesOK' /\ AnswersOK' /\ ChatOK'
    BY <1>1, <1>3, <1>4, <1>5, <1>6, <2>1 DEF OwnOK, SavesOK, AnswersOK, ChatOK
  <2> QED BY <2>2, <2>3 DEF KInv
<1>7. CASE Invoke("save_chat_state", "load", state) /\ loading' = "save_chat_state"
  <2> DEFINE n == Len(calls) + 1
  <2>1. /\ DOMAIN calls' = 1..n /\ Len(calls) \in Nat /\ DOMAIN calls = 1..Len(calls)
        /\ \A i \in DOMAIN calls : calls'[i] = calls[i]
        /\ calls'[n].cmd = "save_chat_state" /\ calls'[n].by = "load" /\ calls'[n].state = state
    BY <1>7, InvokeFacts DEF IInv
  <2>2. /\ \A i \in Writes' : i \in Writes \/ (i = n /\ imports)
        /\ \A i \in Writes : i \in Nat /\ i < n /\ calls'[i] = calls[i]
    BY <2>1 DEF Writes, platform
  <2>3. StoredOK'
    BY <1>1, <2>1 DEF KInv, StoredOK, platform
  <2>4. OwnOK' /\ AnswersOK'
    BY <1>1, <1>3, <1>4 DEF OwnOK, AnswersOK
  <2>5. ReplyOK'
    BY <1>1, <1>7 DEF ReplyOK
  <2>6. FreshOK'
    <3>1. \A k \in DOMAIN calls' : calls'[k].by = "load" => k = n
      <4>1. \A k \in DOMAIN calls : calls[k].by # "load"
        BY <1>1 DEF IInv, LoadsOK
      <4> QED BY <2>1, <4>1
    <3>2. \A i \in Writes' : ~(n < i)
      BY <2>1, <2>2
    <3> QED BY <1>1, <1>7, <3>1, <3>2 DEF FreshOK
  <2>7. SavesOK'
    <3> SUFFICES ASSUME NEW j \in Writes', ~calls'[j].blind
                 PROVE  /\ Recoverable' \ calls'[j].state \subseteq Gone'
                        /\ \A i \in Writes' : i < j => calls'[i].state \ calls'[j].state \subseteq Gone'
                        /\ \A s \in Answers' : s.state \ calls'[j].state \subseteq Gone'
      BY DEF SavesOK
    <3>1. j = n
      BY <1>4, <2>2
    <3>2. \A i \in Writes' : i < j => i \in Writes
      BY <2>1, <2>2, <3>1
    <3> QED BY <1>3, <1>5, <2>1, <2>2, <3>1, <3>2
  <2>8. ChatOK'
    <3>1. \A i \in Writes' : calls'[i].state \ state \subseteq Gone'
      BY <1>5, <2>1, <2>2
    <3> QED BY <1>1, <1>3, <1>5, <3>1 DEF ChatOK
  <2> QED BY <2>3, <2>4, <2>5, <2>6, <2>7, <2>8 DEF KInv
<1> QED BY <1>6, <1>7

\* The load effect finds nothing to install: the page's chat is the first.
LEMMA NothingStoredKeepsK ==
  ASSUME IInv, KInv, UNCHANGED platform, NEW r \in replies, LoadSettles(r), r.ok,
         r.cmd = "is_migration_complete", localStorage = Null
  PROVE  KInv'
<1>1. /\ r.by = "load" /\ replies' = replies \ {r} /\ loading = "is_migration_complete"
      /\ loading' = "done" /\ loaded'
      /\ UNCHANGED <<chat, deleted, replaced, calls, file, migrated, localStorage>>
      /\ \A s \in replies' : s.by # "load"
  <2>1. r.by = "load" /\ loading = r.cmd
    BY DEF LoadSettles, IInv, LoadsOK
  <2>2. \A s \in replies \ {r} : s.by # "load"
    BY <2>1 DEF IInv, LoadsOK
  <2> QED BY <2>1, <2>2 DEF LoadSettles, backend
<1>2. Recoverable' = Recoverable /\ Gone' = Gone /\ Writes' = Writes /\ Answers' \subseteq Answers
      /\ ~Awaited' /\ Awaited
  BY <1>1 DEF Recoverable, Stored, Backed, Gone, Writes, Answers, Awaited, platform
<1>3. /\ \A i \in Writes : calls[i].by = "save" /\ calls[i].blind /\ calls[i].state \ chat \subseteq Gone
      /\ \A s \in Answers : s.blind /\ s.state \ chat \subseteq Gone
  BY <1>1, <1>2 DEF KInv, FreshOK, OwnOK
<1>4. Recoverable \ chat \subseteq Gone
  <2>1. file # Null => file \ chat \subseteq Gone
    BY <1>1 DEF KInv, ReplyOK
  <2>2. file # Torn
    BY Distinct DEF IInv, ValuesOK
  <2> QED BY <2>1, <2>2 DEF Recoverable, Stored
<1>5. StoredOK' /\ FreshOK' /\ ReplyOK'
  BY <1>1, <1>2 DEF KInv, StoredOK, FreshOK, ReplyOK, platform
<1>6. OwnOK' /\ SavesOK' /\ AnswersOK' /\ ChatOK'
  BY <1>1, <1>2, <1>3, <1>4 DEF OwnOK, SavesOK, AnswersOK, ChatOK
<1> QED BY <1>5, <1>6 DEF KInv

\* The load effect goes on, or fails, without installing anything.
LEMMA GoesOnKeepsK ==
  ASSUME IInv, KInv, UNCHANGED platform, NEW r \in replies, LoadSettles(r),
         UNCHANGED <<chat, loaded, deleted, replaced>>,
         \/ UNCHANGED calls
         \/ /\ Invoke("is_migration_complete", "load", Null) /\ loading' = "is_migration_complete"
            /\ r.ok /\ r.cmd = "load_chat_state" /\ r.value = Null
         \/ /\ Invoke("mark_migration_complete", "load", Null)
            /\ loading' = "mark_migration_complete" /\ r.ok /\ r.cmd = "save_chat_state",
         UNCHANGED calls => loading' = "done",
         UNCHANGED localStorage \/ (localStorage' = Null /\ r.ok /\ r.cmd = "mark_migration_complete")
  PROVE  KInv'
<1>1. /\ r.by = "load" /\ replies' = replies \ {r} /\ loading = r.cmd /\ UNCHANGED <<file, migrated>>
      /\ \A s \in replies' : s.by # "load"
  <2>1. r.by = "load" /\ loading = r.cmd
    BY DEF LoadSettles, IInv, LoadsOK
  <2>2. \A s \in replies \ {r} : s.by # "load"
    BY <2>1 DEF IInv, LoadsOK
  <2> QED BY <2>1, <2>2 DEF LoadSettles, backend
<1>2. /\ Gone' = Gone /\ Answers' \subseteq Answers /\ (Awaited' => Awaited)
      /\ \A i \in Writes : calls[i].by = "save"
  BY <1>1 DEF Gone, Answers, Awaited, KInv, FreshOK, platform
<1>3. /\ Writes' = Writes
      /\ \A i \in Writes : calls'[i] = calls[i]
      /\ \A i \in DOMAIN calls' : \/ i \in DOMAIN calls /\ calls'[i] = calls[i]
                                 \/ calls'[i].cmd = loading'
  <2>1. CASE UNCHANGED calls
    BY <2>1 DEF Writes, platform
  <2>2. ASSUME NEW cmd \in {"is_migration_complete", "mark_migration_complete"},
               Invoke(cmd, "load", Null), loading' = cmd
        PROVE  <1>3!1 /\ <1>3!2 /\ <1>3!3
    <3>1. /\ DOMAIN calls' = 1..(Len(calls) + 1) /\ Len(calls) \in Nat /\ DOMAIN calls = 1..Len(calls)
          /\ \A i \in DOMAIN calls : calls'[i] = calls[i]
          /\ calls'[Len(calls) + 1].cmd = cmd
      BY <2>2, InvokeFacts DEF IInv
    <3>2. \A i \in DOMAIN calls' : i \in DOMAIN calls \/ i = Len(calls) + 1
      BY <3>1
    <3> QED BY <2>2, <3>1, <3>2 DEF Writes, platform
  <2> QED BY <2>1, <2>2
<1>4. Recoverable' \subseteq Recoverable
  BY <1>1 DEF Recoverable, Stored, Backed, platform
<1>5. StoredOK'
  <2>1. imports /\ r.ok /\ r.cmd = "save_chat_state" => file # Null
    BY DEF KInv, StoredOK
  <2>2. \A i \in DOMAIN calls' : imports /\ calls'[i].cmd = "mark_migration_complete" => file # Null
    BY <1>3, <2>1 DEF KInv, StoredOK
  <2> QED BY <1>1, <2>2 DEF KInv, StoredOK, platform
<1>6. FreshOK'
  BY <1>2, <1>3 DEF FreshOK
<1>7. OwnOK'
  BY <1>2, <1>3 DEF KInv, OwnOK
<1>8. ReplyOK'
  <2>1. loading' = "is_migration_complete" /\ file # Null => file \ chat \subseteq Gone
    BY <1>1 DEF KInv, ReplyOK
  <2> QED BY <1>1, <1>2, <2>1 DEF ReplyOK
<1>9. SavesOK' /\ AnswersOK' /\ ChatOK'
  BY <1>2, <1>3, <1>4 DEF KInv, SavesOK, AnswersOK, ChatOK
<1> QED BY <1>5, <1>6, <1>7, <1>8, <1>9 DEF KInv

LEMMA LoadSettlesKeepsK ==
  ASSUME IInv, KInv, UNCHANGED platform, NEW r \in replies, LoadSettles(r) PROVE KInv'
<1>1. r.by = "load" /\ r.cmd = loading
  BY DEF LoadSettles, IInv, LoadsOK
<1>2. CASE r.ok /\ r.cmd = "load_chat_state" /\ r.value # Null
  <2>1. r.value \in State /\ r.value # Torn
    BY <1>1, <1>2, Distinct DEF IInv, RepliesOK
  <2>2. Install(r.value) /\ UNCHANGED calls /\ loading' = "done"
    BY <1>2, <2>1 DEF LoadSettles
  <2>3. Recoverable \ (r.value \union chat) \subseteq Gone /\ Awaited
    BY <1>1, <1>2 DEF KInv, ReplyOK, Awaited
  <2> QED BY <2>1, <2>2, <2>3, InstallKeepsK
<1>3. CASE r.ok /\ r.cmd = "is_migration_complete" /\ localStorage # Null
  <2>1. localStorage \in State
    BY <1>3 DEF IInv, ValuesOK
  <2>2. /\ Install(localStorage)
        /\ \/ UNCHANGED calls /\ loading' = "done"
           \/ Invoke("save_chat_state", "load", localStorage) /\ loading' = "save_chat_state"
    BY <1>3 DEF LoadSettles
  <2>3. Recoverable \ (localStorage \union chat) \subseteq Gone /\ Awaited
    <3>1. file # Null => file \ chat \subseteq Gone
      BY <1>1, <1>3 DEF KInv, ReplyOK
    <3>2. Recoverable = localStorage \/ (file # Null /\ Recoverable = file)
      BY <1>3, Distinct DEF Recoverable, Stored, IInv, ValuesOK
    <3> QED BY <1>1, <1>3, <3>1, <3>2 DEF Awaited
  <2> QED BY <2>1, <2>2, <2>3, InstallKeepsK
<1>4. CASE r.ok /\ r.cmd = "is_migration_complete" /\ localStorage = Null
  BY <1>4, NothingStoredKeepsK
<1>5. CASE ~r.ok
  <2>1. UNCHANGED <<chat, loaded, deleted, replaced, calls, localStorage>> /\ loading' = "done"
    BY <1>5 DEF LoadSettles
  <2> QED BY <2>1, GoesOnKeepsK
<1>6. CASE r.ok /\ r.cmd = "load_chat_state" /\ r.value = Null
  <2>1. /\ UNCHANGED <<chat, loaded, deleted, replaced, localStorage>> /\ loading' = "is_migration_complete"
        /\ Invoke("is_migration_complete", "load", Null)
    BY <1>6 DEF LoadSettles
  <2>2. calls' # calls
    BY <2>1 DEF Invoke, IInv, CallsOK
  <2> QED BY <1>6, <2>1, <2>2, GoesOnKeepsK
<1>7. CASE r.ok /\ r.cmd = "save_chat_state"
  <2>1. /\ UNCHANGED <<chat, loaded, deleted, replaced, localStorage>> /\ loading' = "mark_migration_complete"
        /\ Invoke("mark_migration_complete", "load", Null)
    BY <1>7 DEF LoadSettles
  <2>2. calls' # calls
    BY <2>1 DEF Invoke, IInv, CallsOK
  <2> QED BY <1>7, <2>1, <2>2, GoesOnKeepsK
<1>8. CASE r.ok /\ r.cmd = "mark_migration_complete"
  <2>1. /\ UNCHANGED <<chat, loaded, deleted, replaced, calls>> /\ loading' = "done" /\ localStorage' = Null
    BY <1>8 DEF LoadSettles
  <2> QED BY <1>8, <2>1, GoesOnKeepsK
<1> QED BY <1>2, <1>3, <1>4, <1>5, <1>6, <1>7, <1>8 DEF LoadSettles

\* Saves invoked by the old page are still executed before the load is.
LEMMA MountKeepsK ==
  ASSUME IInv, KInv, UNCHANGED platform, NEW pending \in Seq(Call), Mount(pending),
         \A i \in DOMAIN pending : /\ pending[i].by = "gone" /\ i \in DOMAIN calls
                                   /\ pending[i].cmd = calls[i].cmd /\ pending[i].state = calls[i].state
                                   /\ pending[i].blind = calls[i].blind,
         UNCHANGED <<file, migrated>>
  PROVE  KInv'
<1>1. replies' = {} /\ Answers' = {} /\ UNCHANGED <<localStorage, replaced>> /\ loaded' = ~isTauri
  BY DEF Mount, NewPage, Answers
<1>2. Recoverable' = Recoverable
  BY <1>1 DEF Recoverable, Stored, Backed, platform
<1>3. CASE isTauri
  <2> DEFINE n == Len(pending) + 1
  <2>1. calls' = Append(pending, LoadCall) /\ loading' = "load_chat_state" /\ deleted' = deleted
        /\ LoadCall.by = "load" /\ LoadCall.cmd = "load_chat_state"
    BY <1>3 DEF Mount, NewPage, LoadCall
  <2>2. /\ DOMAIN calls' = 1..n /\ DOMAIN pending = 1..Len(pending)
        /\ Len(pending) \in Nat /\ calls'[n] = LoadCall
        /\ \A i \in DOMAIN pending : calls'[i] = pending[i]
    BY <2>1
  <2>3. \A i \in Writes' : /\ i \in Nat /\ i \in Writes /\ i < n /\ calls'[i].by = "gone"
                           /\ calls'[i].state = calls[i].state /\ calls'[i].blind = calls[i].blind
    BY <2>1, <2>2 DEF Writes, platform
  <2>4. \A k \in DOMAIN calls' : calls'[k].by = "load" => k = n
    BY <2>2
  <2>5. \A i \in DOMAIN calls' : \/ calls'[i].cmd = "load_chat_state"
                                 \/ i \in DOMAIN calls /\ calls'[i].cmd = calls[i].cmd
    BY <2>1, <2>2
  <2>6. StoredOK'
    BY <1>1, <2>5 DEF KInv, StoredOK, platform
  <2>7. OwnOK'
    BY <1>1, <1>3, <2>3 DEF OwnOK
  <2>8. FreshOK'
    BY <1>1, <2>1, <2>2, <2>3, <2>4 DEF FreshOK
  <2>9. ReplyOK' /\ AnswersOK' /\ ChatOK'
    BY <1>1, <1>3, <2>1 DEF ReplyOK, AnswersOK, ChatOK, platform
  <2>10. SavesOK'
    <3>1. Gone' = Gone
      BY <1>1, <2>1 DEF Gone
    <3> QED BY <1>1, <1>2, <2>3, <3>1 DEF KInv, SavesOK
  <2> QED BY <2>6, <2>7, <2>8, <2>9, <2>10 DEF KInv
<1>4. CASE ~isTauri
  <2>1. calls = <<>> /\ loading' = "done" /\ chat' = Stored /\ calls' = pending
    BY <1>4 DEF Mount, NewPage, IInv, PlatformOK
  <2>2. DOMAIN calls' = {}
    <3>1. DOMAIN calls = {}
      BY <2>1
    <3> QED BY <2>1, <3>1
  <2>3. Writes' = {} /\ Recoverable' = chat' /\ ~Awaited'
    BY <1>2, <1>4, <2>1, <2>2 DEF Writes, Recoverable, Backed, Awaited
  <2> QED BY <1>1, <1>4, <2>1, <2>2, <2>3
          DEF KInv, StoredOK, OwnOK, FreshOK, ReplyOK, SavesOK, AnswersOK, ChatOK
<1> QED BY <1>3, <1>4

LEMMA RestartKeepsK == ASSUME IInv, KInv, UNCHANGED platform, Reload \/ Crash PROVE KInv'
<1>1. CASE Reload
  <2> DEFINE pending == [i \in DOMAIN calls |-> [calls[i] EXCEPT !.by = "gone"]]
  <2>1. calls \in Seq(Call) /\ DOMAIN calls = 1..Len(calls) /\ Len(calls) \in Nat
    BY DEF IInv, CallsOK
  <2>2. \A c \in Call : /\ [c EXCEPT !.by = "gone"] \in Call
                        /\ [c EXCEPT !.by = "gone"].by = "gone"
                        /\ [c EXCEPT !.by = "gone"].cmd = c.cmd
                        /\ [c EXCEPT !.by = "gone"].state = c.state
                        /\ [c EXCEPT !.by = "gone"].blind = c.blind
    BY DEF Call
  <2>3. \A i \in DOMAIN calls : calls[i] \in Call
    BY <2>1
  <2>4. DOMAIN pending = DOMAIN calls /\ \A i \in DOMAIN calls : pending[i] = [calls[i] EXCEPT !.by = "gone"]
    OBVIOUS
  <2>5. Mount(pending) /\ UNCHANGED <<file, migrated>>
    BY <1>1 DEF Reload, backend
  <2>6. pending = [i \in 1..Len(calls) |-> [calls[i] EXCEPT !.by = "gone"]]
    BY <2>1
  <2> HIDE DEF pending
  <2>7. pending \in Seq(Call)
    <3>1. pending \in [1..Len(calls) -> Call]
      BY <2>1, <2>2, <2>3, <2>6
    <3> QED BY <3>1, <2>1
  <2>8. \A i \in DOMAIN pending : /\ pending[i].by = "gone" /\ i \in DOMAIN calls
                                  /\ pending[i].cmd = calls[i].cmd /\ pending[i].state = calls[i].state
                                  /\ pending[i].blind = calls[i].blind
    <3> SUFFICES ASSUME NEW i \in DOMAIN pending
                 PROVE  /\ pending[i].by = "gone" /\ i \in DOMAIN calls
                        /\ pending[i].cmd = calls[i].cmd /\ pending[i].state = calls[i].state
                        /\ pending[i].blind = calls[i].blind
      OBVIOUS
    <3>1. i \in DOMAIN calls /\ pending[i] = [calls[i] EXCEPT !.by = "gone"] /\ calls[i] \in Call
      BY <2>3, <2>4
    <3> QED BY <2>2, <3>1, Zenon
  <2> QED BY <2>5, <2>7, <2>8, MountKeepsK
<1>2. CASE Crash
  <2>1. Mount(<<>>) /\ UNCHANGED <<file, migrated>>
    BY <1>2 DEF Crash
  <2>2. <<>> \in Seq(Call) /\ DOMAIN (<<>>) = {}
    OBVIOUS
  <2> QED BY <2>1, <2>2, MountKeepsK
<1> QED BY <1>1, <1>2

LEMMA StepKeepsK == IInv /\ KInv /\ [Next]_vars => KInv'
<1> SUFFICES ASSUME IInv, KInv, [Next]_vars PROVE KInv'
  OBVIOUS
<1>1. CASE UNCHANGED vars
  <2>1. /\ UNCHANGED platform /\ UNCHANGED <<loading, loaded, calls, replies>>
        /\ UNCHANGED <<file, migrated, localStorage>>
        /\ Gone \subseteq Gone' /\ chat \ chat' \subseteq Gone'
    BY <1>1 DEF vars, window, backend, Gone
  <2> QED BY <2>1, QuietKeepsK
<1>2. CASE Next
  <2>1. UNCHANGED platform
    BY <1>2 DEF Next
  <2>2. CASE \E r \in replies : SaveSettles(r) \/ LoadSettles(r)
    BY <2>1, <2>2, SaveSettlesKeepsK, LoadSettlesKeepsK
  <2> QED BY <1>2, <2>1, <2>2, EditKeepsK, SaveTimerKeepsK, ReturnsNullKeepsK, FailsKeepsK,
             ExecutesKeepsK, WriteTempKeepsK, RenameKeepsK, RestartKeepsK DEF Next
<1> QED BY <1>1, <1>2

LEMMA SecondInvariantHolds == Spec => [](IInv /\ KInv)
BY InitEstablishes, StepKeeps, InitEstablishesK, StepKeepsK, PTL DEF Spec

-----------------------------------------------------------------------------
(***************************************************************************)
(* Where the API module can be imported, localStorage is cleared only by   *)
(* the reply to mark_migration_complete, which the load effect invoked     *)
(* after its save had left a file.                                         *)
(***************************************************************************)
THEOREM MigrationRecorded == Spec => MigratedBeforeCleared
<1>1. IInv /\ KInv /\ [Next]_vars
        => [imports /\ localStorage # Null /\ localStorage' = Null => file # Null /\ migrated]_vars
  <2> SUFFICES ASSUME IInv, KInv, Next, imports, localStorage # Null, localStorage' = Null
               PROVE  file # Null /\ migrated
    BY DEF vars
  <2>1. CASE SaveTimer
    BY <2>1, Distinct DEF SaveTimer, SetItem, IInv, ValuesOK
  <2>2. ASSUME NEW r \in replies, SaveSettles(r) PROVE FALSE
    BY <2>2, Distinct DEF SaveSettles, SetItem, IInv, RepliesOK
  <2>3. ASSUME NEW r \in replies, LoadSettles(r) PROVE file # Null /\ migrated
    <3>1. r.ok /\ r.cmd = "mark_migration_complete"
      BY <2>3 DEF LoadSettles
    <3> QED BY <3>1 DEF KInv, StoredOK
  <2>4. localStorage' # localStorage
    OBVIOUS
  <2> QED BY <2>1, <2>2, <2>3, <2>4
          DEF Next, Create, Delete, ReturnsNull, Fails, Executes, WriteTemp, Rename, Reload, Crash,
              Mount, NewPage
<1> QED BY <1>1, SecondInvariantHolds, PTL DEF Spec, MigratedBeforeCleared

(***************************************************************************)
(* A conversation that a restart would bring back stays so until the user  *)
(* deletes it, for any number of conversations and of calls under way,     *)
(* whichever commands fail and however late they are answered, but for the *)
(* losses that LostOnlyBeforeLoading names.                                *)
(***************************************************************************)
THEOREM ConversationsSurvive == Spec => LostOnlyBeforeLoading
<1> DEFINE Raced == \/ Rename /\ Head(calls).blind
                    \/ /\ ~imports
                       /\ \E r \in replies :
                            \/ SaveSettles(r) /\ r.blind
                            \/ LoadSettles(r) /\ r.cmd = "mark_migration_complete"
<1>1. IInv /\ KInv /\ [Next]_vars
        => [Recoverable \ Recoverable' \subseteq deleted \union replaced \/ Raced]_vars
  <2> SUFFICES ASSUME IInv, KInv, Next, Recoverable' # Recoverable, ~Raced
               PROVE  Recoverable \ Recoverable' \subseteq Gone
    BY DEF vars, Gone
  <2>1. UNCHANGED platform
    BY DEF Next
  <2>2. CASE SaveTimer
    <3>1. ~isTauri
      BY <2>1, <2>2 DEF SaveTimer, backend, Recoverable, Stored, Backed, platform
    <3>2. (localStorage' = chat \/ localStorage' = localStorage) /\ chat # Null /\ loaded
      BY <2>2, <3>1, Distinct DEF SaveTimer, SetItem, IInv, ValuesOK, PlatformOK
    <3>3. Recoverable' = chat
      BY <2>1, <3>1, <3>2 DEF Recoverable, Stored, Backed, platform
    <3> QED BY <3>2, <3>3 DEF KInv, ChatOK
  <2>3. ASSUME NEW r \in replies, SaveSettles(r) PROVE Recoverable \ Recoverable' \subseteq Gone
    <3>1. /\ r.by = "save" /\ UNCHANGED file
          /\ UNCHANGED localStorage \/ (r.ok /\ localStorage' = r.state)
          /\ isTauri
      BY <2>3 DEF SaveSettles, SetItem, backend, IInv, PlatformOK
    <3>2. ~imports /\ localStorage' = r.state
      BY <2>1, <3>1 DEF Recoverable, Stored, Backed, KInv, StoredOK, platform
    <3>3. r \in Answers /\ ~r.blind
      BY <2>3, <3>1, <3>2 DEF Answers
    <3>4. Recoverable' = r.state
      BY <2>1, <3>1, <3>2, Distinct DEF Recoverable, Stored, Backed, IInv, RepliesOK, platform
    <3> QED BY <3>3, <3>4 DEF KInv, AnswersOK
  <2>4. ASSUME NEW r \in replies, LoadSettles(r) PROVE FALSE
    <3>1. UNCHANGED file /\ (UNCHANGED localStorage \/ (r.ok /\ r.cmd = "mark_migration_complete"))
      BY <2>4 DEF LoadSettles, backend
    <3>2. UNCHANGED localStorage \/ (imports => file # Null)
      BY <3>1 DEF KInv, StoredOK
    <3>3. imports \/ UNCHANGED localStorage
      BY <2>4, <3>1
    <3>4. isTauri
      BY DEF IInv, PlatformOK
    <3> QED BY <2>1, <3>1, <3>2, <3>3, <3>4 DEF Recoverable, Stored, Backed, platform
  <2>5. CASE Rename
    <3>1. /\ 1 \in Writes /\ file' = calls[1].state /\ file' \in State /\ ~calls[1].blind
          /\ isTauri /\ imports
      <4>1. calls # <<>> => Head(calls) = calls[1] /\ 1 \in DOMAIN calls /\ calls[1] \in Call
        BY DEF IInv, CallsOK
      <4> QED BY <2>5, <4>1 DEF Rename, Saving, Writes, IInv, WritingOK, Call, PlatformOK
    <3>2. Recoverable' = calls[1].state
      BY <2>1, <3>1, Distinct DEF Recoverable, Backed, platform
    <3> QED BY <3>1, <3>2 DEF KInv, SavesOK
  <2>6. CASE Create \/ Delete \/ ReturnsNull \/ Fails \/ Executes \/ WriteTemp \/ Reload \/ Crash
    <3>1. UNCHANGED <<file, localStorage>>
      BY <2>6 DEF Create, Delete, ReturnsNull, Fails, Executes, WriteTemp, Reload, Crash, Mount,
                  NewPage, backend
    <3> QED BY <2>1, <3>1 DEF Recoverable, Stored, Backed, platform
  <2> QED BY <2>2, <2>3, <2>4, <2>5, <2>6 DEF Next
<1> QED BY <1>1, SecondInvariantHolds, PTL DEF Spec, LostOnlyBeforeLoading

=============================================================================
