-------------------------- MODULE ChatPersistence --------------------------
(***************************************************************************)
(* How the chat reaches storage and comes back: the two effects of         *)
(* ChatProvider (ChatContext.tsx), invoke (tauri-adapter.ts), the commands *)
(* of the desktop backend (storage.rs), a page reload and a crash.         *)
(*                                                                         *)
(* In a browser, isTauri() being false, both effects use localStorage and  *)
(* finish in one step.  In the desktop shell each invoke is a message to   *)
(* the backend, which executes the commands one after the other, and a     *)
(* promise that settles later; between two awaits of one effect, the other *)
(* effect and the user go on.  If the shell's window cannot import the     *)
(* module @tauri-apps/api/core, every invoke resolves to null and nothing  *)
(* reaches the backend.                                                    *)
(*                                                                         *)
(* A chat state is abstracted to the set of ids of its conversations.      *)
(***************************************************************************)
EXTENDS Naturals, Sequences

CONSTANTS
  Null,      \* no file, no item in localStorage, a null reply
  Torn,      \* a file whose writing was cut off
  Platforms, \* the values of isTauri() that the behaviours are about
  Imports,   \* whether @tauri-apps/api/core can be imported, ditto
  StorageFull, \* localStorage.setItem may throw
  Failing,   \* the commands that may fail; one that main.rs does not register
             \* under the name the window invokes is one that always does
  Legacy,    \* what localStorage holds before the first start
  MaxConvs, MaxShellConvs, \* bounds: conversation ids generateId issues, in
             \* a browser and in the desktop shell
  MaxCalls   \* bound: no reload while more calls than this are queued

Commands == {"load_chat_state", "is_migration_complete",
             "save_chat_state", "mark_migration_complete"}

ASSUME PersistenceAssumption ==
  /\ Platforms \subseteq BOOLEAN /\ Imports \subseteq BOOLEAN /\ StorageFull \in BOOLEAN
  /\ Failing \subseteq Commands
  /\ MaxConvs \in Nat /\ MaxShellConvs \in 0..MaxConvs /\ MaxCalls \in Nat
  /\ Legacy = Null \/ Legacy \subseteq 1..MaxConvs
  /\ Torn # Null /\ \A S \in SUBSET (1..MaxConvs) : Null # S /\ Torn # S

VARIABLES
  isTauri,       \* fixed: in the desktop shell, or in a browser
  imports,       \* fixed: the shell's window can import the API module
  chat,          \* the conversations in memory
  unissued,      \* the ids generateId has yet to issue
  timer,         \* a debounced save of the current chat is pending
  loading,       \* the load effect awaits this command, or "done"
  calls,         \* invoked commands, oldest first
  replies,       \* settled promises whose continuation has not run
  writing,       \* save_chat_state: "no", "begun", "complete" (temp file)
  localStorage,  \* the item nnagent_chat_state
  file, temp,    \* chat_state.json, chat_state.json.tmp
  migrated,      \* .localStorage_migrated exists
  loaded,        \* history: the page's chat goes back to what was stored
  deleted,       \* history: what the user deleted
  replaced,      \* history: what LOAD_STATE dropped, made before the load
  saveFailed     \* history: the last save of what a restart reads failed

platform == <<isTauri, imports>>
window  == <<chat, unissued, timer, loading, loaded, deleted, replaced>>
backend == <<writing, file, temp, migrated>>
vars    == <<platform, window, calls, replies, backend, localStorage, saveFailed>>

-----------------------------------------------------------------------------
\* dispatch(LOAD_STATE): a new state object, so the save effect runs again.
Install(state) ==
  /\ chat' = state
  /\ timer' = TRUE
  /\ loaded' = TRUE
  /\ deleted' = deleted \ state
  /\ replaced' = (replaced \union chat) \ state

\* What a page does in its first effects.  In the browser it has the stored
\* chat before the debounce of the empty one can end.
Stored == IF localStorage = Null THEN {} ELSE localStorage

LoadCall == [cmd |-> "load_chat_state", by |-> "load", state |-> Null, blind |-> FALSE]

Init ==
  /\ isTauri \in Platforms /\ imports \in Imports
  /\ localStorage = Legacy
  /\ chat = IF isTauri THEN {} ELSE Stored
  /\ unissued = (1..(IF isTauri THEN MaxShellConvs ELSE MaxConvs)) \ Stored
  /\ timer = TRUE
  /\ loading = IF isTauri THEN "load_chat_state" ELSE "done"
  /\ calls = IF isTauri THEN <<LoadCall>> ELSE <<>>
  /\ replies = {}
  /\ writing = "no" /\ file = Null /\ temp = Null /\ migrated = FALSE
  /\ loaded = ~isTauri /\ deleted = {} /\ replaced = {} /\ saveFailed = FALSE

\* A save is blind if its page does not have the stored chat.
Invoke(cmd, by, state) ==
  calls' = Append(calls, [cmd |-> cmd, by |-> by, state |-> state,
                          blind |-> by = "save" /\ ~loaded])

\* The next page reads the state file; otherwise it reads localStorage.
Backed == isTauri /\ imports

\* localStorage.setItem, whose failure is caught and logged.
SetItem(state) ==
  \/ localStorage' = state /\ saveFailed' = (saveFailed /\ Backed)
  \/ StorageFull /\ UNCHANGED localStorage /\ saveFailed' = (saveFailed \/ ~Backed)

-----------------------------------------------------------------------------
(***************************************************************************)
(* The window.                                                             *)
(***************************************************************************)

\* Mutation: the save effect does not depend on the state.
CreateUnsaved ==
  /\ \E c \in unissued : chat' = chat \union {c} /\ unissued' = unissued \ {c}
  /\ UNCHANGED <<timer, loading, loaded, deleted, replaced>>
  /\ UNCHANGED <<calls, replies, backend, localStorage, saveFailed>>

Create ==
  /\ \E c \in unissued : chat' = chat \union {c} /\ unissued' = unissued \ {c}
  /\ timer' = TRUE
  /\ UNCHANGED <<loading, loaded, deleted, replaced>>
  /\ UNCHANGED <<calls, replies, backend, localStorage, saveFailed>>

Delete ==
  /\ \E c \in chat : chat' = chat \ {c} /\ deleted' = deleted \union {c}
  /\ timer' = TRUE
  /\ UNCHANGED <<unissued, loading, loaded, replaced>>
  /\ UNCHANGED <<calls, replies, backend, localStorage, saveFailed>>

\* The save effect, 500 ms after the last change of the state, whether or not
\* the load is answered by then.
SaveTimer ==
  /\ timer /\ timer' = FALSE
  /\ IF isTauri THEN /\ Invoke("save_chat_state", "save", chat)
                     /\ UNCHANGED <<localStorage, saveFailed>>
     ELSE SetItem(chat) /\ UNCHANGED calls
  /\ UNCHANGED <<chat, unissued, loading, loaded, deleted, replaced, replies, backend>>

\* Its continuation: only a save that did not fail reaches localStorage.
SaveSettles(r) ==
  /\ r.by = "save"
  /\ IF r.ok THEN SetItem(r.state) ELSE UNCHANGED <<localStorage, saveFailed>>
  /\ replies' = replies \ {r}
  /\ UNCHANGED <<window, calls, backend>>

\* The load effect goes on.  An error of the load itself becomes a state
\* change (SET_ERROR), an error of the migration is only logged.
LoadSettles(r) ==
  /\ r.by = "load"
  /\ replies' = replies \ {r}
  /\ \/ /\ ~r.ok
        /\ timer' = (timer \/ r.cmd = "load_chat_state" \/ r.cmd = "is_migration_complete")
        /\ loading' = "done"
        /\ UNCHANGED <<chat, loaded, deleted, replaced, calls, localStorage>>
     \/ /\ r.ok /\ r.cmd = "load_chat_state" /\ r.value # Null
        /\ IF r.value = Torn THEN timer' = TRUE /\ UNCHANGED <<chat, loaded, deleted, replaced>>
           ELSE Install(r.value)
        /\ loading' = "done"
        /\ UNCHANGED <<calls, localStorage>>
     \/ /\ r.ok /\ r.cmd = "load_chat_state" /\ r.value = Null
        /\ Invoke("is_migration_complete", "load", Null)
        /\ loading' = "is_migration_complete"
        /\ UNCHANGED <<chat, timer, loaded, deleted, replaced, localStorage>>
     \/ /\ r.ok /\ r.cmd = "is_migration_complete" /\ localStorage = Null
        /\ loading' = "done" /\ loaded' = TRUE
        /\ UNCHANGED <<chat, timer, deleted, replaced, calls, localStorage>>
     \/ /\ r.ok /\ r.cmd = "is_migration_complete" /\ localStorage # Null
        /\ Install(localStorage)
        /\ IF r.value = TRUE THEN loading' = "done" /\ UNCHANGED calls
           ELSE /\ Invoke("save_chat_state", "load", localStorage)
                /\ loading' = "save_chat_state"
        /\ UNCHANGED localStorage
     \/ /\ r.ok /\ r.cmd = "save_chat_state"
        /\ Invoke("mark_migration_complete", "load", Null)
        /\ loading' = "mark_migration_complete"
        /\ UNCHANGED <<chat, timer, loaded, deleted, replaced, localStorage>>
     \/ /\ r.ok /\ r.cmd = "mark_migration_complete"
        /\ localStorage' = Null
        /\ loading' = "done"
        /\ UNCHANGED <<chat, timer, loaded, deleted, replaced, calls>>
  /\ UNCHANGED <<unissued, backend, saveFailed>>

-----------------------------------------------------------------------------
(***************************************************************************)
(* The backend works on the oldest call.                                   *)
(***************************************************************************)

\* The promise of the oldest call settles, unless its page is gone.
Settle(ok, value) ==
  LET call == Head(calls) IN
  /\ calls' = Tail(calls)
  /\ replies' = IF call.by = "gone" THEN replies
                ELSE replies \union {[cmd |-> call.cmd, by |-> call.by, state |-> call.state,
                                      blind |-> call.blind, ok |-> ok, value |-> value]}

\* Without the API module the adapter resolves to null, one call after the
\* other, and its continuation runs before the next one settles.
ReturnsNull ==
  /\ ~imports /\ calls # <<>> /\ replies = {}
  /\ Settle(TRUE, Null)
  /\ UNCHANGED <<window, backend, localStorage, saveFailed>>

\* Mutation: the error is swallowed.
FailsSilently ==
  /\ imports /\ calls # <<>> /\ Head(calls).cmd \in Failing
  /\ Settle(TRUE, Null)
  /\ writing' = "no"
  /\ UNCHANGED <<window, file, temp, migrated, localStorage, saveFailed>>

\* The command returns an error, or there is none of that name.
Fails ==
  /\ imports /\ calls # <<>> /\ Head(calls).cmd \in Failing
  /\ Settle(FALSE, Null)
  /\ writing' = "no"
  /\ saveFailed' = (saveFailed \/ Head(calls).cmd = "save_chat_state")
  /\ UNCHANGED <<window, file, temp, migrated, localStorage>>

Executes ==
  /\ imports /\ calls # <<>>
  /\ \/ /\ Head(calls).cmd = "load_chat_state"
        /\ Settle(TRUE, file)
        /\ UNCHANGED migrated
     \/ /\ Head(calls).cmd = "is_migration_complete"
        /\ Settle(TRUE, migrated)
        /\ UNCHANGED migrated
     \/ /\ Head(calls).cmd = "mark_migration_complete"
        /\ Settle(TRUE, Null)
        /\ migrated' = TRUE
  /\ UNCHANGED <<window, writing, file, temp, localStorage, saveFailed>>

Saving == imports /\ calls # <<>> /\ Head(calls).cmd = "save_chat_state"

\* fs::write to the temporary file: created, then filled.
WriteTemp ==
  /\ Saving
  /\ \/ writing = "no" /\ writing' = "begun" /\ temp' = Torn
     \/ writing = "begun" /\ writing' = "complete" /\ temp' = Head(calls).state
  /\ UNCHANGED <<window, calls, replies, file, migrated, localStorage, saveFailed>>

\* Mutation: the state file is written in place.
RenameInPlace ==
  /\ Saving
  /\ \/ writing = "begun" /\ file' = Torn /\ UNCHANGED <<writing, calls, replies>>
     \/ /\ writing = "complete" /\ writing' = "no"
        /\ file' = Head(calls).state
        /\ Settle(TRUE, Null)
  /\ UNCHANGED <<window, temp, migrated, localStorage, saveFailed>>

Rename ==
  /\ Saving /\ writing = "complete"
  /\ writing' = "no"
  /\ file' = temp /\ temp' = Null
  /\ saveFailed' = FALSE
  /\ Settle(TRUE, Null)
  /\ UNCHANGED <<window, migrated, localStorage>>

-----------------------------------------------------------------------------
(***************************************************************************)
(* A new page mounts ChatProvider.  After a reload the backend still       *)
(* executes what was invoked before; a crash takes it down too.            *)
(***************************************************************************)

NewPage(state, pending) ==
  /\ chat' = state
  /\ timer' = TRUE
  /\ loading' = IF isTauri THEN "load_chat_state" ELSE "done"
  /\ loaded' = ~isTauri
  /\ calls' = IF isTauri THEN Append(pending, LoadCall) ELSE pending
  /\ replies' = {}
  /\ deleted' = deleted \ state
  /\ UNCHANGED <<unissued, replaced, localStorage, saveFailed>>

\* Mutation: the first state of the page is the empty one in a browser, too.
MountEmpty(pending) == NewPage({}, pending)

Mount(pending) == NewPage(IF isTauri THEN {} ELSE Stored, pending)

Reload ==
  /\ Len(calls) <= MaxCalls
  /\ Mount([i \in DOMAIN calls |-> [calls[i] EXCEPT !.by = "gone"]])
  /\ UNCHANGED backend

Crash ==
  /\ Mount(<<>>)
  /\ writing' = "no"
  /\ UNCHANGED <<file, temp, migrated>>

Restart == Reload \/ Crash

Next ==
  /\ UNCHANGED platform
  /\ \/ Create \/ Delete \/ SaveTimer
     \/ \E r \in replies : SaveSettles(r) \/ LoadSettles(r)
     \/ ReturnsNull \/ Fails \/ Executes \/ WriteTemp \/ Rename
     \/ Reload \/ Crash

\* Timers fire, the backend works off its calls, continuations run.
Fairness ==
  /\ WF_vars(SaveTimer /\ UNCHANGED platform)
  /\ WF_vars((ReturnsNull \/ Fails \/ Executes \/ WriteTemp \/ Rename) /\ UNCHANGED platform)
  /\ WF_vars(\E r \in replies : (SaveSettles(r) \/ LoadSettles(r)) /\ UNCHANGED platform)

Spec == Init /\ [][Next]_vars /\ Fairness

-----------------------------------------------------------------------------
(***************************************************************************)
(* Properties.                                                             *)
(***************************************************************************)

\* The conversations the next page would start with.
Recoverable ==
  IF ~Backed \/ file = Null THEN Stored ELSE IF file = Torn THEN {} ELSE file

State == SUBSET (1..MaxConvs)

\* The type of the state.  The state file is complete whenever it exists,
\* through every crash, and the load effect awaits one promise at a time.
TypeOK ==
  /\ chat \in State /\ unissued \in State /\ deleted \in State /\ replaced \in State
  /\ timer \in BOOLEAN /\ loaded \in BOOLEAN /\ migrated \in BOOLEAN /\ saveFailed \in BOOLEAN
  /\ writing \in {"no", "begun", "complete"}
  /\ localStorage \in State \union {Null}
  /\ file # Torn /\ file \in State \union {Null}
  /\ temp \in State \union {Null, Torn}
  /\ loading \in Commands \union {"done"}
  /\ {i \in DOMAIN calls : calls[i].by = "load"} \X {r \in replies : r.by = "load"} = {}
  /\ \A i, j \in DOMAIN calls : calls[i].by = "load" /\ calls[j].by = "load" => i = j
  /\ \A i \in DOMAIN calls : calls[i].by = "load" => calls[i].cmd = loading
  /\ \A r \in replies : r.by = "load" => r.cmd = loading

\* A conversation that a restart would bring back stays so, through failing
\* commands, reloads and crashes, until the user deletes it.  It is lost only
\* by the race of the save with the load: a save takes effect whose page does
\* not have the stored chat yet, or never got it, or the load drops what was
\* made before its answer; and in a shell without the API module by the
\* migration, which clears localStorage before the next save fills it again.
LostOnlyBeforeLoading ==
  [][\/ Recoverable \ Recoverable' \subseteq deleted \union replaced
     \/ Rename /\ Head(calls).blind
     \/ /\ ~imports
        /\ \E r \in replies :
             \/ SaveSettles(r) /\ r.blind
             \/ LoadSettles(r) /\ r.cmd = "mark_migration_complete"]_vars

\* localStorage is given up only when the file storage holds a chat and the
\* migration is recorded there, whichever of the commands fails, if the window
\* can reach the commands at all.
MigratedBeforeCleared ==
  [][imports /\ localStorage # Null /\ localStorage' = Null => file # Null /\ migrated]_vars

\* "Migrate: save to file storage and clear localStorage" (ChatContext.tsx:543):
\* localStorage is cleared only after the chat was saved to file storage.
ClearedOnlyWhenSaved == [][localStorage # Null /\ localStorage' = Null => file # Null]_vars

\* Once edits and restarts cease, what the user sees is what the next page
\* would start with, unless the last save failed, for nothing retries it, or,
\* in a shell without the API module, the migration cleared localStorage after
\* the last save.
EventuallySaved ==
  <>[][~(Create \/ Delete \/ Restart)]_vars
    => <>[](Recoverable = chat \/ saveFailed \/ (~imports /\ localStorage = Null))

\* In a browser the page and localStorage behave as the user is promised.
Durable == INSTANCE DurableChat WITH Conversation <- 1..MaxConvs,
                                     chat  <- IF isTauri THEN {} ELSE chat,
                                     saved <- IF isTauri THEN {} ELSE Stored
ImplementsDurableChat == Durable!DSafety

=============================================================================
