# A verification project for NNSpire and NNAgent

TLA+ models, TLC runs and TLAPS proofs about the two programs of this
repository: **NNSpire** (`src/nnspire`), a C++ library that trains neural
networks, and **NNAgent** (`src/nnagent`), a chat client (React, with a Tauri
desktop shell).  Paths below are relative to the repository.

## 1. The system

### NNAgent

| Component | Code | State | Operations | Hard behaviour |
|---|---|---|---|---|
| chat store | `context/ChatContext.tsx` `chatReducer` | conversations, folders, the active conversation | ~30 actions, single and bulk | ids of things deleted meanwhile; two implementations (single, bulk) of one rule |
| sidebar | `components/chat/ConversationSidebar.tsx` | selected folder, clipboard, delete dialog, drag | keyboard and mouse handlers, context menu, import | handlers are closures over an older render; ids outlive what they name |
| chat window | `components/chat/ChatWindow.tsx` | `isResponding` | send, choose a model | everything may change while an answer is awaited |
| persistence | effects of `ChatProvider`, `tauri-adapter.ts`, `storage.rs`, `main.rs` | debounce timer, pending invokes, `localStorage`, state file, migration mark | load effect, save effect, five commands | two concurrent effects, failing and late invokes, reload, crash |
| import, export, rendering | `utils/*.ts`, the other components | none of their own | conversions, display | - |

The sidebar and the window dispatch actions to the store; each change of the
store starts the save effect; the load effect replaces the store's state once
per page.  Effects and backend talk through `invoke`, a message to the backend
and a promise that settles later.

### NNSpire

| Component | Code | State | Operations | Hard behaviour |
|---|---|---|---|---|
| training loop | `Trainer.cpp`, `EarlyStopping.h` | loop counters, `globalStep_`, gradients, best loss, patience | `trainStep`, `trainEpoch`, `train`, `predict`, callbacks | a batch that fails half-way; a stop that has to pass two loops |
| checkpoints | `Checkpoint.cpp`, `Optimizers.cpp` | the file; optimizer state keyed by buffer address | `save`, `load` | crash while writing; buffers freed and reused by the allocator |
| compute graph | `ComputeGraph.cpp` | tape, node values, traces, each layer's last input and gradients | `record`, `build`, `forward`, `backward`, `toJson`, `fromJson` | layers that fail; stale inputs, traces and gradients |
| layers and losses | `Layer.cpp`, `builtin/layers`, `functional`, `losses` | weights, dimensions stored by `build`, tensors saved by `forward`, gradients, the mode | `build`, `forward`, `backward`, `setTraining` | `backward` derives its offsets again from what two earlier calls left; hand-written index arithmetic; models built again |
| tensors and backends | `Tensor.h`, `Tensor.cpp`, `CpuBackend.cpp`, `BackendRegistry.h` | shape and buffer, active backend | transpose, matmul, reshape, reductions, concatenation | offsets by strides of shapes with dropped, inferred and unit dimensions; a pointer to a replaced backend |
| plugins and trust | `PluginLoader.cpp`, `plugin-api/trust` | open libraries, CA store | `load`, `unload`, `verify`, `applyTup` | failure between steps, updates applied in part |
| plugin signing tool | `tools/sign/main.cpp` | key, certificate, sidecar and packet files | `keygen`, `issue-enterprise-ca`, `sign`, `verify`, `create-tup` | files of earlier calls that no longer belong together; options and operands told apart by order |
| plugin manifest | `PluginManifest.cpp`, `plugin_manifest.py` | none | two loaders of one format | hand-written search for keys in JSON text; two implementations of one rule |
| tokenizer plugin | `BpeTokenizerPlugin.cpp` | the rule table | `encode`, `decode` | the best pair has to be found anew after each merge |
| Python bridge | `python-bridge/` | Keras-style model and callbacks; clients of five inference servers | `compile`, `fit`, `predict`; `connect`, `load_model`, `infer`, `model_info` | callbacks reused, losses that are not numbers; servers that come and go, flags from earlier connections |
| compatibility checker | `CompatibilityChecker.cpp` | none | table lookup | - |

A Trainer drives one model (a ComputeGraph or Sequential of layers), one loss
and one optimizer; a checkpoint reads and replaces the parameters' tensors and
the optimizer's state.  The signing tool writes the certificates, sidecars and
packets that the trust store and the verifier read; the plugin loader asks the
verifier before it opens a library that its manifest describes.

What makes each component correct, in a sentence: the folders are a forest and
everything that exists can be reached; the active conversation exists; an
answer ends up behind its question; what a restart would bring back is lost
only by deletion (and by the races named below); an update uses its own batch's gradient; a resumed run is the
run that was saved; backward uses the inputs of the forward before it; a layer's
backward is the adjoint of its forward, every element of what `build` announced
is computed, and an answer for a sample or a position uses no other sample and
no later position; a tensor's buffer holds its elements where the strides say;
each library and instance has one owner; a CA is there once and a revocation
stands; what verifies is what was signed with the key the certificate names;
both manifest loaders read one document alike; encoding is byte-pair encoding; a fit stops exactly
when it has stalled; a client answers from the server it is connected to.

`PROJECT.json` lists every component with its status, and under "hazards"
the places in the code where these properties are at risk.

## 2. The modules

| Module | Models | State and actions in terms of the code |
|---|---|---|
| `ChatReducer` | `chatReducer` | No variables: one operator per action of the reducer, from state to state. `convs` and `folders` are functions from ids to records; creation order is the order of ids, since `createConversation` and the paste are the only places that dispatch a creation and each takes a new id. Also the predicates over states that the other chat modules share. |
| `ChatStore` | the reducer behind any dispatcher | Each action dispatches one reducer action, with ids that are, were or never became a conversation. |
| `ChatSidebar` | the sidebar over the reducer | One action per handler. `drag.seen` is the chat state that the mouseup closure captured at mousedown. Ids are not reused, as `generateId` does not. |
| `ChatWindow` | sending and answering | `HandleSend` is `handleSend` up to its `await`, `Receive` what follows; `responses` is what the closures captured. Other actions are what the user may do meanwhile. |
| `ChatPersistence` | effects, IPC, backend, disk | `calls` are the invokes the backend has not finished, `replies` the settled promises whose continuation has not run; the backend writes a temporary file in two steps and renames it. `Reload` and `Crash` may happen in every state. `isTauri` and `imports` are chosen at the start: browser or shell, and whether the shell's window can import the API module; without it every invoke resolves to null (`ReturnsNull`). `Failing` are the commands that may fail, `StorageFull` says that `setItem` may. |
| `DurableChat` | abstract | What the user is promised: a chat in memory, a saved one, saving and restarting. |
| `Trainer` | training loop and early stopping | One action per batch: `trainStep`, the callbacks and the loop test. A gradient is the set of `trainStep` calls that contributed to it, a mean loss a fraction. |
| `Checkpoint` | save, load, optimizer state | A weight or moment is the step of the one uninterrupted run that produced it, or `Off`. A file is what was to be written and how many of its fields reached the disk. `Addresses` are the buffers the allocator may hand out. |
| `Keras` | `Model.fit` with `EarlyStopping` and `ModelCheckpoint` | An epoch is one action, drawn with its losses (NaN included); callbacks are objects that outlive a fit; any pass may raise. |
| `Runners` | the five inference clients | `client` is the object with its flags and handles, `server` and `shelf` are the state and the models of each endpoint, `libs` the optional libraries installed; an HTTP exchange is the reply it gets, and a class the table of what its methods make of each reply. `Change` lets a server stop, start, fail, stand behind a proxy, or gain and lose models between calls; `loaded` records which model was reported as loaded and what answered. |
| `MCTraining` | the four above for TLC | |
| `ComputeGraph` | recording, passes, traces, JSON | A tensor is how it was computed: the pass it stems from and the layers it went through. Every layer may fail in `build`, `forward` and `backward`. |
| `LayerKernels` | the loops of nine kinds of layers | No variables. `forward` and `backward` of a layer are sets of edges <<to, from, factors>>: element `to` receives element `from` times the factors. `build` says what is stored, announced or refused. |
| `Attention` | multi-head attention | The same for projection, split into heads, scores, mask, softmax and merge. |
| `Layers` | a Sequential over them | `net` is what each layer has built and saved, `fwd` and `bwd` the composed edges of the last passes, `paramGrads` who contributed to a weight's gradient. Actions are `BuildModel`, `ForwardPass`, `BackwardPass`, `SetTraining`, `ZeroGrad` in any order. |
| `TensorOps`, `Tensors` | the shape operations and the CPU backend's loops | `TensorOps` gives for each operation which offset reads which; `Tensors` is a program that computes with one tensor, `buf` as the code addresses it and `array` the same without strides. |
| `MCEngine` | the graph, the layers and the tensors for TLC | |
| `TrustStore` | CA store, `.nnts` file, update packets | An update is a fold of its actions; `file` is what `save` was to write and how many fields reached the disk, which `load` reads round by round (`ReadEntry`); `lastApplied` lives in the handler; a level is any number, as the code takes any u32. `revokedAt` and `forgotten` are history. |
| `PluginLoader` | `load`, `LoadedPlugin` | Every `dlopen` that succeeds is a reference of its own; `plugins` are the program's `LoadedPlugin` objects, loads, moves, `unload` and destructors what happens to them. |
| `Plugins` | a process with both | The level of a plugin is what `TrustVerifier.verify` answers from the store of the moment; `Restart` ends the process, also in the middle of a save. |
| `Signing` | the signing tool, with the readers of its files | A key is a number, a certificate the key it certifies, two names and the key it was signed with, a signature what was signed and with which key. One action per subcommand, with the points where it may end early or leave a file cut. |
| `Manifests` | both manifest loaders | A manifest is a correct document with up to `MaxEdits` edits: a field absent, empty, off its pattern, with an escape, no string; a key or a language that the text has somewhere else, too. `Cpp` and `Py` give what each loader makes of it. |
| `Tokenizer` | `bpeWord`, `encode`, `decode` | Texts and symbols are sequences of characters. `Merges` are the rules in use: all of `kMerges` in the program, 15 of its 63 for TLC. `bpeWord` merges the first best-ranked pair again and again; the reference applies the rules one after the other. |
| `MCPlugins` | the components around plugins for TLC | |
| `ChatSidebar_proofs`, `ChatStore_proofs`, `ChatWindow_proofs`, `ChatPersistence_proofs`, `Training_proofs`, `Engine_proofs`, `Plugins_proofs` | proofs | Section 5. `Training_proofs` is about the four components of `MCTraining` and about `Tensors`, `Engine_proofs` about `ComputeGraph` and `Layers`, `Plugins_proofs` about `Plugins`, `Manifests` and `Tokenizer`. |
| `DataInduction` | proofs | Induction over intervals, finite sets and the steps of a fold; what the folds of `TensorOps` come to. |

In `MCTraining`, `MCEngine` and `MCPlugins` the variable `which` says which
component a behaviour is of.  These components share no state, so nothing is
lost by not interleaving them; `Plugins` composes the two that do.  `MCPlugins`
takes the store and the loader once with nothing loaded and once with nothing
saved, because the loader reads the store and never its file; the theorems are
about their product.

`ChatSidebar`, `ChatStore` and `ChatWindow` extend `ChatReducer`, so that one
translation of the reducer is checked under three kinds of dispatcher.
`ChatPersistence` instantiates `DurableChat` with a refinement mapping.

Definitions whose comment begins with "Mutation" are not part of the
specifications.  Each is a plausible mistake in one definition (a missing
guard, an index off by one, a reset forgotten), kept beside it to show that a
property would notice: put in the place of the original, TLC finds the property
violated.  `PROJECT.json` says which mutation goes with which property.

### Abstractions worth knowing

- Names, texts, times and layout are left out, and titles are `generic`,
  `auto` or `user`.
- A drop of the mouse may hit any item that the sidebar renders.  The expand
  state is not modelled; what can be rendered can be reached.
- `ChatPersistence` reduces a chat state to the set of its conversation ids.
- The desktop shell is modelled with what its window may find: the API module
  or none, commands that work or fail.  At this commit `tauri.conf.json` does
  not set `withGlobalTauri`, so that `isTauri()` is false and the shell behaves
  like a browser; the package `@tauri-apps/api` is no dependency of the web
  client, so that with `isTauri()` true every invoke resolves to null
  (`imports = FALSE`); and the names of the commands differ, so that with the
  package installed every invoke rejects (all four commands in `Failing`).  Each
  of these, and the shell as it is meant, is a case of run `Persist`.
- In the browser the effects are synchronous with `localStorage`; there the
  first render already holds the stored chat when the debounce of the empty
  one could end.
- Losses are small naturals; in `Keras` NaN and infinity are integers above
  them, with comparisons that treat them as Python does.  Floating-point
  rounding is not modelled.
- `ComputeGraph` is driven as the Trainer drives it: backward only after a
  forward that succeeded, one `input()`, each layer recorded once.
- Layers do no arithmetic.  An edge names its factors (a weight, the derivative
  at a saved element, a mask) but drops constant ones such as 1/n or the
  attention's scale; sums are sets of edges, so that an element that is left
  out, added twice from different places or taken from the wrong place shows,
  and a wrong constant does not.
- Tensors are sets of labels: an element is what was added up in it.
- Text of a manifest is modelled as far as the two loaders can tell documents
  apart: where the first occurrence of a quoted key or language is, and which of
  six forms a value has.
- Cryptography is ideal: a signature verifies with the key that made it and
  for what was signed.
- A build ends the pass of a Sequential: `Layers` has no build between a forward
  and its backward, as `Sequential` and `ComputeGraph` build before they run
  (`ComputeGraph.cpp:74`) and nothing in the repository builds in between.

## 3. The runs

Passing runs:

| Run | What it asks | Bounds and why they are enough |
|---|---|---|
| `ChatSidebar` | Does any order of handlers make the folder tree cyclic, leave a deleted conversation active, lose or hide a conversation? | 2 conversations, 3 folders: the smallest forest in which a drag with an outdated view could close a cycle through a third folder. |
| `ChatStore` | Are message ids distinct, is a bulk action its single action repeated in any order (the next active conversation included), does a deleted conversation stay deleted? | 3 conversations, one of which may be edited, 2 messages, one tag and model: after a bulk deletion there is still a choice of the next active conversation, and any order of the single deletions passes through other choices. |
| `ChatWindow` | Where do answers end up, and does the input always come back? | 3 conversations and 3 messages: two questions and an answer, with a pasted copy in between. |
| `Persist` | In a browser: is the durable chat implemented? In the shell, with or without the API module, with every command failing or not, a full `localStorage`, loads answered early or late, reload and crash at every step: by what is something lost that a restart would bring back, is `localStorage` given up only after the migration, is the chat saved in the end unless its last save failed? | 4 conversations in the browser, 2 in the shell, one stored before the first start; no reload with more than 2 calls queued, so up to four commands of several page generations wait at once. |
| `Training` | Does an update use only its own batch's gradient, is the best loss the best? Is a resumed run the run, whatever addresses the allocator reuses and wherever the file was cut; are weights loaded all or not at all? Does a fit stop exactly when it has stalled, is the saved epoch the best? Does a client answer from the endpoint it is connected to, and is a model it reports as loaded on a server's word served? | Trainer: 2 epochs of 2 batches, patience 2, losses 1, 3, 4 with `minDelta` 1 (improvements below, at and above the threshold), up to 8 batches over two or more `train()` calls. Checkpoint: 2 parameters, 3 symmetric addresses (a loaded tensor may take the place freed by the one before), 2 steps. Keras: 3 losses and NaN, 4 epochs, 2 fits with the same callbacks. Runners: 5 classes, 2 endpoints and a malformed one, 1 model in 2 versions, 2 changes of a server. |
| `Engine` | After a training step, has each layer of a graph exactly this pass's gradient through the later layers? Do traces belong to one pass? Are node ids ordered after a trip through JSON? Is each layer's backward the adjoint of its forward, is every announced output computed, does an answer depend on its own sample and its past alone, does building again keep weights? Does a buffer hold its elements where the strides say? | Graph: 3 layers, 3 passes (a failed pass between two others). Layers: seven models with every kind of layer, among them a convolution of 2 filters with padding and a stride that does not divide, rebuilt for another image, and a causal attention of 2 heads; batches of 1 and 2; builds, passes and mode switches in any order within 2 passes and 2 initialisations. Tensors: up to 8 elements in up to 3 dimensions, unit dimensions included, 4 operations in a row. |
| `Plugins` | After packets that succeed, fail half-way, repeat or come out of order, cut saves, loads and restarts: is each CA there once, does a revocation stand, is a load all or nothing? Has every open library and instance one owner? Has a file a level exactly if it was signed and not built since? Do the two manifest loaders agree? Is encoding byte-pair encoding? | Store: 2 CAs, levels 0 (which an untrusted plugin has) and 7 (of no name), packets of 2 actions dated 0 to 2 (an old one, an equal one and a newer one; an action that fails behind one that was applied), files cut at every field. Loader: 2 objects and 3 references (both full and a load on top). Signing: 1 prefix whose files are overwritten, 2 keys, 1 signature that may be cut anywhere (a second one replaces sidecar and record), 1 rebuild, 2 seconds. Manifests: 2 edits of a good plugin manifest or update manifest (a fault and something that hides it). Tokenizer: every text of up to 5 letters out of six that take part in overlapping merges, with the 15 rules that such letters and "d" can take part in. |

Deadlock is checked in the four chat runs: these systems never stop.  In
`Training`, `Engine` and `Plugins` behaviours end at their bounds, so the
configurations switch it off.

Violation runs, each a disagreement between the code and one of its comments or
documents:

| Run | Property | What happens |
|---|---|---|
| `SidebarOrphans` | `FoldersStayRendered` | Deleting a folder leaves its child folders pointing at it; nothing renders them. |
| `PersistUnimported` | `ClearedOnlyWhenSaved` | Without the API module save and mark resolve to null; the migration goes on and clears `localStorage` with nothing on the disk. |
| `TrainerStop` | `StopEndsTraining` | `shouldStop` ends the epoch; `train()` goes on with the next one. |
| `LayersEval` | `EvalIgnoresTheBatch` | `BatchNorm1d` keeps running statistics "for use in eval mode" and never uses them: in eval mode, too, a sample's answer depends on its batch. |
| `Signing` | `SignsThePlugin` | `sign --key k.pem ... plugin.so`, the order of the usage line, takes `k.pem` for the plugin. |

### Further divergences, seen while modelling and not run

Chat:

- `handleDeleteFolder` keeps `selectedFolderId`, so "+ New" puts a conversation
  into the deleted folder (`ConversationSidebar.tsx:756` and `:1215`).
- The first message replaces a title the user gave an empty conversation
  (`ChatContext.tsx:121`: "if title is generic").
- A failing `save_chat_state` skips the line that is to keep `localStorage` "always
  in sync" (`ChatContext.tsx:579`, `:584`), and nothing retries it.
- A load that fails, or that is answered after the 500 ms debounce, is
  accompanied by a save of the empty chat of the new page
  (`ChatContext.tsx:562`, `:575`); a late `LOAD_STATE` replaces what the user did
  before it (`:283`).  `LostOnlyBeforeLoading` names these as the ways in which
  the chat can be lost.
- `main.rs:42` registers `cmd_save_chat_state` and its like, the window invokes
  `save_chat_state`; `docs/nnagent-TODO.md:114` calls the command done.

Training and checkpoints:

- Early stopping counts batches where it documents epochs
  (`EarlyStopping.h:6`, `Trainer.cpp:110`).
- SGD does not save its velocities; a file cut behind its header or its weights
  loads successfully without updating the counters, or with a counter read in
  part; skipping the section of an SGD optimizer loses the counters; nothing
  sets the `globalStep_` of a Trainer that resumes (`Checkpoint.h:45`, `:71`,
  `:118`).
- `save` tests its stream before the destructor flushes it, and truncates the
  previous checkpoint before it writes (`Checkpoint.cpp:64`, `:96`).
- A process that goes back to a checkpoint without optimizer state trains on
  with the moments of freed buffers whose addresses the new tensors take
  (`Optimizers.cpp:183`; `Checkpoint.h:45`: "exact resume").
- In the Python package NaN counts as the best loss for `ModelCheckpoint`, a
  `predict` that raises leaves the model in eval mode, validation runs in train
  mode, and an `EarlyStopping` that stopped one fit ends the next after an epoch
  unless `reset()`.

Layers and tensors:

- `traces()` is documented as empty without trace mode
  (`ComputeGraph.h:165`), but `setTraceMode(false)` keeps the last ones.
- `Dense.build` repeated reports one dimension and ignores a shape that does not
  fit the weights it has; `Conv2D.build` stores dimensions before the check that
  refuses them, and a refused shape repeated is accepted; its truncating
  division accepts a kernel larger than the padded image when the stride is
  above 1.
- `Dropout.backward` asks for the mode of the moment instead of forward's;
  `Embedding` saves its indices before it checks their range; the dropout of
  `MultiHeadAttention` is never applied.
- Softmax and `LayerNorm` work on two-dimensional input; on three dimensions
  they process the first rows only (`Functors.h:70`, `Activations.h:118`: "last
  dim").
- `sum` over the only dimension without `keepdim` aborts; `reshape` with -1
  beside a 0 divides by zero; `transpose` copies where `Tensor.h:195` says that
  buffers are shared.
- Registering a backend under the name of the active one frees the object
  `active_` points to (`BackendRegistry.cpp:19`).

Plugins:

- Two promises about certificates are not kept.  `TrustVerifier.h:28-29`: the
  chain from the sidecar's certificate over the CA to the root is to be built
  and checked for issuer, dates and key usage; `verifyCertChain` finds the CA by
  name (`TrustVerifier.cpp:139`), so that a certificate signed with any key has the
  level of the CA it names as its issuer.  `TrustStore.h:90`: `load`
  "verifies the store's root-CA signature"; it reads none, and `save` writes none
  (the TODOs at `TrustStore.cpp:153` and `:183`).
- A packet whose later action fails stays applied in part, and cannot be
  repeated once a revocation in it was done (`TrustUpdateHandler.cpp:101`).
  Levels are any u32 of a packet or a file (`TrustUpdateHandler.cpp:70`,
  `TrustStore.cpp:140`), where `TrustStore.h:66` says "Enterprise or Community";
  the two file formats document level 1 as Enterprise (`TrustStore.h:31`), the
  enum has Community = 1 (`TrustStore.h:60`).
- The header says that the store records the time of the last packet
  (`TrustUpdateHandler.h:34`); the handler does, and neither a new handler nor a
  new process knows it: both apply older packets, the ones before a revocation
  included.
- `save` truncates the store before it writes it: a crash leaves a file that does
  not load, and the store that was there is gone (`TrustStore.cpp:191`).
- `kRootCaPubKeyDer` is `static` in `TrustStore.cpp` and `extern` in
  `TrustUpdateHandler.cpp`: a program that uses the handler does not link.  The
  model takes one constant for both.
- `keygen` over an old prefix that fails at the certificate leaves a key beside
  the certificate of another; a sidecar cut by a full disk leaves the command with status 0; of two
  packets made in the same second the second one is rejected; `create-tup` takes
  the level of a CA from its common name.
- `plugin_manifest.py:4` promises "the same rules as the C++ ManifestLoader";
  they differ, as `Manifests` shows: Python asks for the
  patterns of `id` and `version`, for digits between the dots of
  `minStudioVersion`, for small letters in `sha256`, for an artifact of every
  implementation and for well-formed lists of certificates, C++ does not; C++
  drops the backslash of an escape, passes over what is no string, reads
  `manifestVersion` 1.5 as 1, refuses `true`, and takes a key, a language or a
  flag where its text stands first or with one space behind the colon.
  `PluginManifest.cpp:330` says of `addCerts` and `revokeCerts` that they are
  validated for presence; they are not.
- A word ends behind its space, so none of the tokenizer's rules that begin with
  a space ever applies (`BpeTokenizerPlugin.cpp:205`: "keep the space prefix").
- The example in `runners/__init__.py:19` never calls `connect()`, so its
  `infer` raises; `load_model` succeeds without the client library, with
  HTTP status 500 or a proxy's page and for a version that is missing, where
  `base.py:127` promises an error "if the model is not available";
  `model_info` of the HTTP clients takes an error with a JSON
  body for a model that is READY; a second `connect` leaks the first client; the
  ONNX client keeps its sessions when it is connected to another directory, and
  looks for them without the version.

Where a divergence affects a passing run, the property names the exception: two
in `HiddenOnlyByDeletedFolder`, `fromZero` in `ResumesTheRun`, the blind saves,
the late load and the migration without the module in `LostOnlyBeforeLoading`,
`saveFailed` and the same migration in `EventuallySaved`, `forgotten` in
`RevocationStands`, NaN in `SavedIsBest`, a new or reset callback in
`StopsWhenStalled`, the documents outside `Plain` and `InForm` in
`ManifestsAgree`, loads answered by a server that was not up or had no list and
versions of their own in `LoadedIsServed`, models with `BatchNorm1d` in
`OnlyOwnSampleAndPast`, and a switch of the mode between the forward and the
backward pass in `GradientsAreAdjoint`.

## 4. Fairness

Only `ChatPersistence` and `ChatWindow` claim liveness.

- `ChatPersistence`: weak fairness of the timer, of the backend and of
  continuations.  Browsers run due timers and settled promises, and the backend
  works off its queue.  Users, reloads and crashes have no fairness;
  `EventuallySaved` asks what happens once they cease.
- `ChatWindow`: weak fairness of `Receive`.  The answer is a timer in the page
  with a `try`/`finally` around it, which the page runs unless it is left.

The library, the tools and the Python clients do what they are called for and
return; nothing in them runs by itself, so that there is no scheduling to assume
and no liveness to claim.

## 5. What is proved

For every value of the constants, by TLAPS:

| Theorem | Statement |
|---|---|
| `ChatSidebar_proofs!TypeCorrect` | `Spec => []TypeOK` |
| `ChatSidebar_proofs!FoldersFormForest` | `Spec => []FolderForest` |
| `ChatSidebar_proofs!ActiveExists` | `Spec => []ActiveConversationExists` |
| `ChatSidebar_proofs!ConversationsKept` | `Spec => NoConversationLost` |
| `ChatSidebar_proofs!HiddenOnlyWithFolders` | `Spec => HiddenOnlyByDeletedFolder` |
| `ChatStore_proofs!MessagesDistinct` | `Spec => []MessageIdsDistinct` |
| `ChatStore_proofs!DeletionIsFinal` | `Spec => DeletedStaysDeleted` |
| `ChatStore_proofs!BulkRepeats` | `Spec => []BulkIsRepeated` |
| `ChatWindow_proofs!AnswersInPlace` | `Spec => []AnswersFollowQuestions` |
| `ChatWindow_proofs!LateAnswersDropped` | `Spec => LateAnswerDropped` |
| `ChatPersistence_proofs!StateFileComplete` | `Spec => []TypeOK` |
| `ChatPersistence_proofs!BrowserIsDurable` | `Spec => ImplementsDurableChat` |
| `ChatPersistence_proofs!MigrationRecorded` | `Spec => MigratedBeforeCleared` |
| `ChatPersistence_proofs!ConversationsSurvive` | `Spec => LostOnlyBeforeLoading` |
| `Training_proofs!UpdatesUseOwnGradients` | `TrainerSpec => []OwnGradientsOnly` |
| `Training_proofs!BestUndercutByNone` | `TrainerSpec => []BestIsBest` |
| `Training_proofs!NoMixedWeights` | `CheckpointSpec => WeightsAllOrNothing` |
| `Training_proofs!AdamResumes` | `Kind = "Adam" => (CheckpointSpec => []ResumesTheRun)` |
| `Training_proofs!StopsExactlyWhenStalled` | `KerasSpec => []StopsWhenStalled` |
| `Training_proofs!SavedEpochIsBest` | `KerasSpec => []SavedIsBest` |
| `Training_proofs!AnswersComeFromTargets` | `RunnersSpec => []AnswersFromTheEndpoint` |
| `Training_proofs!LoadedModelsAnswer` | `RunnersSpec => []LoadedIsServed` |
| `Training_proofs!BufferHoldsTheArray` | `TensorSpec => []BufferIsArray` |
| `Engine_proofs!IdsOrdered` | `Spec => []NodeIdsOrdered` |
| `Engine_proofs!OwnPassGradients` | `Chain => (Spec => []GradientsOfThisPass)` |
| `Engine_proofs!OnePassTraced` | `Chain => (Spec => []TracesOfOnePass)` |
| `Engine_proofs!RebuildKept` | `LayersSpec => RebuildKeepsWeights` |
| `Engine_proofs!BackwardIsGradient` | `LayersSpec => []GradientsAreAdjoint` |
| `Engine_proofs!ResultsComeFromOwnSampleAndPast` | `LayersSpec => []OnlyOwnSampleAndPast`, if every model `StaysCausal` |
| `Engine_proofs!PassComputesWhatBuildAnnounced` | `LayersSpec => []EveryOutputComputed`, if every model `ComputesAll` |
| `Plugins_proofs!PluginsTyped` | `Spec => []TypeOK` |
| `Plugins_proofs!PluginsOwnedOnce` | `Spec => []OwnedOnce` |
| `Plugins_proofs!OneEntryPerDN` | `Spec => []DNsDistinct` |
| `Plugins_proofs!RevokedStaysOut` | `Spec => []RevocationStands` |
| `Plugins_proofs!LoadsAllOrNothing` | `Spec => LoadAllOrNothing` |
| `Plugins_proofs!LoadersAgree` | `ManifestsSpec => []ManifestsAgree` |
| `Plugins_proofs!EncodesAsTrained` | `TokenizerSpec => []EncodesLikeBpe` |

*Sidebar.*  A forest is stated without paths: no non-empty set of folders
holds the parents of all its members.  `FolderForest` alone is not inductive, because a step
preserves it only if the new parent is no descendant of the folder moved, and
because a folder must not get an id under which something already hangs (a
deleted folder's children still name it).  So
the invariant `IInv` joins it with `TypeOK` (ids in use were issued, also those
of deleted things that something remembers) and `ActiveConversationExists`.
The proof has one lemma per reducer action (what it does to the type, the
forest and the active id), and one per handler on top of them.  The drop of a
drag needs no assumption about what its closure saw, because `MOVE_FOLDER`
tests descendants again in the reducer: this is what keeps the tree acyclic.
For `HiddenOnlyByDeletedFolder` a conversation is followed up its path: a step
that hides it changes the parent of a folder on the path or the conversation's
own, and what a drop can hit is rendered in the view the closure captured.

*Store.*  `StoreInv` says that the ids of a conversation's messages were issued and
are different ones, which an edit keeps because it cuts a suffix and a deletion because it filters.  A bulk action is its single counterpart
repeated because both obey one law: the bulk action for a set and then
the single one for one more id is the bulk action for both.  By induction over
the fold its states are the bulk actions for the ids so far, in any order.

*Window.*  The invariant `WInv` adds what makes an answer fall into place: at
most one answer is awaited, because the input is disabled; as long as its
conversation exists its last message is the question, with the model on record;
and an id is never issued twice, so that no new conversation takes the place of
one that was deleted during the await.  A lemma each says what a reducer action
does to the messages, and `MessagesKept` covers every step that adds none.

*Persistence.*  `IInv` adds to the type that the queue holds well-formed calls,
that one call or one reply of the load effect is under way and is the one it
awaits, that a complete temporary file holds the chat of the save at the head of
the queue (which is why the file renamed into place is never torn), and that in
a browser nothing is invoked.  The last makes the refinement short: a creation
or deletion is an edit, the timer a save, reload and crash a restart, and in the
shell the mapping stands still.
`LostOnlyBeforeLoading` needs `KInv`, which orders what is on its way to the
disk and, without the API module, to `localStorage`: of what is stored, of the
saves before it and of the answers not yet looked at, each save that is not
blind lacks only what the user deleted or a load replaced; a page that has
loaded holds all of it; and what a load is answered is what is stored.  So the
steps that can lose something are those the property names, and each of them
really loses (section 3).  `localStorage` is given up only behind a file that a
successful save left before the mark.

*Training.*  `OwnGradientsOnly` needs only that `zeroGrad` comes first.
`BestIsBest` compares fractions: a mean below the best by more than the
threshold is below every mean that was not, which is arithmetic over products
(`FractionsBelow`), and a mean is not below itself.

*Checkpoints.*  A load that succeeds read at least all weights or stopped before
the first (`NoMixedWeights`).  For `AdamResumes` the invariant says of the file
what `ResumesTheRun` says of the process.  Loading then needs that no two loaded
tensors share an address (`PlacedApart`), so that each parameter finds its own
moments there.  The hypothesis is needed: SGD saves no velocities.

*Keras.*  `KerasInv` says that the counter of a new or reset `EarlyStopping`
counts back to the last epoch that improved, and that the best is the least loss
up to there.  So the counter reaches the patience exactly when none of the last `patience`
losses undercut what came before them by more than `min_delta`.

*Runners.*  `AnswersFromTheEndpoint` needs that the open client or every open
session is of an endpoint the caller is connected to (`ClientAtTarget`).
`LoadedIsServed` needs that of what was reported as loaded by a server that was
up the connected endpoint has a version, or the client a session
(`LoadedAnswers`).  The classes' tables say that a server that is up and has a
list gives a good reply to `load_model` only for a model it has, and that
`infer` is not found only by a server that is up; in between, `Change` may take
the server down and up again, and only taking away the last version ends the
record.  The proofs go through the tables.

*Compute graph.*  `NodeIdsOrdered` with the type of the tape is inductive.  The
step that needs an argument is `fromJson`: the last op's output is the largest
id, so a maximum exists, `maxId` finds it, and ids issued afterwards are new.
`PassInv` describes the passes: after *k* ops of `forward` the values
of the nodes are those of this pass up to node *k* and older ones behind it; on the way back the gradient
map holds at a node what came through the layers behind it; traces
have the ids of one pass.  The loops over the tape are folds, and the
proofs follow them op by op.  The hypothesis `Chain` (each layer reads the output of
the one before) is the Trainer's Sequential; where an output is not read, or
read twice, backward hands out a default tensor or overwrites (section 6).

*Layers.*  `LInv` says that a Sequential that was built has a chain of shapes,
from the one it was built for, along which each layer is `Settled`: a
convolution holds its own shape and announces what follows from it, a
layer that passes a shape through announces the one it got.  A second build need
not reproduce the chain: a Dense layer that is built announces its width
alone, an embedding and an attention two dimensions.  But only a convolution looks at
the shape, and it refuses what has not three dimensions before it touches its kernel, so
that it is enough that each layer gets the shape of the chain or one that is
not three-dimensional.  `build` and `forward` are folds over the layers and
followed layer by layer.

*Gradients.*  `BackwardIsGradient` is the claim that makes training work: from
the loss, `backward` reaches what `forward` came from, along the same paths and with the same
factors.  It rests on two facts.  `LayerAdjoint`, one lemma a kind: with the
context that forward saved, a layer's backward is its forward turned round.
For a Dense layer that is that `g W` and `g^T x` run through the terms of
`x W^T` (`DenseEdges`, `DenseUses`), for a convolution that both loops run
through the same taps, and for attention, whose backward
pass is written out by hand over products, transposes, the split of the heads and the
mask, that each product has its gradient (`AttentionGradient`,
`QueryGradient`, `KeyGradient`, `ValueGradient`, `ProjectionInputs`,
`ProjectionWeights`), that splitting and merging the heads undo each other
(`HeadsTurned`), and that the terms which only one of the passes masks lead
nowhere (`AttentionBothWays`).  Below them are facts about mixed radices: what `Offset`, `Product`,
`transpose` and `matmul` come to in two and three dimensions.  `ChainRule`:
composing from the output back gives what composing from the
input forth gives.  The invariant `GradInv` ties them together.  It has to say
that every layer was built for what arrives (`NetFits`, because the kernels
look at the dimensions of the build), that the layers are in the mode of the
model, and that the last forward pass is `Traced`: there are edges per layer
whose composition it recorded and along which the layer would go back, with
what it saved, if the mode were that of the pass.  The last clause survives a switch of the mode, so that the mode may
be switched there and back between the passes.

The hypothesis `ModelsAreWellShaped` is the program's part: no kernel compares
the shape it is given with the one it was built for.  It says that each layer
stands where the announced shape has the form the layer works on (an image, a
sequence, one vector a sample), that attention's
width is a multiple of its heads, and that a model built for several shapes keeps the widths of
its Dense and normalising layers.  Batches are not empty, as the merge of the
heads divides by their size.

*Tensors.*  `BufferHoldsTheArray` holds for any number of dimensions and any
operations in a row.  The elements that the first d coordinates of an index leave open
are a block of consecutive offsets, and the strides are the sizes of the blocks
(`Blocks`).  So each coordinate leaves an offset within its block (`RestsExist`), the
loop that takes an offset apart gives the index back (`CoordsOfOffset`), every
offset has one index (`OffsetOfCoords`, `OneOffsetEach`), and offsets are ordered as
the indices are, so that an offset is the number of indices before it
(`RankIsOffset`).  On this rest the operations: reshape keeps every rank; transpose swaps
coordinates and strides alike (`OffsetSwapped`); a reduction has a stride for
the dimension of one element that it keeps, and dropping that dimension moves no
other stride (`OffsetWithout`); what goes into an element of a
concatenation is one element of one of the two tensors (`CatFromFirst`,
`CatFromSecond`).  `TensorsAssumption` is about what the program asks for:
shapes have a dimension and no negative one, except that reshape may be given -1,
which it infers.  The code checks neither; dimensions of zero are covered.

*Samples, positions and outputs.*  Both remaining invariants of the layers say
where the edges of a forward pass run.  `LayerLocal` says it of one layer
(`Local`): its edges and uses lie in the shapes it gets and returns, an edge stays
in its sample unless the layer is a `BatchNorm1d`, an attention with a
mask reads no later position, and every element is computed unless
the layer is a `Dropout`.  For attention this needs an argument of its own,
because the mask acts on the scores: a position of the scores is a query, and
its column a key that is not later (`ScoresLead`); the softmax stays in the row,
and the context reads the values at the columns that the mask leaves
(`ContextLeads`); and splitting and merging the heads keeps sample and position
(`HeadsStay`).  `Layered`, which `ForwardTraced` proves of a pass that succeeds, says that
each layer ran on a batch of what was announced before it, so that an induction over the
layers composes the edges (`PassWithin`, `PassApart`, `PassPast`,
`PassCovers`).  `AnnouncedInv` says that what the first build announced is what
the pass returns.

Neither holds of every model, so both theorems have a hypothesis about the
models, which TLC evaluates for those of the run (`ModelsSayMore`).  A Dropout
gives the elements it drops no value from anything, and only a layer behind it
that adds up or adds a bias makes it good (`ComputesAll`); the same hypothesis
asks that a model built with the batch in its shape is built for one such
shape, because a Dense layer that is built again announces its width alone.
Behind a causal attention one without a mask looks ahead again
(`StaysCausal`).

*Trust store.*  `TrustInv` adds to `DNsDistinct` and `RevocationStands` that
the file holds such a store too and that no revocation which is not forgotten is
dated later than the last packet applied.  An update is one step, so that the
invariant is carried through the fold of its actions, also through one that
stops half-way.  For `LoadAllOrNothing` the read loop is followed round by round:
as long as no check failed, what was read is the beginning of what was saved, two
fields a round.

*Plugins.*  `OwnedOnce` says more than that handles do not repeat: the open
libraries are exactly those of the objects, and an instance belongs to the
object's own library.  This makes it inductive together with the type of the
objects: a fresh reference is in no object because it is not open, and closing
an object takes nothing of another.  One lemma each for a failed load, a load
into an object, a move and emptying an object; the store's steps leave the
loader alone.

*Manifests.*  `ManifestInv` says which forms the fields of an edited document
have, and that it has at most one entry per language.  Of a plain document the
first occurrence of a key is its field, and of a language its own block, so that
the scanner reads what the parser reads; what remains are the two loaders' checks,
compared test by test: those of Python are the narrower ones, and `InForm` is what
they ask for besides.

*Tokenizer.*  The rules are any table in order, a text may have any length and
any characters.  The state is no difficulty (`tokens` is `bpe_encode` of
`text`); the lemmas are about the algorithm.  `bpeWord` merges the first pair of
the lowest rank in the word as it is at that moment, while byte-pair encoding is
defined rule by rule.  In general these differ, since a merge could make room
for a rule that is already done with.  Here it cannot: what a rule makes takes
part in no rule before it (`InOrder`, which TLC evaluates for all of `kMerges`
as `TableInOrder`), so that a rule without a place stays without one
(`OrderKept`).  By induction over the rules, what each leaves comes up among the
rounds of `bpeWord`, with as many rounds done as symbols are gone (`AllIs`);
what the last leaves has no pair with a rule, which ends the rounds
(`BpeIsReference`).  A merge keeps the characters and their order
(`FlatMerged`), hence decoding gives the text back (`DecodeIs`).  A word that
ends in a space is not extended (`TakenKeepsStart`), hence the words up to a
space, and with them their tokens, stay (`EncodeStable`).

*Induction over data.*  The library's induction theorems take a predicate, which
no prover here instantiates.  `DataInduction` replaces the predicate by
a set: `IntervalInduction` says that a set with 0 that is closed under successor
up to n holds 0 .. n; it follows from the least element that
`WellFoundedInduction` gives.  From it come the facts about
`FoldFunction` and `FoldLeft` that the proofs of the bulk actions, the updates, the
passes and the tokenizer use.

The assumptions are the named `ASSUME`s of the modules: bounds are naturals,
sentinels are no values, an allocator has a free address, losses are naturals
below infinity and NaN (`KerasAssumption`), layers are of the kinds modelled
and batches not empty (`LayersAssumption`), models fit the layers they are made
of (`ModelsAreWellShaped`), shapes are sequences of naturals
(`TensorsAssumption`), a malformed endpoint is an endpoint
(`RunnersAssumption`), and no merge rule makes what an earlier one merges
(`MergesAssumption`).  All of them are evaluated in the passing runs.

Only model-checked: liveness (`EventuallySaved`, `InputComesBack`), which no
backend reasons about, and `VerifiesTheBuild`, which compares the verifier with
a history of the signatures made.

## 6. Not modelled, and the plan

- Floating-point values, constant factors, initialisers and elementwise
  arithmetic are out of TLC's reach; the CUDA and quantum backends are kernels
  of the same operations.
- `CompatibilityChecker` is a table; a model would be a copy of it.
- `BackendRegistry` has the divergence noted above and little besides.
- The pybind11 bindings (`module.cpp`) and `torch_compat.h` convert arguments
  and forward calls.
- ChatGPT import and export convert one value; the effect of an import that has
  finished is in `ChatSidebar`.  The rendering components keep no state.
- Forks in a graph: the code calls its treatment a simplification
  (`ComputeGraph.cpp:118`), so that `GradientsOfThisPass` is claimed for chains.

Next: `BackendRegistry` with shared objects; import as an operator against a reference
definition.

## 7. Running

    tlc -config ChatSidebar.cfg ChatSidebar
    tlc -config Persist.cfg ChatPersistence
    tlc -config Training.cfg MCTraining
    tlc -config Engine.cfg MCEngine
    tlc -config Plugins.cfg MCPlugins
    tlapm ChatSidebar_proofs.tla

`Training` and `Plugins` take a few minutes, the others less than one.
`PROJECT.json` gives for each definition the lines of code it translates, and
for each property a mutation that violates it.
