------------------------------ MODULE MCPlugins ------------------------------
(***************************************************************************)
(* What a plugin meets, for TLC: the trust store and the loader, which     *)
(* share a plugin's trust level, and with no state in common with them or  *)
(* each other the signing tool, the two manifest loaders and the tokenizer *)
(* plugin.  A behaviour is of one of these; store and loader are taken     *)
(* once with nothing loaded ("Store") and once with nothing saved          *)
(* ("Plugins"), as the loader reads the store and never its file.          *)
(*                                                                         *)
(* The names and the objects of the first are interchangeable: every       *)
(* property of the run is one of states and steps.                         *)
(***************************************************************************)
EXTENDS Plugins, Signing, Manifests, Tokenizer

VARIABLE which

\* The rules that letters of "there d0" can take part in.
SomeRules == [i \in 1..15 |-> kMerges[<<1, 8, 12, 16, 17, 21, 22, 24, 26, 35, 40, 42, 53, 58, 61>>[i]]]

Symmetry == Permutations(DN) \union Permutations(Slots)

NoManifests == ManifestsInit /\ manifest = GoodPlugin

MCInit ==
  \/ which \in {"Store", "Plugins"} /\ Init /\ SigningInit /\ NoManifests /\ TokenizerInit
  \/ which = "Signing" /\ SigningInit /\ Init /\ NoManifests /\ TokenizerInit
  \/ which = "Manifests" /\ ManifestsInit /\ Init /\ SigningInit /\ TokenizerInit
  \/ which = "Tokenizer" /\ TokenizerInit /\ Init /\ SigningInit /\ NoManifests

MCNext ==
  /\ UNCHANGED which
  /\ \/ /\ \/ which = "Store" /\ UNCHANGED loaderVars
           \/ which = "Plugins" /\ UNCHANGED file
        /\ Next
        /\ UNCHANGED <<signingVars, manifestVars, tokenizerVars>>
     \/ which = "Signing" /\ SigningNext /\ UNCHANGED <<vars, manifestVars, tokenizerVars>>
     \/ which = "Manifests" /\ ManifestsNext /\ UNCHANGED <<vars, signingVars, tokenizerVars>>
     \/ which = "Tokenizer" /\ TokenizerNext /\ UNCHANGED <<vars, signingVars, manifestVars>>

MCSpec == MCInit /\ [][MCNext]_<<which, vars, signingVars, manifestVars, tokenizerVars>>
=============================================================================
