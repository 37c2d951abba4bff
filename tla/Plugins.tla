------------------------------- MODULE Plugins --------------------------------
(***************************************************************************)
(* A process with a store of trusted CAs, updated by packets, and a loader  *)
(* that asks TrustVerifier for the level of a plugin before opening it.     *)
(***************************************************************************)
EXTENDS TrustStore, PluginLoader

vars == <<trustVars, loaderVars>>

\* What stands next to a plugin: no (readable) sidecar, or one with a
\* certificate, of which the issuer and the outcome of verifySignature count.
NoSidecar == [issuer |-> NoDN, verifies |-> FALSE]
Sidecar == {NoSidecar} \union [issuer : DN, verifies : BOOLEAN]

\* verifyCertChain: the level of the issuing CA.
CaLevel(dn) ==
  LET i == FindByDN(entries, dn)
  IN  IF i = 0 THEN Untrusted ELSE entries[i].level

Verify(sidecar) == IF sidecar.verifies THEN CaLevel(sidecar.issuer) ELSE Untrusted

LoadPlugin ==
  \E sidecar \in Sidecar :
    \/ LoadFails(Verify(sidecar))
    \/ \E s \in Slots, created \in BOOLEAN : LoadInto(s, Verify(sidecar), created)

\* A new process owns nothing of the old one.
Restart ==
  /\ TrustRestart
  /\ plugins' = [s \in Slots |-> NewPlugin]
  /\ open' = {} /\ alive' = {}

LoaderNext ==
  \/ LoadPlugin
  \/ \E dst, src \in Slots : Move(dst, src)
  \/ \E s \in Slots : Unload(s)
  \/ \E s \in Slots : Destroy(s)

Init == TrustInit /\ LoaderInit
Next ==
  \/ TrustNext /\ UNCHANGED loaderVars
  \/ LoaderNext /\ UNCHANGED trustVars
  \/ Restart

Spec == Init /\ [][Next]_vars

-------------------------------------------------------------------------------
\* The store, its file, the handler and the loaded plugins have their types.
TypeOK == TrustTypeOK /\ LoaderTypeOK
===============================================================================
