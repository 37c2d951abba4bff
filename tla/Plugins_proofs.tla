---------------------------- MODULE Plugins_proofs ----------------------------
(***************************************************************************)
(* Proofs about Plugins for any number of plugin objects, references, CAs  *)
(* and update packets: each library and each plugin instance always has    *)
(* exactly one owner (OwnedOnce is inductive together with the type of the *)
(* loader's state); the trust store has one entry of a DN and keeps out    *)
(* what was revoked (an induction over the actions of a packet inside the  *)
(* one over steps).  Then about Manifests, that the two loaders agree on   *)
(* plain documents, and about the Tokenizer, that it encodes as its table  *)
(* was trained to.                                                         *)
(***************************************************************************)
EXTENDS Plugins, Manifests, Tokenizer, DataInduction, SequenceTheorems, TLAPS

\* The level is left to TypeOK below: it may be anything the store holds.
IsPlugin(p) ==
  /\ p = [handle |-> p.handle, instance |-> p.instance, level |-> p.level]
  /\ p.handle \in 0..MaxRefs /\ p.instance \in 0..MaxRefs

\* The inductive invariant.
LoaderInv ==
  /\ plugins = [s \in Slots |-> plugins[s]] /\ \A s \in Slots : IsPlugin(plugins[s])
  /\ open \subseteq Refs /\ alive \subseteq Refs
  /\ OwnedOnce

LEMMA InitIsOwned == Init => LoaderInv
<1> SUFFICES ASSUME Init PROVE LoaderInv
  OBVIOUS
<1>1. MaxRefs \in Nat
  BY PluginLoaderAssumption
<1>2. /\ plugins = [s \in Slots |-> plugins[s]]
      /\ \A s \in Slots : IsPlugin(plugins[s])
  BY <1>1 DEF Init, LoaderInit, NewPlugin, IsPlugin
<1>3. OwnedOnce
  BY DEF Init, LoaderInit, NewPlugin, OwnedOnce
<1> QED BY <1>2, <1>3 DEF Init, LoaderInit, LoaderInv

LEMMA EmptiedIsEmpty ==
  ASSUME NEW p
  PROVE  IsPlugin(Emptied(p)) /\ Emptied(p).handle = 0 /\ Emptied(p).instance = 0
BY PluginLoaderAssumption DEF Emptied, IsPlugin

\* closeHandle takes exactly what the object owns.
LEMMA CloseTakesOwn ==
  ASSUME LoaderInv, NEW s \in Slots
  PROVE  /\ StillOpen(plugins[s], open) = open \ {plugins[s].handle}
         /\ StillAlive(plugins[s], alive) = alive \ {plugins[s].instance}
<1>1. 0 \notin open /\ 0 \notin alive
  BY DEF LoaderInv, OwnedOnce
<1>2. plugins[s].instance \in {0, plugins[s].handle}
  BY DEF LoaderInv, OwnedOnce
<1> QED BY <1>1, <1>2 DEF StillOpen, StillAlive

\* An object that is emptied gives up what it owned.
LEMMA EmptyingKeepsOwned ==
  ASSUME LoaderInv, NEW s \in Slots, NEW p, IsPlugin(p),
         p.handle = 0, p.instance = 0,
         plugins' = [plugins EXCEPT ![s] = p],
         open' = StillOpen(plugins[s], open),
         alive' = StillAlive(plugins[s], alive)
  PROVE  LoaderInv'
<1>1. /\ open' = open \ {plugins[s].handle}
      /\ alive' = alive \ {plugins[s].instance}
  BY CloseTakesOwn
<1>2. /\ plugins' = [t \in Slots |-> plugins'[t]] /\ \A t \in Slots : IsPlugin(plugins'[t])
      /\ open' \subseteq Refs /\ alive' \subseteq Refs
  BY <1>1 DEF LoaderInv
<1>3. \A t \in Slots : plugins'[t] = IF t = s THEN p ELSE plugins[t]
  BY DEF LoaderInv
<1>4. open' = {plugins'[t].handle : t \in Slots} \ {0}
  BY <1>1, <1>3 DEF LoaderInv, OwnedOnce
<1>5. \A t, u \in Slots :
        plugins[t].instance = plugins[u].instance /\ plugins[t].instance # 0 => t = u
  BY DEF LoaderInv, OwnedOnce
<1>6. alive' = {plugins'[t].instance : t \in Slots} \ {0}
  BY <1>1, <1>3, <1>5 DEF LoaderInv, OwnedOnce
<1>7. \A t, u \in Slots :
        plugins'[t].handle = plugins'[u].handle /\ plugins'[t].handle # 0 => t = u
  BY <1>3 DEF LoaderInv, OwnedOnce
<1>8. \A t \in Slots : plugins'[t].instance \in {0, plugins'[t].handle}
  BY <1>3 DEF LoaderInv, OwnedOnce
<1> QED BY <1>2, <1>4, <1>6, <1>7, <1>8 DEF LoaderInv, OwnedOnce

\* A load that fails behind dlopen closes the reference it opened.
LEMMA FailedLoadKeepsOwned ==
  ASSUME LoaderInv, NEW level, LoadFails(level)
  PROVE  LoaderInv'
<1>1. PICK ref \in Refs \ open :
        open' = StillOpen([handle |-> ref, instance |-> 0, level |-> level], open \union {ref})
  BY DEF LoadFails
<1>2. open' = open
  <2>1. ref # 0
    BY PluginLoaderAssumption DEF Refs
  <2> QED BY <1>1, <2>1 DEF StillOpen
<1> QED BY <1>2 DEF LoadFails, LoaderInv, OwnedOnce

\* A plugin is loaded into an object, which gives up what it owned.
LEMMA LoadKeepsOwned ==
  ASSUME LoaderInv, NEW s \in Slots, NEW level, NEW created \in BOOLEAN,
         LoadInto(s, level, created)
  PROVE  LoaderInv'
<1> DEFINE instance(ref) == IF created THEN ref ELSE 0
           loaded(ref) == [handle |-> ref, instance |-> instance(ref), level |-> level]
<1>1. PICK ref \in Refs \ open :
        /\ plugins' = [plugins EXCEPT ![s] = loaded(ref)]
        /\ open' = StillOpen(plugins[s], open \union {ref})
        /\ alive' = StillAlive(plugins[s], IF created THEN alive \union {ref} ELSE alive)
  BY DEF LoadInto
<1>2. ref \in Nat /\ ref # 0 /\ ref \in 0..MaxRefs
  BY PluginLoaderAssumption DEF Refs
<1>3. \A t \in Slots : plugins[t].handle # ref /\ plugins[t].instance # ref
  BY <1>2 DEF LoaderInv, OwnedOnce
<1>4. /\ open' = (open \ {plugins[s].handle}) \union {ref}
      /\ alive' = (alive \ {plugins[s].instance}) \union (IF created THEN {ref} ELSE {})
  <2>1. 0 \notin open /\ 0 \notin alive /\ plugins[s].instance \in {0, plugins[s].handle}
    BY DEF LoaderInv, OwnedOnce
  <2>2. open' = (open \ {plugins[s].handle}) \union {ref}
    BY <1>1, <1>2, <1>3, <2>1 DEF StillOpen
  <2>3. alive' = (alive \ {plugins[s].instance}) \union (IF created THEN {ref} ELSE {})
    BY <1>1, <1>2, <1>3, <2>1 DEF StillAlive
  <2> QED BY <2>2, <2>3
<1>5. IsPlugin(loaded(ref))
  BY <1>2, PluginLoaderAssumption DEF IsPlugin
<1>6. /\ plugins' = [t \in Slots |-> plugins'[t]] /\ \A t \in Slots : IsPlugin(plugins'[t])
      /\ open' \subseteq Refs /\ alive' \subseteq Refs
  BY <1>1, <1>4, <1>5 DEF LoaderInv
<1>7. \A t \in Slots : plugins'[t] = IF t = s THEN loaded(ref) ELSE plugins[t]
  BY <1>1 DEF LoaderInv
<1>8. \A t, u \in Slots :
        plugins[t].instance = plugins[u].instance /\ plugins[t].instance # 0 => t = u
  BY DEF LoaderInv, OwnedOnce
<1>9. open' = {plugins'[t].handle : t \in Slots} \ {0}
  BY <1>2, <1>3, <1>4, <1>7 DEF LoaderInv, OwnedOnce
<1>10. alive' = {plugins'[t].instance : t \in Slots} \ {0}
  BY <1>2, <1>3, <1>4, <1>7, <1>8 DEF LoaderInv, OwnedOnce
<1>11. \A t, u \in Slots :
         plugins'[t].handle = plugins'[u].handle /\ plugins'[t].handle # 0 => t = u
  BY <1>3, <1>7 DEF LoaderInv, OwnedOnce
<1>12. \A t \in Slots : plugins'[t].instance \in {0, plugins'[t].handle}
  BY <1>7 DEF LoaderInv, OwnedOnce
<1> QED BY <1>6, <1>9, <1>10, <1>11, <1>12 DEF LoaderInv, OwnedOnce

\* A move passes on what the source owned; the target gives up its own.
LEMMA MoveKeepsOwned ==
  ASSUME LoaderInv, NEW dst \in Slots, NEW src \in Slots, Move(dst, src)
  PROVE  LoaderInv'
<1>1. /\ dst # src
      /\ open' = open \ {plugins[dst].handle}
      /\ alive' = alive \ {plugins[dst].instance}
  BY CloseTakesOwn DEF Move
<1>2. /\ IsPlugin(plugins[src])
      /\ IsPlugin(Emptied(plugins[src]))
      /\ Emptied(plugins[src]).handle = 0
      /\ Emptied(plugins[src]).instance = 0
  BY EmptiedIsEmpty DEF LoaderInv
<1>3. \A t \in Slots :
        plugins'[t] = IF t = src THEN Emptied(plugins[src])
                      ELSE IF t = dst THEN plugins[src] ELSE plugins[t]
  BY <1>1 DEF Move, LoaderInv
<1>4. /\ plugins' = [t \in Slots |-> plugins'[t]] /\ \A t \in Slots : IsPlugin(plugins'[t])
      /\ open' \subseteq Refs /\ alive' \subseteq Refs
  BY <1>1, <1>2 DEF Move, LoaderInv
<1>5. \A t, u \in Slots :
        plugins[t].instance = plugins[u].instance /\ plugins[t].instance # 0 => t = u
  BY DEF LoaderInv, OwnedOnce
<1>6. open' = {plugins'[t].handle : t \in Slots} \ {0}
  BY <1>1, <1>2, <1>3 DEF LoaderInv, OwnedOnce
<1>7. alive' = {plugins'[t].instance : t \in Slots} \ {0}
  BY <1>1, <1>2, <1>3, <1>5 DEF LoaderInv, OwnedOnce
<1>8. \A t, u \in Slots :
        plugins'[t].handle = plugins'[u].handle /\ plugins'[t].handle # 0 => t = u
  BY <1>1, <1>2, <1>3 DEF LoaderInv, OwnedOnce
<1>9. \A t \in Slots : plugins'[t].instance \in {0, plugins'[t].handle}
  BY <1>2, <1>3 DEF LoaderInv, OwnedOnce
<1> QED BY <1>4, <1>6, <1>7, <1>8, <1>9 DEF LoaderInv, OwnedOnce

\* One step per action; those of the store leave the loader alone.
LEMMA NextKeepsOwned ==
  ASSUME LoaderInv, [Next]_vars
  PROVE  LoaderInv'
<1>1. CASE UNCHANGED loaderVars
  BY <1>1 DEF loaderVars, LoaderInv, OwnedOnce
<1>2. ASSUME NEW beside \in Sidecar, LoadFails(Verify(beside))
      PROVE  LoaderInv'
  BY <1>2, FailedLoadKeepsOwned
<1>3. ASSUME NEW beside \in Sidecar, NEW s \in Slots, NEW created \in BOOLEAN,
             LoadInto(s, Verify(beside), created)
      PROVE  LoaderInv'
  BY <1>3, LoadKeepsOwned
<1>4. ASSUME NEW dst \in Slots, NEW src \in Slots, Move(dst, src)
      PROVE  LoaderInv'
  BY <1>4, MoveKeepsOwned
<1>5. ASSUME NEW s \in Slots, Unload(s)
      PROVE  LoaderInv'
  <2>1. IsPlugin(plugins[s])
    BY DEF LoaderInv
  <2> QED BY <1>5, <2>1, EmptiedIsEmpty, EmptyingKeepsOwned DEF Unload
<1>6. ASSUME NEW s \in Slots, Destroy(s)
      PROVE  LoaderInv'
  <2>1. IsPlugin(NewPlugin) /\ NewPlugin.handle = 0 /\ NewPlugin.instance = 0
    BY PluginLoaderAssumption DEF NewPlugin, IsPlugin
  <2> QED BY <1>6, <2>1, EmptyingKeepsOwned DEF Destroy
<1>7. CASE Restart
  <2>1. IsPlugin(NewPlugin)
    BY PluginLoaderAssumption DEF NewPlugin, IsPlugin
  <2>2. plugins' = [s \in Slots |-> NewPlugin] /\ open' = {} /\ alive' = {}
    BY <1>7 DEF Restart
  <2>3. \A s \in Slots : plugins'[s].handle = 0 /\ plugins'[s].instance = 0
    BY <2>2 DEF NewPlugin
  <2>4. OwnedOnce'
    BY <2>2, <2>3 DEF OwnedOnce
  <2> QED BY <2>1, <2>2, <2>4 DEF LoaderInv
<1>8. CASE UNCHANGED vars
  BY <1>1, <1>8 DEF vars
<1>9. CASE LoaderNext
  BY <1>2, <1>3, <1>4, <1>5, <1>6, <1>9 DEF LoaderNext, LoadPlugin
<1> QED BY <1>1, <1>7, <1>8, <1>9 DEF Next

\* Each open library and each plugin instance has exactly one owner: closed
\* and destroyed once, and not leaked, in every order of loads, failed loads,
\* moves, unloads, destructions and restarts.
THEOREM PluginsOwnedOnce == Spec => []OwnedOnce
<1>1. LoaderInv => OwnedOnce
  BY DEF LoaderInv
<1> QED BY <1>1, InitIsOwned, NextKeepsOwned, PTL DEF Spec

-------------------------------------------------------------------------------
(* The trust store.                                                        *)

OneEntryEach(es) == \A i, j \in DOMAIN es : es[i].dn = es[j].dn => i = j

\* The state of the fold that applies a packet.
FoldState == [entries : Seq(CaEntry), ok : BOOLEAN, added : SUBSET DN]

\* What every action of a packet preserves: a DN has one entry, and was in the
\* store before the packet or came in with it.
GoodFold(st) ==
  /\ st \in FoldState
  /\ OneEntryEach(st.entries)
  /\ DNs(st.entries) \subseteq DNs(entries) \union st.added

TrustInv ==
  /\ TrustTypeOK
  /\ DNsDistinct
  /\ RevocationStands
  /\ file # NoFile => OneEntryEach(file.saved)
  /\ \A dn \in DN \ forgotten : revokedAt[dn] <= lastApplied

\* findByDN finds an entry of the DN if there is one.
LEMMA FoundByDN ==
  ASSUME NEW es \in Seq(CaEntry), NEW dn
  PROVE  /\ FindByDN(es, dn) = 0 => dn \notin DNs(es)
         /\ FindByDN(es, dn) # 0 => FindByDN(es, dn) \in DOMAIN es /\ es[FindByDN(es, dn)].dn = dn
<1> DEFINE I == {i \in 1 .. Len(es) : es[i].dn = dn}
<1>1. FindByDN(es, dn) = IF I # {} THEN Min(I) ELSE 0
  BY DEF FindByDN, SelectInSeq
<1>2. Len(es) \in Nat /\ DOMAIN es = 1 .. Len(es) /\ I \subseteq Nat
  OBVIOUS
<1>3. CASE I = {}
  <2>1. dn \notin DNs(es)
    BY <1>2, <1>3 DEF DNs
  <2> QED BY <1>1, <1>3, <2>1
<1>4. CASE I # {}
  <2>1. \A i \in I : i \in DOMAIN es /\ es[i].dn = dn /\ i # 0
    BY <1>2
  <2> HIDE DEF I
  <2>2. \E m \in I : \A n \in I : m <= n
    BY <1>2, <1>4, LeastNatural
  <2>3. Min(I) \in I
    BY <2>2 DEF Min
  <2> QED BY <1>1, <1>4, <2>1, <2>3
<1> QED BY <1>3, <1>4

\* What is left when one element is taken out.
LEMMA RemovedOne ==
  ASSUME NEW S, NEW s \in Seq(S), NEW i \in DOMAIN s
  PROVE  /\ RemoveAt(s, i) \in Seq(S)
         /\ Len(RemoveAt(s, i)) = Len(s) - 1
         /\ \A j \in 1 .. Len(s) - 1 : RemoveAt(s, i)[j] = IF j < i THEN s[j] ELSE s[j+1]
<1> DEFINE a == SubSeq(s, 1, i-1)
           b == SubSeq(s, i+1, Len(s))
<1>1. Len(s) \in Nat /\ i \in 1 .. Len(s) /\ \A j \in 1 .. Len(s) : s[j] \in S
  OBVIOUS
<1>2. a \in Seq(S) /\ Len(a) = i-1 /\ \A j \in 1 .. i-1 : a[j] = s[j]
  <2>1. 1 \in Int /\ i-1 \in Int /\ \A j \in 1 .. i-1 : s[j] \in S
    BY <1>1
  <2>2. /\ a \in Seq(S)
        /\ Len(a) = IF 1 <= i-1 THEN i-1-1+1 ELSE 0
        /\ \A j \in 1 .. i-1-1+1 : a[j] = s[1+j-1]
    BY <2>1, SubSeqProperties
  <2> HIDE DEF a
  <2> QED BY <1>1, <2>2
<1>3. b \in Seq(S) /\ Len(b) = Len(s) - i /\ \A j \in 1 .. Len(s) - i : b[j] = s[i+j]
  <2>1. i+1 \in Int /\ Len(s) \in Int /\ \A j \in i+1 .. Len(s) : s[j] \in S
    BY <1>1
  <2>2. /\ b \in Seq(S)
        /\ Len(b) = IF i+1 <= Len(s) THEN Len(s)-(i+1)+1 ELSE 0
        /\ \A j \in 1 .. Len(s)-(i+1)+1 : b[j] = s[i+1+j-1]
    BY <2>1, SubSeqProperties
  <2> HIDE DEF b
  <2> QED BY <1>1, <2>2
<1>4. RemoveAt(s, i) = a \o b
  BY DEF RemoveAt
<1> HIDE DEF a, b
<1>5. /\ a \o b \in Seq(S)
      /\ Len(a \o b) = Len(a) + Len(b)
      /\ \A j \in 1 .. Len(a) + Len(b) : (a \o b)[j] = IF j <= Len(a) THEN a[j] ELSE b[j - Len(a)]
  BY <1>2, <1>3, ConcatProperties
<1>6. ASSUME NEW j \in 1 .. Len(s) - 1
      PROVE  (a \o b)[j] = IF j < i THEN s[j] ELSE s[j+1]
  <2>1. CASE j < i
    <3>1. j \in 1 .. i-1 /\ j <= Len(a) /\ j \in 1 .. Len(a) + Len(b)
      BY <1>1, <1>2, <1>3, <2>1
    <3> QED BY <1>2, <1>5, <2>1, <3>1
  <2>2. CASE ~(j < i)
    <3>1. /\ ~(j <= Len(a)) /\ j \in 1 .. Len(a) + Len(b) /\ j - Len(a) \in 1 .. Len(s) - i
          /\ i + (j - Len(a)) = j + 1
      BY <1>1, <1>2, <1>3, <2>2
    <3> QED BY <1>3, <1>5, <2>2, <3>1
  <2> QED BY <2>1, <2>2
<1>7. Len(a) + Len(b) = Len(s) - 1
  BY <1>1, <1>2, <1>3
<1> QED BY <1>4, <1>5, <1>6, <1>7

\* An action of a packet keeps the store well-formed; one that is not the
\* addition of a new DN brings none in.
LEMMA ActionKeepsFold ==
  ASSUME NEW st, GoodFold(st), NEW act \in TupAction
  PROVE  GoodFold(ApplyAction(st, act))
<1>0. /\ st \in FoldState /\ st.entries \in Seq(CaEntry) /\ st.added \subseteq DN
      /\ OneEntryEach(st.entries)
      /\ DNs(st.entries) \subseteq DNs(entries) \union st.added
  BY DEF GoodFold, FoldState
<1>1. CASE ~st.ok
  BY <1>1 DEF ApplyAction
<1>2. CASE st.ok /\ act.type = "RevokeCa"
  <2> DEFINE i == FindByDN(st.entries, act.dn)
  <2>1. ApplyAction(st, act) = RevokeCa(st, act)
    BY <1>2 DEF ApplyAction
  <2>2. CASE i = 0
    <3>1. RevokeCa(st, act) = [st EXCEPT !.ok = FALSE]
      BY <2>2 DEF RevokeCa
    <3> QED BY <1>0, <2>1, <3>1 DEF GoodFold, FoldState
  <2>3. CASE i # 0
    <3>1. i \in DOMAIN st.entries
      BY <1>0, <2>3, FoundByDN
    <3>2. RevokeCa(st, act) = [st EXCEPT !.entries = RemoveAt(@, i)]
      BY <2>3 DEF RevokeCa
    <3> HIDE DEF i
    <3> DEFINE es == RemoveAt(st.entries, i)
    <3>3. /\ es \in Seq(CaEntry)
          /\ Len(es) = Len(st.entries) - 1
          /\ \A j \in 1 .. Len(st.entries) - 1 :
               es[j] = IF j < i THEN st.entries[j] ELSE st.entries[j+1]
      BY <1>0, <3>1, RemovedOne
    <3> HIDE DEF es
    <3>4. /\ Len(st.entries) \in Nat /\ DOMAIN st.entries = 1 .. Len(st.entries)
          /\ DOMAIN es = 1 .. Len(st.entries) - 1 /\ i \in 1 .. Len(st.entries)
      BY <1>0, <3>1, <3>3
    <3>5. OneEntryEach(es)
      <4> SUFFICES ASSUME NEW j \in DOMAIN es, NEW k \in DOMAIN es, es[j].dn = es[k].dn PROVE j = k
        BY DEF OneEntryEach
      <4> DEFINE at(x) == IF x < i THEN x ELSE x + 1
      <4>1. at(j) \in DOMAIN st.entries /\ at(k) \in DOMAIN st.entries
        BY <3>4
      <4>2. es[j] = st.entries[at(j)] /\ es[k] = st.entries[at(k)]
        BY <3>3, <3>4
      <4>3. at(j) = at(k)
        BY <1>0, <4>1, <4>2 DEF OneEntryEach
      <4> QED BY <3>4, <4>3
    <3>6. DNs(es) \subseteq DNs(st.entries)
      <4> SUFFICES ASSUME NEW j \in DOMAIN es PROVE es[j].dn \in DNs(st.entries)
        BY DEF DNs
      <4>1. j \in DOMAIN st.entries /\ j + 1 \in DOMAIN st.entries
        BY <3>4
      <4>2. es[j] = st.entries[j] \/ es[j] = st.entries[j+1]
        BY <3>3, <3>4
      <4> QED BY <4>1, <4>2 DEF DNs
    <3>7. ApplyAction(st, act) = [entries |-> es, ok |-> st.ok, added |-> st.added]
      BY <1>0, <2>1, <3>2 DEF FoldState, es
    <3>8. st.ok \in BOOLEAN
      BY <1>0 DEF FoldState
    <3> QED BY <1>0, <3>3, <3>5, <3>6, <3>7, <3>8 DEF GoodFold, FoldState
  <2> QED BY <2>2, <2>3
<1>3. CASE st.ok /\ act.type # "RevokeCa" /\ act.dn = NoDN
  <2>1. ApplyAction(st, act) = [st EXCEPT !.ok = FALSE]
    BY <1>3 DEF ApplyAction
  <2> QED BY <1>0, <2>1 DEF GoodFold, FoldState
<1>4. CASE st.ok /\ act.type # "RevokeCa" /\ act.dn # NoDN
  <2>1. ApplyAction(st, act) = AddCa(st, act)
    BY <1>4 DEF ApplyAction
  <2>2. act.dn \in DN /\ act.level \in Levels
    BY <1>4 DEF TupAction
  <2>3. CASE act.dn \in DNs(st.entries)
    BY <2>1, <2>3 DEF AddCa
  <2>4. CASE act.dn \notin DNs(st.entries)
    <3> DEFINE e == [dn |-> act.dn, level |-> act.level]
               es == Append(st.entries, e)
    <3>1. e \in CaEntry /\ e.dn = act.dn
      BY <2>2 DEF CaEntry
    <3>2. ApplyAction(st, act) = [entries |-> es, ok |-> st.ok, added |-> st.added \union {act.dn}]
      BY <1>0, <2>1, <2>4 DEF AddCa, FoldState
    <3> HIDE DEF e
    <3>3. /\ es \in Seq(CaEntry) /\ Len(es) = Len(st.entries) + 1
          /\ \A j \in DOMAIN es : es[j] = IF j = Len(st.entries) + 1 THEN e ELSE st.entries[j]
          /\ \A j \in DOMAIN es : j = Len(st.entries) + 1 \/ j \in DOMAIN st.entries
      BY <1>0, <3>1
    <3> HIDE DEF es
    <3>4. \A j \in DOMAIN st.entries : st.entries[j].dn # e.dn
      BY <2>4, <3>1 DEF DNs
    <3>5. OneEntryEach(es)
      BY <1>0, <3>3, <3>4 DEF OneEntryEach
    <3>6. DNs(es) \subseteq DNs(st.entries) \union {act.dn}
      BY <3>1, <3>3 DEF DNs
    <3>7. st.ok \in BOOLEAN
      BY <1>0 DEF FoldState
    <3> QED BY <1>0, <2>2, <3>2, <3>3, <3>5, <3>6, <3>7 DEF GoodFold, FoldState
  <2> QED BY <2>3, <2>4
<1>5. st.ok \in BOOLEAN
  BY <1>0 DEF FoldState
<1> QED BY <1>1, <1>2, <1>3, <1>4, <1>5

\* The fold over the actions of a packet.
LEMMA PacketKeepsFold ==
  ASSUME entries \in Seq(CaEntry), OneEntryEach(entries), NEW acts \in Seq(TupAction)
  PROVE  GoodFold(FoldLeft(ApplyAction, [entries |-> entries, ok |-> TRUE, added |-> {}], acts))
<1> DEFINE n == Len(acts)
           base == [entries |-> entries, ok |-> TRUE, added |-> {}]
           Good == {st \in FoldState : GoodFold(st)}
           F == [i \in 1 .. n |-> [st \in Good |-> ApplyAction(st, acts[i])]]
           Eq(g) == g = [s \in SUBSET DOMAIN acts |-> IF s = {} THEN base
                            ELSE ApplyAction(g[s \ {Max(s)}], acts[Max(s)])]
           iter == CHOOSE g : Eq(g)
<1>1. n \in Nat /\ DOMAIN acts = 1 .. n /\ \A i \in 1 .. n : acts[i] \in TupAction
  OBVIOUS
<1>2. base \in Good
  BY DEF GoodFold, FoldState
<1>3. \A st \in Good, act \in TupAction : ApplyAction(st, act) \in Good
  BY ActionKeepsFold DEF GoodFold
<1>4. \A st \in Good : GoodFold(st)
  OBVIOUS
<1> HIDE DEF base, Good
<1>5. F \in [1 .. n -> [Good -> Good]]
  BY <1>1, <1>3
<1>6. PICK g : IsFold(g, n, Good, base, F)
  <2> HIDE DEF n, F
  <2> QED BY <1>1, <1>2, <1>5, SubsetFold
<1>7. ASSUME NEW s \in SUBSET (1 .. n), s # {}
      PROVE  F[Max(s)][g[s \ {Max(s)}]] = ApplyAction(g[s \ {Max(s)}], acts[Max(s)])
  <2>1. Max(s) \in 1 .. n /\ s \ {Max(s)} \in SUBSET (1 .. n)
    BY <1>1, <1>7, MaxExists
  <2> QED BY <2>1, <1>6 DEF IsFold
<1>8. Eq(g)
  BY <1>1, <1>6, <1>7 DEF IsFold
<1>9. Eq(iter)
  <2> HIDE DEF Eq
  <2> QED BY <1>8
<1>10. FoldLeft(ApplyAction, base, acts) = iter[DOMAIN acts]
  BY DEF FoldLeft, MapThenFoldSet
<1> HIDE DEF iter
<1> DEFINE T == {k \in 0 .. n : iter[1 .. k] \in Good}
<1>11. 0 \in T
  <2>1. iter[1 .. 0] = base
    BY <1>1, <1>9
  <2> QED BY <1>1, <1>2, <2>1
<1>12. ASSUME NEW k \in 0 .. n-1, k \in T PROVE k + 1 \in T
  <2>1. Max(1 .. k+1) = k + 1
    <3>1. 1 .. k+1 \subseteq Int /\ k+1 \in 1 .. k+1 /\ \A x \in 1 .. k+1 : x <= k+1
      BY <1>1
    <3> QED BY <3>1, MaxIs
  <2>2. (1 .. k+1) \ {k+1} = 1 .. k /\ k+1 \in 1 .. n /\ k+1 \in 0 .. n
    BY <1>1
  <2>3. 1 .. k+1 \in SUBSET (DOMAIN acts) /\ 1 .. k+1 # {}
    <3>1. k \in Nat /\ k+1 <= n /\ k+1 \in 1 .. k+1
      BY <1>1
    <3>2. 1 .. k+1 \subseteq 1 .. n
      BY <1>1, <3>1
    <3> QED BY <1>1, <3>1, <3>2
  <2>4. iter[1 .. k+1] = ApplyAction(iter[1 .. k], acts[k+1])
    BY <1>9, <2>1, <2>2, <2>3
  <2> QED BY <1>1, <1>3, <1>12, <2>2, <2>4
<1> HIDE DEF T
<1>13. 0 .. n \subseteq T
  BY <1>1, <1>11, <1>12, IntervalInduction
<1>14. n \in T
  BY <1>1, <1>13
<1>15. iter[1 .. n] \in Good
  BY <1>14 DEF T
<1> QED BY <1>1, <1>4, <1>10, <1>15 DEF base

LEMMA TrustInit1 == TrustInit => TrustInv
<1> SUFFICES ASSUME TrustInit PROVE TrustInv
  OBVIOUS
<1>1. MaxTimestamp \in Nat
  BY TrustStoreAssumption
<1> QED BY <1>1 DEF TrustInit, TrustInv, TrustTypeOK, DNsDistinct, RevocationStands

\* What a packet takes out and brings in.
LEMMA PacketKeepsTrust ==
  ASSUME TrustInv, NEW tup \in Tup, ApplyTup(tup)
  PROVE  TrustInv'
<1> DEFINE st == ApplyActions(tup)
           gone == {dn \in DN \ DNs(st.entries) :
                      st.ok /\ \E i \in DOMAIN tup.actions :
                                 tup.actions[i].type = "RevokeCa" /\ tup.actions[i].dn = dn}
           back == {dn \in DN : dn \in st.added /\ tup.timestamp > revokedAt[dn]}
<1>1. /\ entries \in Seq(CaEntry) /\ OneEntryEach(entries)
      /\ lastApplied \in 0..MaxTimestamp /\ revokedAt \in [DN -> 0..MaxTimestamp]
      /\ forgotten \subseteq DN
      /\ \A dn \in DN \ forgotten : revokedAt[dn] <= lastApplied
      /\ MaxTimestamp \in Nat
  BY TrustStoreAssumption DEF TrustInv, TrustTypeOK, DNsDistinct, OneEntryEach
<1>2. tup.timestamp \in 0..MaxTimestamp /\ tup.actions \in Seq(TupAction)
  <2>1. tup.timestamp \in 0..MaxTimestamp /\ tup.actions \in BoundedSeq(TupAction, MaxActions)
    BY DEF Tup
  <2>2. tup.actions \in UNION {[1..m -> TupAction] : m \in 0..MaxActions}
    BY <2>1 DEF BoundedSeq, SeqOf
  <2>3. PICK m \in 0..MaxActions : tup.actions \in [1..m -> TupAction]
    BY <2>2
  <2>4. m \in Nat
    BY TrustStoreAssumption
  <2>5. tup.actions \in Seq(TupAction)
    BY <2>3, <2>4, SeqDef
  <2> QED BY <2>1, <2>5
<1>3. GoodFold(st)
  BY <1>1, <1>2, PacketKeepsFold DEF ApplyActions
<1>4. /\ tup.timestamp > lastApplied
      /\ entries' = st.entries
      /\ lastApplied' = IF st.ok THEN tup.timestamp ELSE lastApplied
      /\ revokedAt' = [dn \in DN |-> IF dn \in gone THEN tup.timestamp
                                    ELSE IF dn \in back THEN 0 ELSE revokedAt[dn]]
      /\ forgotten' = forgotten \ (gone \union back)
      /\ file' = file
  BY DEF ApplyTup, Newer
<1>5. /\ \A dn \in gone : dn \notin DNs(st.entries) /\ st.ok
      /\ \A dn \in DN : dn \in back <=> dn \in st.added /\ tup.timestamp > revokedAt[dn]
  OBVIOUS
<1> HIDE DEF st, gone, back
<1>6. /\ st.entries \in Seq(CaEntry) /\ st.ok \in BOOLEAN
      /\ OneEntryEach(st.entries)
      /\ DNs(st.entries) \subseteq DNs(entries) \union st.added
  BY <1>3 DEF GoodFold, FoldState
<1>7. ASSUME NEW dn \in DN
      PROVE  /\ revokedAt'[dn] \in 0..MaxTimestamp
             /\ dn \notin forgotten' => revokedAt'[dn] <= lastApplied'
  <2>1. /\ revokedAt'[dn] = IF dn \in gone THEN tup.timestamp
                            ELSE IF dn \in back THEN 0 ELSE revokedAt[dn]
        /\ dn \notin forgotten' => dn \in gone \/ dn \in back \/ dn \notin forgotten
    BY <1>4
  <2>2. /\ revokedAt[dn] \in 0..MaxTimestamp /\ (dn \notin forgotten => revokedAt[dn] <= lastApplied)
        /\ lastApplied < tup.timestamp /\ lastApplied \in Nat /\ tup.timestamp \in Nat
    BY <1>1, <1>2, <1>4
  <2>3. lastApplied' \in Nat /\ lastApplied <= lastApplied' /\ (st.ok => lastApplied' = tup.timestamp)
    BY <1>4, <2>2
  <2>4. dn \in gone => st.ok
    BY <1>5
  <2> QED BY <1>1, <1>2, <2>1, <2>2, <2>3, <2>4
<1>8. TrustTypeOK'
  <2>1. lastApplied' \in 0..MaxTimestamp
    BY <1>1, <1>2, <1>4
  <2>2. revokedAt' = [dn \in DN |-> revokedAt'[dn]]
    BY <1>4
  <2>3. revokedAt' \in [DN -> 0..MaxTimestamp]
    BY <1>7, <2>2
  <2>4. forgotten' \subseteq DN
    BY <1>1, <1>4
  <2> QED BY <1>4, <1>6, <2>1, <2>3, <2>4 DEF TrustTypeOK, TrustInv
<1>9. DNsDistinct'
  BY <1>4, <1>6 DEF DNsDistinct, OneEntryEach
<1>10. RevocationStands'
  <2> SUFFICES ASSUME NEW i \in DOMAIN entries'
               PROVE  revokedAt'[entries'[i].dn] = 0 \/ entries'[i].dn \in forgotten'
    BY DEF RevocationStands
  <2> DEFINE dn == entries'[i].dn
  <2>1. dn \in DN /\ dn \in DNs(st.entries)
    <3>1. i \in DOMAIN st.entries /\ dn = st.entries[i].dn
      BY <1>4
    <3>2. st.entries[i] \in CaEntry
      BY <1>6, <3>1
    <3> QED BY <3>1, <3>2 DEF DNs, CaEntry
  <2> HIDE DEF dn
  <2>2. dn \notin gone
    BY <1>5, <2>1
  <2>3. dn \in st.added \/ revokedAt[dn] = 0 \/ dn \in forgotten
    <3>1. CASE dn \in DNs(entries)
      <4>1. PICK k \in DOMAIN entries : entries[k].dn = dn
        BY <3>1 DEF DNs
      <4> QED BY <4>1 DEF TrustInv, RevocationStands
    <3> QED BY <1>6, <2>1, <3>1
  <2>4. /\ dn \notin forgotten => tup.timestamp > revokedAt[dn]
        /\ revokedAt'[dn] = IF dn \in back THEN 0 ELSE revokedAt[dn]
        /\ dn \in forgotten' <=> dn \in forgotten /\ dn \notin back
    BY <1>1, <1>2, <1>4, <2>1, <2>2
  <2>5. revokedAt'[dn] = 0 \/ dn \in forgotten'
    BY <1>5, <2>1, <2>3, <2>4
  <2> QED BY <2>5 DEF dn
<1> QED BY <1>4, <1>7, <1>8, <1>9, <1>10 DEF TrustInv

\* The rounds of load's loop: a list that was read without an error holds as
\* many of the file's entries as there were rounds, in their order.
LEMMA ReadSoFar ==
  ASSUME NEW es \in Seq(CaEntry)
  PROVE  LET read == FoldLeft(ReadEntry, [ok |-> TRUE, cursor |-> 0, loaded |-> <<>>], es)
         IN  read.ok => read.loaded = es
<1> DEFINE n == Len(es)
           base == [ok |-> TRUE, cursor |-> 0, loaded |-> <<>>]
           States == [ok : BOOLEAN, cursor : Nat, loaded : Seq(CaEntry)]
           F == [i \in 1 .. n |-> [st \in States |-> ReadEntry(st, es[i])]]
           Eq(g) == g = [s \in SUBSET DOMAIN es |-> IF s = {} THEN base
                            ELSE ReadEntry(g[s \ {Max(s)}], es[Max(s)])]
           iter == CHOOSE g : Eq(g)
<1>1. n \in Nat /\ DOMAIN es = 1 .. n /\ \A i \in 1 .. n : es[i] \in CaEntry
  OBVIOUS
<1>2. base \in States
  OBVIOUS
<1>3. \A st \in States, e \in CaEntry :
        /\ ReadEntry(st, e) \in States
        /\ ReadEntry(st, e).ok => st.ok /\ ReadEntry(st, e).loaded = Append(st.loaded, e)
  <2> SUFFICES ASSUME NEW st \in States, NEW e \in CaEntry
               PROVE  /\ ReadEntry(st, e) \in States
                      /\ ReadEntry(st, e).ok => st.ok /\ ReadEntry(st, e).loaded = Append(st.loaded, e)
    OBVIOUS
  <2> DEFINE failed == [st EXCEPT !.ok = FALSE]
             longer == [ok |-> TRUE, cursor |-> st.cursor + 2, loaded |-> Append(st.loaded, e)]
  <2>1. ReadEntry(st, e) = failed \/ (st.ok /\ ReadEntry(st, e) = longer)
    BY DEF ReadEntry
  <2>2. failed \in States /\ ~failed.ok
    OBVIOUS
  <2>3. longer \in States /\ longer.loaded = Append(st.loaded, e)
    OBVIOUS
  <2> HIDE DEF failed, longer
  <2> QED BY <2>1, <2>2, <2>3
<1> HIDE DEF base, States
<1>4. F \in [1 .. n -> [States -> States]]
  BY <1>1, <1>3
<1>5. PICK g : IsFold(g, n, States, base, F)
  <2> HIDE DEF n, F
  <2> QED BY <1>1, <1>2, <1>4, SubsetFold
<1>6. ASSUME NEW s \in SUBSET (1 .. n), s # {}
      PROVE  F[Max(s)][g[s \ {Max(s)}]] = ReadEntry(g[s \ {Max(s)}], es[Max(s)])
  <2>1. Max(s) \in 1 .. n /\ s \ {Max(s)} \in SUBSET (1 .. n)
    BY <1>1, <1>6, MaxExists
  <2> QED BY <2>1, <1>5 DEF IsFold
<1>7. Eq(g)
  BY <1>1, <1>5, <1>6 DEF IsFold
<1>8. Eq(iter)
  <2> HIDE DEF Eq
  <2> QED BY <1>7
<1>9. FoldLeft(ReadEntry, base, es) = iter[DOMAIN es]
  BY DEF FoldLeft, MapThenFoldSet
<1> HIDE DEF iter
<1> DEFINE T == {k \in 0 .. n : /\ iter[1 .. k] \in States
                                /\ iter[1 .. k].ok =>
                                     /\ Len(iter[1 .. k].loaded) = k
                                     /\ \A j \in 1 .. k : iter[1 .. k].loaded[j] = es[j]}
<1>10. 0 \in T
  <2>1. iter[1 .. 0] = base
    BY <1>1, <1>8
  <2>2. Len(base.loaded) = 0
    BY DEF base
  <2> QED BY <1>1, <1>2, <2>1, <2>2
<1>11. ASSUME NEW k \in 0 .. n-1, k \in T PROVE k + 1 \in T
  <2>1. Max(1 .. k+1) = k + 1
    <3>1. 1 .. k+1 \subseteq Int /\ k+1 \in 1 .. k+1 /\ \A x \in 1 .. k+1 : x <= k+1
      BY <1>1
    <3> QED BY <3>1, MaxIs
  <2>2. (1 .. k+1) \ {k+1} = 1 .. k /\ k+1 \in 1 .. n /\ k+1 \in 0 .. n /\ k \in Nat
    BY <1>1
  <2>3. 1 .. k+1 \in SUBSET (DOMAIN es) /\ 1 .. k+1 # {}
    <3>1. k \in Nat /\ k+1 <= n /\ k+1 \in 1 .. k+1
      BY <1>1
    <3>2. 1 .. k+1 \subseteq 1 .. n
      BY <1>1, <3>1
    <3> QED BY <1>1, <3>1, <3>2
  <2>4. iter[1 .. k+1] = ReadEntry(iter[1 .. k], es[k+1])
    BY <1>8, <2>1, <2>2, <2>3
  <2> DEFINE a == iter[1 .. k]
             b == iter[1 .. k+1]
  <2>5. a \in States /\ es[k+1] \in CaEntry
    BY <1>1, <1>11, <2>2
  <2>6. b \in States /\ (b.ok => a.ok /\ b.loaded = Append(a.loaded, es[k+1]))
    BY <1>3, <2>4, <2>5
  <2>7. a.ok => Len(a.loaded) = k /\ \A j \in 1 .. k : a.loaded[j] = es[j]
    BY <1>11
  <2>8. a.loaded \in Seq(CaEntry)
    BY <2>5 DEF States
  <2> HIDE DEF a, b
  <2>9. ASSUME b.ok
        PROVE  Len(b.loaded) = k + 1 /\ \A j \in 1 .. k+1 : b.loaded[j] = es[j]
    <3>1. /\ Len(a.loaded) = k /\ \A j \in 1 .. k : a.loaded[j] = es[j]
          /\ b.loaded = Append(a.loaded, es[k+1])
      BY <2>6, <2>7, <2>9
    <3>2. /\ Len(b.loaded) = k + 1 /\ b.loaded[k+1] = es[k+1]
          /\ \A j \in 1 .. k : b.loaded[j] = a.loaded[j]
      BY <2>2, <2>8, <3>1
    <3>3. \A j \in 1 .. k+1 : j \in 1 .. k \/ j = k+1
      BY <2>2
    <3> QED BY <3>1, <3>2, <3>3
  <2> QED BY <2>2, <2>6, <2>9 DEF b
<1> HIDE DEF T
<1>12. 0 .. n \subseteq T
  BY <1>1, <1>10, <1>11, IntervalInduction
<1> DEFINE read == iter[1 .. n]
<1>13. read \in States /\ (read.ok => Len(read.loaded) = n /\ \A j \in 1 .. n : read.loaded[j] = es[j])
  <2>1. n \in T
    BY <1>1, <1>12
  <2> QED BY <2>1 DEF T
<1>14. read.loaded \in Seq(CaEntry)
  BY <1>13 DEF States
<1> HIDE DEF read
<1>15. read.ok => read.loaded = es
  BY <1>1, <1>13, <1>14
<1>16. FoldLeft(ReadEntry, base, es) = read
  BY <1>1, <1>9 DEF read
<1> QED BY <1>15, <1>16 DEF base

\* What load leaves in the store.
LEMMA LoadsWhatWasSaved ==
  ASSUME TrustInv, Load
  PROVE  entries' = entries \/ (file # NoFile /\ entries' = file.saved)
<1>1. CASE file # NoFile /\ file.written >= 0 /\ ReadFile.ok
  <2>1. file.saved \in Seq(CaEntry)
    BY <1>1 DEF TrustInv, TrustTypeOK
  <2>2. ReadFile.loaded = file.saved
    BY <1>1, <2>1, ReadSoFar DEF ReadFile
  <2> QED BY <1>1, <2>2 DEF Load
<1>2. CASE ~(file # NoFile /\ file.written >= 0 /\ ReadFile.ok)
  BY <1>2 DEF Load
<1> QED BY <1>1, <1>2

\* One step per action of the store; those of the loader leave it alone.
LEMMA NextKeepsTrust ==
  ASSUME TrustInv, [Next]_vars
  PROVE  TrustInv'
<1>0. MaxTimestamp \in Nat /\ \A dn \in DN : revokedAt[dn] \in Nat
  BY TrustStoreAssumption DEF TrustInv, TrustTypeOK
<1>1. ASSUME NEW tup \in Tup, ApplyTup(tup) PROVE TrustInv'
  BY <1>1, PacketKeepsTrust
<1>2. ASSUME NEW n \in -1..2 * Len(entries), Save(n) PROVE TrustInv'
  <2>1. /\ file' = [saved |-> entries, written |-> n]
        /\ entries' = entries /\ lastApplied' = lastApplied /\ revokedAt' = revokedAt
        /\ forgotten' = forgotten
    BY <1>2 DEF Save
  <2>2. file'.saved = entries /\ file'.written = n
    BY <2>1
  <2> QED BY <2>1, <2>2 DEF TrustInv, TrustTypeOK, DNsDistinct, RevocationStands, OneEntryEach
<1>3. \A i \in DOMAIN entries : entries[i].dn \in DN
  <2>1. \A i \in DOMAIN entries : entries[i] \in CaEntry
    BY DEF TrustInv, TrustTypeOK
  <2> QED BY <2>1 DEF CaEntry
<1>4. CASE Load
  <2>1. /\ file' = file /\ lastApplied' = lastApplied /\ revokedAt' = revokedAt
        /\ forgotten' = forgotten \union {dn \in DNs(entries') : revokedAt[dn] # 0}
    BY <1>4 DEF Load
  <2>2. entries' \in Seq(CaEntry) /\ OneEntryEach(entries')
    BY <1>4, LoadsWhatWasSaved DEF TrustInv, TrustTypeOK, DNsDistinct, OneEntryEach
  <2>3. DNs(entries') \subseteq DN
    <3>1. \A i \in DOMAIN entries' : entries'[i] \in CaEntry
      BY <2>2
    <3> QED BY <3>1 DEF CaEntry, DNs
  <2>4. TrustTypeOK'
    BY <2>1, <2>2, <2>3 DEF TrustInv, TrustTypeOK
  <2>5. DNsDistinct' /\ RevocationStands'
    <3>1. \A i \in DOMAIN entries' : entries'[i].dn \in DNs(entries')
      BY DEF DNs
    <3> QED BY <2>1, <2>2, <3>1 DEF DNsDistinct, RevocationStands, OneEntryEach
  <2> QED BY <2>1, <2>4, <2>5 DEF TrustInv
<1>5. CASE NewHandler
  <2>1. DNsDistinct' /\ (file' # NoFile => OneEntryEach(file'.saved))
    BY <1>5 DEF NewHandler, TrustInv, DNsDistinct
  <2>2. RevocationStands'
    BY <1>3, <1>5 DEF NewHandler, RevocationStands
  <2> QED BY <1>0, <1>5, <2>1, <2>2 DEF NewHandler, TrustInv, TrustTypeOK
<1>6. CASE Restart
  BY <1>0, <1>6 DEF Restart, TrustRestart, TrustInv, TrustTypeOK, DNsDistinct, RevocationStands
<1>7. CASE UNCHANGED trustVars
  BY <1>7 DEF trustVars, TrustInv, TrustTypeOK, DNsDistinct, RevocationStands
<1>8. CASE UNCHANGED vars
  BY <1>7, <1>8 DEF vars
<1>9. CASE TrustNext
  BY <1>1, <1>2, <1>4, <1>5, <1>9 DEF TrustNext
<1> QED BY <1>6, <1>7, <1>8, <1>9 DEF Next

LEMMA TrustHolds == Spec => []TrustInv
<1>1. Init => TrustInv
  BY TrustInit1 DEF Init
<1> QED BY <1>1, NextKeepsTrust, PTL DEF Spec

\* A DN has one entry at most, for any number of CAs, packets and actions.
THEOREM OneEntryPerDN == Spec => []DNsDistinct
<1>1. TrustInv => DNsDistinct
  BY DEF TrustInv
<1> QED BY <1>1, TrustHolds, PTL

\* What an applied packet revoked stays out until a newer one brings it back,
\* for any number of CAs, any packets and any order they arrive in, but for
\* what the code forgets with its handler or reads from a file.
THEOREM RevokedStaysOut == Spec => []RevocationStands
<1>1. TrustInv => RevocationStands
  BY DEF TrustInv
<1> QED BY <1>1, TrustHolds, PTL

\* load gives the store all that the last save was to write, or nothing, for
\* any store and wherever the writing of its file ended.
THEOREM LoadsAllOrNothing == Spec => LoadAllOrNothing
<1>1. TrustInv => [Load => entries' = entries \/ entries' = file.saved]_trustVars
  BY LoadsWhatWasSaved
<1> QED BY <1>1, TrustHolds, PTL DEF LoadAllOrNothing

-------------------------------------------------------------------------------
(* The level of a loaded plugin is that of an entry of the store.          *)

LevelInv == \A s \in Slots : plugins[s].level \in Nat

LEMMA VerifiesToALevel ==
  ASSUME TrustInv, NEW s
  PROVE  Verify(s) \in Nat
<1>1. Untrusted \in Nat /\ Levels \subseteq Nat
  BY TrustStoreAssumption DEF Untrusted
<1>2. ASSUME NEW dn PROVE CaLevel(dn) \in Nat
  <2> DEFINE i == FindByDN(entries, dn)
  <2>1. CaLevel(dn) = IF i = 0 THEN Untrusted ELSE entries[i].level
    BY DEF CaLevel
  <2>2. entries \in Seq(CaEntry)
    BY DEF TrustInv, TrustTypeOK
  <2>3. i # 0 => i \in DOMAIN entries
    BY <2>2, FoundByDN
  <2> HIDE DEF i
  <2>4. i # 0 => entries[i] \in CaEntry
    BY <2>2, <2>3
  <2>5. i # 0 => entries[i].level \in Levels
    BY <2>4 DEF CaEntry
  <2> QED BY <1>1, <2>1, <2>5
<1> QED BY <1>1, <1>2 DEF Verify

LEMMA NextKeepsLevels ==
  ASSUME LoaderInv, TrustInv, LevelInv, [Next]_vars
  PROVE  LevelInv'
<1>0. plugins = [s \in Slots |-> plugins[s]] /\ 0 \in Nat
  BY DEF LoaderInv
<1>1. CASE UNCHANGED plugins
  BY <1>1 DEF LevelInv
<1>2. ASSUME NEW beside \in Sidecar, NEW s \in Slots, NEW created \in BOOLEAN,
             LoadInto(s, Verify(beside), created)
      PROVE  LevelInv'
  <2> DEFINE level == Verify(beside)
  <2>1. level \in Nat
    BY VerifiesToALevel
  <2>2. PICK p : p.level = level /\ plugins' = [plugins EXCEPT ![s] = p]
    <3>1. PICK ref : plugins' = [plugins EXCEPT ![s] =
                [handle |-> ref, instance |-> IF created THEN ref ELSE 0, level |-> level]]
      BY <1>2 DEF LoadInto
    <3> HIDE DEF level
    <3> QED BY <3>1
  <2> HIDE DEF level
  <2> QED BY <1>0, <2>1, <2>2 DEF LevelInv
<1>3. ASSUME NEW dst \in Slots, NEW src \in Slots, Move(dst, src) PROVE LevelInv'
  <2>1. plugins' = [plugins EXCEPT ![dst] = plugins[src], ![src] = Emptied(plugins[src])]
    BY <1>3 DEF Move
  <2>2. Emptied(plugins[src]).level = plugins[src].level
    BY DEF Emptied
  <2> QED BY <1>0, <2>1, <2>2 DEF LevelInv
<1>4. ASSUME NEW s \in Slots, Unload(s) PROVE LevelInv'
  <2>1. plugins' = [plugins EXCEPT ![s] = Emptied(plugins[s])]
    BY <1>4 DEF Unload
  <2>2. Emptied(plugins[s]).level = plugins[s].level
    BY DEF Emptied
  <2> QED BY <1>0, <2>1, <2>2 DEF LevelInv
<1>5. ASSUME NEW s \in Slots, Destroy(s) PROVE LevelInv'
  <2>1. plugins' = [plugins EXCEPT ![s] = NewPlugin] /\ NewPlugin.level = 0
    BY <1>5 DEF Destroy, NewPlugin
  <2> QED BY <1>0, <2>1 DEF LevelInv
<1>6. CASE Restart
  <2>1. plugins' = [s \in Slots |-> NewPlugin] /\ NewPlugin.level = 0
    BY <1>6 DEF Restart, NewPlugin
  <2> QED BY <1>0, <2>1 DEF LevelInv
<1>7. ASSUME NEW beside \in Sidecar, LoadFails(Verify(beside)) PROVE LevelInv'
  BY <1>1, <1>7 DEF LoadFails
<1>8. CASE LoaderNext
  BY <1>2, <1>3, <1>4, <1>5, <1>7, <1>8 DEF LoaderNext, LoadPlugin
<1>9. CASE UNCHANGED loaderVars \/ UNCHANGED vars
  BY <1>1, <1>9 DEF vars, loaderVars
<1> QED BY <1>6, <1>8, <1>9 DEF Next

\* The state of store, handler and loader has its type, whatever packets come
\* in and whatever is loaded.
THEOREM PluginsTyped == Spec => []TypeOK
<1>1. Init => LevelInv
  BY DEF Init, LoaderInit, NewPlugin, LevelInv
<1>2. Spec => []LoaderInv
  BY InitIsOwned, NextKeepsOwned, PTL DEF Spec
<1>3. LoaderInv /\ TrustInv /\ LevelInv => TypeOK
  BY DEF LoaderInv, LevelInv, TrustInv, TypeOK, LoaderTypeOK, IsPlugin
<1> QED BY <1>1, <1>2, <1>3, TrustHolds, NextKeepsLevels, PTL DEF Spec

-------------------------------------------------------------------------------
(***************************************************************************)
(* The manifest loaders, for manifests with any number of edits.           *)
(***************************************************************************)

ManifestsSpec == ManifestsInit /\ [][ManifestsNext]_manifestVars

\* Filter, element by element.
LEMMA FilterSteps ==
  ASSUME NEW S, NEW s \in Seq(S), NEW wanted
  PROVE  \E f :
           /\ f[0] = <<>>
           /\ \A k \in 0 .. Len(s) - 1 :
                f[k+1] = IF s[k+1] \in wanted THEN Append(f[k], s[k+1]) ELSE f[k]
           /\ Filter(s, wanted) = f[Len(s)]
<1> DEFINE n == Len(s)
           step(kept, e) == IF e \in wanted THEN Append(kept, e) ELSE kept
           F == [i \in 1 .. n |-> [kept \in Seq(S) |-> step(kept, s[i])]]
           Eq(g) == g = [t \in SUBSET DOMAIN s |-> IF t = {} THEN <<>>
                            ELSE step(g[t \ {Max(t)}], s[Max(t)])]
           iter == CHOOSE g : Eq(g)
           f == [k \in 0 .. n |-> iter[1 .. k]]
<1>1. n \in Nat /\ DOMAIN s = 1 .. n /\ <<>> \in Seq(S) /\ \A i \in 1 .. n : s[i] \in S
  OBVIOUS
<1>2. F \in [1 .. n -> [Seq(S) -> Seq(S)]]
  BY <1>1
<1>3. PICK g : IsFold(g, n, Seq(S), <<>>, F)
  <2> HIDE DEF n, F
  <2> QED BY <1>1, <1>2, SubsetFold
<1>4. ASSUME NEW t \in SUBSET (1 .. n), t # {}
      PROVE  F[Max(t)][g[t \ {Max(t)}]] = step(g[t \ {Max(t)}], s[Max(t)])
  <2>1. Max(t) \in 1 .. n /\ t \ {Max(t)} \in SUBSET (1 .. n)
    BY <1>1, <1>4, MaxExists
  <2> QED BY <2>1, <1>3 DEF IsFold
<1>5. Eq(g)
  <2> HIDE DEF step, F
  <2> QED BY <1>1, <1>3, <1>4 DEF IsFold
<1>6. Eq(iter)
  <2> HIDE DEF Eq
  <2> QED BY <1>5
<1>7. Filter(s, wanted) = iter[DOMAIN s]
  BY DEF Filter, FoldLeft, MapThenFoldSet
<1> HIDE DEF iter
<1>8. iter[1 .. 0] = <<>>
  BY <1>1, <1>6
<1>9. ASSUME NEW k \in 0 .. n - 1 PROVE iter[1 .. k+1] = step(iter[1 .. k], s[k+1])
  <2> HIDE DEF step, n
  <2>1. /\ 1 .. k+1 \in SUBSET (1 .. n) /\ 1 .. k+1 # {}
        /\ Max(1 .. k+1) = k + 1 /\ (1 .. k+1) \ {k+1} = 1 .. k
    BY <1>1, IntervalTop
  <2> QED BY <1>1, <1>6, <2>1
<1>10. f[0] = <<>> /\ f[n] = iter[DOMAIN s] /\ \A k \in 0 .. n - 1 : f[k+1] = step(f[k], s[k+1])
  <2>1. \A k \in 0 .. n : f[k] = iter[1 .. k]
    OBVIOUS
  <2>2. 0 \in 0 .. n /\ n \in 0 .. n /\ \A k \in 0 .. n-1 : k \in 0 .. n /\ k+1 \in 0 .. n
    BY <1>1
  <2> HIDE DEF f, step
  <2> QED BY <1>1, <1>8, <1>9, <2>1, <2>2
<1> HIDE DEF f
<1> QED BY <1>7, <1>10

\* The sequences of a manifest have at most two elements.
LEMMA FilterShort ==
  ASSUME NEW a, NEW b, NEW wanted
  PROVE  /\ Filter(<<>>, wanted) = <<>>
         /\ Filter(<<a>>, wanted) = IF a \in wanted THEN <<a>> ELSE <<>>
         /\ Filter(<<a, b>>, wanted) =
              IF a \in wanted THEN IF b \in wanted THEN <<a, b>> ELSE <<a>>
              ELSE IF b \in wanted THEN <<b>> ELSE <<>>
<1>1. Filter(<<>>, wanted) = <<>>
  <2> DEFINE s == <<>>
  <2>1. s \in Seq({a}) /\ Len(s) = 0
    OBVIOUS
  <2> HIDE DEF s
  <2>2. Filter(s, wanted) = <<>>
    BY <2>1, FilterSteps
  <2> QED BY <2>2 DEF s
<1>2. Filter(<<a>>, wanted) = IF a \in wanted THEN <<a>> ELSE <<>>
  <2> DEFINE s == <<a>>
  <2>1. s \in Seq({a}) /\ Len(s) = 1 /\ s[1] = a /\ Append(<<>>, a) = <<a>>
    OBVIOUS
  <2> HIDE DEF s
  <2>2. PICK f : /\ f[0] = <<>>
                 /\ \A k \in 0 .. Len(s) - 1 :
                      f[k+1] = IF s[k+1] \in wanted THEN Append(f[k], s[k+1]) ELSE f[k]
                 /\ Filter(s, wanted) = f[Len(s)]
    BY <2>1, FilterSteps
  <2>3. f[0+1] = IF s[0+1] \in wanted THEN Append(f[0], s[0+1]) ELSE f[0]
    <3>1. 0 \in 0 .. Len(s) - 1
      BY <2>1
    <3> QED BY <3>1, <2>2
  <2> QED BY <2>1, <2>2, <2>3 DEF s
<1>3. Filter(<<a, b>>, wanted) =
              IF a \in wanted THEN IF b \in wanted THEN <<a, b>> ELSE <<a>>
              ELSE IF b \in wanted THEN <<b>> ELSE <<>>
  <2> DEFINE s == <<a, b>>
  <2>1. /\ s \in Seq({a, b}) /\ Len(s) = 2 /\ s[1] = a /\ s[2] = b
        /\ Append(<<>>, a) = <<a>> /\ Append(<<>>, b) = <<b>> /\ Append(<<a>>, b) = <<a, b>>
    <3>1. s \in Seq({a, b}) /\ Len(s) = 2 /\ s[1] = a /\ s[2] = b
      OBVIOUS
    <3>2. Append(<<>>, a) = <<a>>
      OBVIOUS
    <3>3. Append(<<>>, b) = <<b>>
      OBVIOUS
    <3>4. Append(<<a>>, b) = <<a, b>>
      <4> DEFINE one == <<a>>
      <4>1. one \in Seq({a, b}) /\ b \in {a, b} /\ Len(one) = 1 /\ one[1] = a
        OBVIOUS
      <4> HIDE DEF one
      <4>2. /\ Append(one, b) \in Seq({a, b}) /\ Len(Append(one, b)) = 2
            /\ Append(one, b)[1] = a /\ Append(one, b)[2] = b
        <5>1. /\ Append(one, b) \in Seq({a, b}) /\ Len(Append(one, b)) = Len(one) + 1
              /\ \A i \in 1 .. Len(one) : Append(one, b)[i] = one[i]
              /\ Append(one, b)[Len(one) + 1] = b
          BY <4>1, AppendProperties, ZenonT(40)
        <5> QED BY <4>1, <5>1
      <4>3. \A t \in Seq({a, b}) : Len(t) = 2 /\ t[1] = a /\ t[2] = b => t = <<a, b>>
        BY <3>1, SeqEqual
      <4> QED BY <4>2, <4>3 DEF one
    <3> QED BY <3>1, <3>2, <3>3, <3>4
  <2> HIDE DEF s
  <2>2. PICK f : /\ f[0] = <<>>
                 /\ \A k \in 0 .. Len(s) - 1 :
                      f[k+1] = IF s[k+1] \in wanted THEN Append(f[k], s[k+1]) ELSE f[k]
                 /\ Filter(s, wanted) = f[Len(s)]
    BY <2>1, FilterSteps
  <2>3. f[0+1] = IF s[0+1] \in wanted THEN Append(f[0], s[0+1]) ELSE f[0]
    <3>1. 0 \in 0 .. Len(s) - 1
      BY <2>1
    <3> QED BY <3>1, <2>2
  <2>4. f[1+1] = IF s[1+1] \in wanted THEN Append(f[1], s[1+1]) ELSE f[1]
    <3>1. 1 \in 0 .. Len(s) - 1
      BY <2>1
    <3> QED BY <3>1, <2>2
  <2>5. f[1] = IF a \in wanted THEN <<a>> ELSE <<>>
    BY <2>1, <2>2, <2>3
  <2>6. f[2] = IF b \in wanted THEN Append(f[1], b) ELSE f[1]
    BY <2>1, <2>4
  <2>7. Filter(s, wanted) = f[2]
    BY <2>1, <2>2
  <2> QED BY <2>1, <2>5, <2>6, <2>7 DEF s
<1> QED BY <1>1, <1>2, <1>3

-----------------------------------------------------------------------------
\* The shape of a manifest.
Texts == {"good", Absent, Empty, "odd", "1..2", "escaped", "number"}

ImplementationLists ==
  LET CppEntries == EntriesOf("cpp")
      PyEntries == EntriesOf("python")
  IN  {<<>>} \union {<<e>> : e \in CppEntries \union PyEntries}
        \union {<<c, p>> : c \in CppEntries, p \in PyEntries} \union {<<p, c>> : c \in CppEntries, p \in PyEntries}

VersionTexts == {"1", "1.0", "1.5", "one", "2", "true"}
TypeTexts == {"LAYER", "TRUST_UPDATE", "odd", "escaped", Absent}
CertLists == {Absent, "none", "entry", "faulty"}
WithStray(keys) == [keys \union {"type", "manifestVersion"} -> Strays]

PluginManifests ==
  [kind : {"plugin"}, manifestVersion : VersionTexts, type : TypeTexts,
   strings : [PluginStrings -> Texts], stray : WithStray(PluginStrings),
   capabilities : CapabilityLists, mentioned : SUBSET {"cpp", "python"},
   implementations : ImplementationLists]

TupManifests ==
  [kind : {"tup"}, manifestVersion : VersionTexts, type : TypeTexts,
   strings : [TupStrings -> Texts], stray : WithStray(TupStrings),
   addCerts : CertLists, revokeCerts : CertLists,
   selfRevocationGuard : {"on", "off", Absent}, spaced : BOOLEAN]

ManifestInv == manifest \in PluginManifests \union TupManifests

LEMMA ManifestsStart == ManifestsInit => ManifestInv
<1>1. GoodPlugin \in PluginManifests
  <2>1. [language |-> "python", artifact |-> "good", sha256 |-> "sum"] \in EntriesOf("python")
    BY DEF EntriesOf, Sums
  <2>2. <<[language |-> "python", artifact |-> "good", sha256 |-> "sum"]>> \in ImplementationLists
    BY <2>1 DEF ImplementationLists
  <2>3. NoStray(PluginStrings) \in WithStray(PluginStrings)
    BY DEF NoStray, WithStray, Strays
  <2>4. <<"train">> \in CapabilityLists /\ [key \in PluginStrings |-> "good"] \in [PluginStrings -> Texts]
    BY DEF CapabilityLists, Texts
  <2> QED BY <2>2, <2>3, <2>4 DEF GoodPlugin, PluginManifests, VersionTexts, TypeTexts
<1>2. GoodTup \in TupManifests
  <2>1. NoStray(TupStrings) \in WithStray(TupStrings)
    BY DEF NoStray, WithStray, Strays
  <2>2. [key \in TupStrings |-> "good"] \in [TupStrings -> Texts]
    BY DEF Texts
  <2> QED BY <2>1, <2>2 DEF GoodTup, TupManifests, VersionTexts, TypeTexts, CertLists
<1> QED BY <1>1, <1>2 DEF ManifestsInit, ManifestInv

LEMMA KindOfManifest ==
  ASSUME ManifestInv
  PROVE  IF manifest.kind = "plugin" THEN manifest \in PluginManifests
         ELSE manifest.kind = "tup" /\ manifest \in TupManifests
BY DEF ManifestInv, PluginManifests, TupManifests

LEMMA EditKeepsManifest == ManifestInv /\ [ManifestsNext]_manifestVars => ManifestInv'
<1> SUFFICES ASSUME ManifestInv, [ManifestsNext]_manifestVars PROVE ManifestInv'
  OBVIOUS
<1>0. manifest \in PluginManifests \/ manifest \in TupManifests
  BY DEF ManifestInv
<1>1. ASSUME NEW key \in DOMAIN manifest.strings,
             NEW s \in {Absent, Empty, "odd", "escaped", "number"}
                         \union (IF key = "minStudioVersion" THEN {"1..2"} ELSE {}),
             EditString(key, s)
      PROVE  ManifestInv'
  <2> DEFINE new == [manifest.strings EXCEPT ![key] = s]
  <2>1. s \in Texts
    BY <1>1 DEF Texts, Absent, Empty
  <2>2. manifest' = [manifest EXCEPT !.strings = new]
    BY <1>1 DEF EditString, EditTo
  <2>3. CASE manifest \in PluginManifests
    <3>1. new \in [PluginStrings -> Texts]
      BY <2>1, <2>3 DEF PluginManifests
    <3> HIDE DEF new
    <3> QED BY <2>2, <2>3, <3>1 DEF ManifestInv, PluginManifests
  <2>4. CASE manifest \in TupManifests
    <3>1. new \in [TupStrings -> Texts]
      BY <2>1, <2>4 DEF TupManifests
    <3> HIDE DEF new
    <3> QED BY <2>2, <2>4, <3>1 DEF ManifestInv, TupManifests
  <2> QED BY <1>0, <2>3, <2>4
<1>2. ASSUME NEW key \in DOMAIN manifest.stray, NEW where \in Strays, EditStray(key, where) PROVE ManifestInv'
  <2> DEFINE new == [manifest.stray EXCEPT ![key] = where]
  <2>1. manifest' = [manifest EXCEPT !.stray = new]
    BY <1>2 DEF EditStray, EditTo
  <2>2. CASE manifest \in PluginManifests
    <3>1. new \in WithStray(PluginStrings)
      BY <2>2 DEF PluginManifests, WithStray
    <3> HIDE DEF new
    <3> QED BY <2>1, <2>2, <3>1 DEF ManifestInv, PluginManifests
  <2>3. CASE manifest \in TupManifests
    <3>1. new \in WithStray(TupStrings)
      BY <2>3 DEF TupManifests, WithStray
    <3> HIDE DEF new
    <3> QED BY <2>1, <2>3, <3>1 DEF ManifestInv, TupManifests
  <2> QED BY <1>0, <2>2, <2>3
<1>3. ASSUME NEW v \in {"1.0", "1.5", "2", "one", "true"}, EditVersion(v) PROVE ManifestInv'
  <2>1. manifest' = [manifest EXCEPT !.manifestVersion = v] /\ v \in VersionTexts
    BY <1>3 DEF EditVersion, EditTo, VersionTexts
  <2> QED BY <1>0, <2>1 DEF ManifestInv, PluginManifests, TupManifests
<1>4. ASSUME NEW t \in {"LAYER", "TRUST_UPDATE", "odd", "escaped", Absent}, EditType(t) PROVE ManifestInv'
  <2>1. manifest' = [manifest EXCEPT !.type = t] /\ t \in TypeTexts
    BY <1>4 DEF EditType, EditTo, TypeTexts
  <2> QED BY <1>0, <2>1 DEF ManifestInv, PluginManifests, TupManifests
<1>5. ASSUME NEW c \in EntriesOf("cpp"), NEW p \in EntriesOf("python"),
             NEW es \in {<<>>, <<c>>, <<p>>, <<c, p>>, <<p, c>>}, EditImplementations(es)
      PROVE  ManifestInv'
  <2>1. manifest \in PluginManifests /\ manifest' = [manifest EXCEPT !.implementations = es]
    BY <1>5, KindOfManifest DEF EditImplementations, EditTo
  <2>2. es \in ImplementationLists
    BY <1>5 DEF ImplementationLists
  <2> QED BY <2>1, <2>2 DEF ManifestInv, PluginManifests
<1>6. ASSUME NEW cs \in CapabilityLists, EditCapabilities(cs) PROVE ManifestInv'
  <2>1. manifest \in PluginManifests /\ manifest' = [manifest EXCEPT !.capabilities = cs]
    BY <1>6, KindOfManifest DEF EditCapabilities, EditTo
  <2> QED BY <2>1 DEF ManifestInv, PluginManifests
<1>7. ASSUME NEW langs \in SUBSET {"cpp", "python"}, EditMentioned(langs) PROVE ManifestInv'
  <2>1. manifest \in PluginManifests /\ manifest' = [manifest EXCEPT !.mentioned = langs]
    BY <1>7, KindOfManifest DEF EditMentioned, EditTo
  <2> QED BY <2>1 DEF ManifestInv, PluginManifests
<1>8. ASSUME NEW add \in CertLists, NEW revoke \in CertLists, NEW where \in {"key above", "key below"},
             EditCerts(add, revoke, where)
      PROVE  ManifestInv'
  <2> DEFINE here == IF revoke \in {"entry", "faulty"} THEN where ELSE "none"
             m1 == [manifest EXCEPT !.addCerts = add]
             m2 == [m1 EXCEPT !.revokeCerts = revoke]
             new == [m2.stray EXCEPT !["issuerSubject"] = here]
  <2>1. manifest \in TupManifests /\ manifest' = [m2 EXCEPT !.stray = new]
    BY <1>8, KindOfManifest DEF EditCerts, EditTo
  <2>2. m1 \in TupManifests
    BY <2>1 DEF TupManifests
  <2> HIDE DEF m1
  <2>3. m2 \in TupManifests
    BY <2>2 DEF TupManifests
  <2> HIDE DEF m2
  <2>4. new \in WithStray(TupStrings)
    <3>1. here \in Strays
      BY DEF Strays
    <3> QED BY <2>3, <3>1 DEF TupManifests, WithStray
  <2> HIDE DEF new
  <2> QED BY <2>1, <2>3, <2>4 DEF ManifestInv, TupManifests
<1>9. ASSUME NEW flag \in {"on", "off", Absent}, NEW spaced \in BOOLEAN, EditFlag(flag, spaced)
      PROVE  ManifestInv'
  <2> DEFINE m1 == [manifest EXCEPT !.selfRevocationGuard = flag]
  <2>1. manifest \in TupManifests /\ manifest' = [m1 EXCEPT !.spaced = spaced]
    BY <1>9, KindOfManifest DEF EditFlag, EditTo
  <2>2. m1 \in TupManifests
    BY <2>1 DEF TupManifests
  <2> HIDE DEF m1
  <2> QED BY <2>1, <2>2 DEF ManifestInv, TupManifests
<1>10. CASE UNCHANGED manifestVars
  BY <1>10 DEF manifestVars, ManifestInv
<1> QED BY <1>1, <1>2, <1>3, <1>4, <1>5, <1>6, <1>7, <1>8, <1>9, <1>10 DEF ManifestsNext, CertLists

-----------------------------------------------------------------------------
\* A manifest has at most one entry of a language, wherever it stands.
LEMMA OwnEntries ==
  ASSUME NEW m \in PluginManifests, NEW lang \in {"cpp", "python"}
  PROVE  /\ Entries(m, lang) = <<>> \/ \E e \in EntriesOf(lang) : Entries(m, lang) = <<e>>
         /\ Entries(m, lang) # <<>> =>
              \E i \in DOMAIN m.implementations : m.implementations[i] = Entries(m, lang)[1]
         /\ m.implementations # <<>> /\ m.implementations[1].language = lang => Entries(m, lang) # <<>>
<1> DEFINE s == m.implementations
           wanted == {e \in ToSet(s) : e.language = lang}
           Good(own) == /\ own = <<>> \/ \E e \in EntriesOf(lang) : own = <<e>>
                        /\ own # <<>> => \E i \in DOMAIN s : s[i] = own[1]
                        /\ s # <<>> /\ s[1].language = lang => own # <<>>
<1>1. Entries(m, lang) = Filter(s, wanted)
  BY DEF Entries
<1>2. s \in ImplementationLists
  BY DEF PluginManifests
<1>3. \A e : e \in wanted <=> (\E i \in DOMAIN s : s[i] = e) /\ e.language = lang
  BY DEF ToSet
<1> HIDE DEF s, wanted
<1>4. \A l \in {"cpp", "python"} : \A e \in EntriesOf(l) : e.language = l
  BY DEF EntriesOf
<1>5. ASSUME s = <<>> PROVE Good(Filter(s, wanted))
  <2>1. Filter(s, wanted) = <<>>
    BY <1>5, FilterShort
  <2> QED BY <1>5, <2>1
<1>6. ASSUME NEW l \in {"cpp", "python"}, NEW e \in EntriesOf(l), s = <<e>> PROVE Good(Filter(s, wanted))
  <2>1. e \in wanted <=> l = lang
    BY <1>3, <1>4, <1>6
  <2>2. Filter(s, wanted) = IF l = lang THEN <<e>> ELSE <<>>
    BY <1>6, <2>1, FilterShort
  <2> QED BY <1>4, <1>6, <2>2
<1>7. ASSUME NEW k \in {"cpp", "python"}, NEW l \in {"cpp", "python"}, k # l,
             NEW d \in EntriesOf(k), NEW e \in EntriesOf(l), s = <<d, e>>
      PROVE  Good(Filter(s, wanted))
  <2>1. (d \in wanted <=> k = lang) /\ (e \in wanted <=> l = lang)
    BY <1>3, <1>4, <1>7
  <2>2. Filter(s, wanted) = IF k = lang THEN <<d>> ELSE <<e>>
    BY <1>7, <2>1, FilterShort
  <2>3. k = lang \/ l = lang
    BY <1>7
  <2> QED BY <1>7, <2>2, <2>3
<1>8. \/ s = <<>>
      \/ \E l \in {"cpp", "python"} : \E e \in EntriesOf(l) : s = <<e>>
      \/ \E d \in EntriesOf("cpp"), e \in EntriesOf("python") : s = <<d, e>> \/ s = <<e, d>>
  BY <1>2 DEF ImplementationLists
<1>9. Good(Filter(s, wanted))
  <2>1. ASSUME NEW d \in EntriesOf("cpp"), NEW e \in EntriesOf("python"), s = <<d, e>> \/ s = <<e, d>>
        PROVE  Good(Filter(s, wanted))
    <3> HIDE DEF Good
    <3> QED BY <1>7, <2>1
  <2> HIDE DEF Good
  <2> QED BY <1>5, <1>6, <1>8, <2>1
<1> QED BY <1>1, <1>9 DEF s

\* What the scanner finds for a language, if nothing misleads it and each
\* entry is complete, is the entry.
LEMMA FoundIsEntry ==
  ASSUME NEW m \in PluginManifests, NEW lang \in {"cpp", "python"}, m.mentioned = {},
         \A i \in DOMAIN m.implementations :
           m.implementations[i].artifact = "good" /\ m.implementations[i].sha256 \in Sums
  PROVE  LET own == Entries(m, lang)
         IN  (IF own # <<>> /\ Given(own[1].artifact) /\ Given(CppEntry(m, lang))
              THEN <<[language |-> lang, artifact |-> CppValue(own[1].artifact), sha256 |-> CppEntry(m, lang)]>>
              ELSE <<>>) = own
<1> DEFINE own == Entries(m, lang)
<1>1. CASE own = <<>>
  BY <1>1
<1>2. ASSUME NEW e \in EntriesOf(lang), own = <<e>>
      PROVE  (IF own # <<>> /\ Given(own[1].artifact) /\ Given(CppEntry(m, lang))
              THEN <<[language |-> lang, artifact |-> CppValue(own[1].artifact), sha256 |-> CppEntry(m, lang)]>>
              ELSE <<>>) = own
  <2> DEFINE wanted == {d \in ToSet(m.implementations) : d.sha256 # Absent}
  <2>1. PICK i \in DOMAIN m.implementations : m.implementations[i] = e
    BY <1>2, OwnEntries
  <2>2. /\ e.artifact = "good" /\ Given(e.artifact) /\ CppValue(e.artifact) = e.artifact
        /\ Given(e.sha256) /\ CppValue(e.sha256) = e.sha256 /\ e.sha256 # Absent
    <3>1. e.artifact = "good" /\ e.sha256 \in Sums
      BY <2>1
    <3> QED BY <3>1 DEF Given, Sums, Absent, Empty, CppValue
  <2>3. e \in wanted
    BY <2>1, <2>2 DEF ToSet
  <2>4. Filter(own, wanted) = <<e>>
    <3> HIDE DEF wanted, own
    <3> QED BY <1>2, <2>3, FilterShort
  <2>5. CppEntry(m, lang) = e.sha256
    <3> HIDE DEF wanted
    <3>1. CppEntry(m, lang) = CppValue(Filter(own, wanted)[1].sha256)
      BY <1>2, <2>4 DEF CppEntry, wanted
    <3> QED BY <2>2, <2>4, <3>1
  <2>6. e = [language |-> lang, artifact |-> e.artifact, sha256 |-> e.sha256]
    BY DEF EntriesOf
  <2> QED BY <1>2, <2>2, <2>5, <2>6
<1>3. own = <<>> \/ \E e \in EntriesOf(lang) : own = <<e>>
  BY OwnEntries
<1> QED BY <1>1, <1>2, <1>3

\* A string without escapes is the same to both loaders.
LEMMA PlainValue ==
  ASSUME NEW v \in Texts \ {"escaped", "number"}
  PROVE  /\ (CppValue(v) # Empty <=> Given(v)) /\ (Given(v) => CppValue(v) = v) /\ PyValue(v) = v
         /\ (PyMatches(v) <=> v = "good")
BY DEF Texts, CppValue, PyValue, PyMatches, Given, Absent, Empty

\* The version and the type of a plain document.
LEMMA PlainHead ==
  ASSUME ManifestInv, Plain(manifest), NEW type \in {"LAYER", "TRUST_UPDATE"}
  PROVE  /\ CppInt(manifest) = 1 <=> PyVersion(manifest)
         /\ CppType(manifest) = type <=> PyType(manifest, type)
<1>1. manifest.manifestVersion \in VersionTexts /\ manifest.type \in TypeTexts
  BY DEF ManifestInv, PluginManifests, TupManifests
<1>2. /\ manifest.manifestVersion \notin {"1.0", "1.5", "true"}
      /\ Met(manifest, "manifestVersion", manifest.manifestVersion)
      /\ manifest.type # "escaped" /\ Met(manifest, "type", manifest.type)
  BY DEF Plain
<1>3. CppInt(manifest) = 1 <=> PyVersion(manifest)
  BY <1>1, <1>2 DEF VersionTexts, CppInt, PyVersion
<1>4. CppType(manifest) = type <=> PyType(manifest, type)
  BY <1>1, <1>2 DEF TypeTexts, CppType, PyType, CppValue, Absent, Empty
<1> QED BY <1>3, <1>4

LEMMA PluginLoadersAgree ==
  ASSUME ManifestInv, manifest \in PluginManifests, Plain(manifest),
         PyPlugin(manifest).ok \/ InForm(manifest)
  PROVE  CppPlugin(manifest) = PyPlugin(manifest)
<1> DEFINE m == manifest
           strings == [key \in PluginStrings |-> CppString(m, key)]
           pyStrings == [key \in PluginStrings |-> PyValue(m.strings[key])]
           capabilities == CppCapabilities(m)
           pyCapabilities == [i \in DOMAIN m.capabilities |-> PyValue(m.capabilities[i])]
           found == CppImplementations(m)
           pyFound == PyImplementations(m)
           Loads == /\ CppInt(m) = 1
                    /\ CppType(m) = "LAYER"
                    /\ \A key \in PluginStrings : strings[key] # Empty
                    /\ CppSemver(strings["minStudioVersion"])
                    /\ capabilities # <<>>
                    /\ found # <<>>
                    /\ \A i \in DOMAIN found : CppSha(found[i].sha256)
           Accepts == /\ PyVersion(m)
                      /\ PyType(m, "LAYER")
                      /\ \A key \in PluginStrings : Given(m.strings[key])
                      /\ \A key \in {"id", "version", "minStudioVersion"} : PyMatches(m.strings[key])
                      /\ m.capabilities # <<>>
                      /\ m.implementations # <<>>
                      /\ \A i \in DOMAIN m.implementations :
                           Given(m.implementations[i].artifact) /\ m.implementations[i].sha256 \in Sums \union {"escaped"}
<1>1. CppPlugin(m) = IF Loads THEN [ok |-> TRUE, strings |-> strings, capabilities |-> capabilities,
                                    implementations |-> found]
                     ELSE [ok |-> FALSE]
  BY DEF CppPlugin, Rejected
<1>2. PyPlugin(m) = IF Accepts THEN [ok |-> TRUE, strings |-> pyStrings, capabilities |-> pyCapabilities,
                                     implementations |-> pyFound]
                    ELSE [ok |-> FALSE]
  BY DEF PyPlugin, Rejected
<1>3. PyPlugin(m).ok <=> Accepts
  <2> HIDE DEF Accepts, m
  <2> QED BY <1>2
<1>4. /\ m.strings \in [PluginStrings -> Texts] /\ m.kind = "plugin" /\ DOMAIN m.strings = PluginStrings
      /\ m.capabilities \in CapabilityLists /\ m.implementations \in ImplementationLists
  BY DEF PluginManifests
<1>5. /\ \A key \in PluginStrings : m.strings[key] \in Texts \ {"escaped", "number"} /\ Met(m, key, m.strings[key])
      /\ \A i \in DOMAIN m.capabilities : m.capabilities[i] \notin {Empty, "escaped", "number"}
      /\ \A i \in DOMAIN m.implementations :
           m.implementations[i].artifact # "escaped" /\ m.implementations[i].sha256 # "escaped"
      /\ m.mentioned = {}
  BY <1>4 DEF Plain
<1>6. {"id", "version", "minStudioVersion"} \subseteq PluginStrings
  BY DEF PluginStrings
<1>7. ASSUME NEW i \in DOMAIN m.implementations
      PROVE  m.implementations[i] \in EntriesOf("cpp") \union EntriesOf("python")
  BY <1>4 DEF ImplementationLists
<1>8. /\ m.strings["id"] = "good" /\ m.strings["version"] = "good" /\ m.strings["minStudioVersion"] # "1..2"
      /\ \A i \in DOMAIN m.implementations :
           m.implementations[i].artifact = "good" /\ m.implementations[i].sha256 \in Sums
  <2>1. CASE InForm(m)
    BY <1>4, <2>1 DEF InForm
  <2>2. CASE Accepts
    <3>1. \A key \in {"id", "version", "minStudioVersion"} : m.strings[key] = "good"
      BY <1>5, <1>6, <2>2, PlainValue
    <3>2. ASSUME NEW i \in DOMAIN m.implementations
          PROVE  m.implementations[i].artifact = "good" /\ m.implementations[i].sha256 \in Sums
      <4>1. m.implementations[i].artifact \in {"good", Absent, "escaped"}
        BY <1>7 DEF EntriesOf
      <4>2. Given(m.implementations[i].artifact) /\ m.implementations[i].sha256 \in Sums \union {"escaped"}
        BY <2>2
      <4> QED BY <1>5, <4>1, <4>2 DEF Given
    <3> QED BY <3>1, <3>2
  <2> QED BY <1>3, <2>1, <2>2
<1>9. \A key \in PluginStrings : /\ strings[key] # Empty <=> Given(m.strings[key])
                                 /\ Given(m.strings[key]) => strings[key] = pyStrings[key]
  <2> SUFFICES ASSUME NEW key \in PluginStrings
               PROVE  /\ strings[key] # Empty <=> Given(m.strings[key])
                      /\ Given(m.strings[key]) => strings[key] = pyStrings[key]
    OBVIOUS
  <2>1. strings[key] = CppValue(m.strings[key]) /\ pyStrings[key] = PyValue(m.strings[key])
    BY <1>5 DEF CppString
  <2> HIDE DEF strings, pyStrings
  <2> QED BY <1>5, <2>1, PlainValue
<1>10. CppSemver(strings["minStudioVersion"]) <=> PyMatches(m.strings["minStudioVersion"])
  <2> DEFINE v == m.strings["minStudioVersion"]
  <2>1. /\ strings["minStudioVersion"] = CppValue(v) /\ v \in Texts \ {"escaped", "number", "1..2"}
        /\ m.strings["minStudioVersion"] = v
    BY <1>5, <1>6, <1>8 DEF CppString
  <2> HIDE DEF v, strings
  <2> QED BY <2>1 DEF Texts, CppValue, CppSemver, PyMatches, Absent, Empty
<1>11. capabilities = m.capabilities /\ pyCapabilities = m.capabilities
  <2>1. CASE m.capabilities = <<>>
    <3> DEFINE wanted == {c \in ToSet(m.capabilities) : c \notin {Empty, "number"}}
               given == Filter(m.capabilities, wanted)
    <3>0. given = <<>>
      <4> HIDE DEF wanted
      <4> QED BY <2>1, FilterShort
    <3>1. CppCapabilities(m) = <<>>
      <4>1. CppCapabilities(m) = [i \in DOMAIN given |-> IF given[i] = "escaped" THEN "raw" ELSE given[i]]
        BY DEF CppCapabilities
      <4> HIDE DEF given
      <4> QED BY <3>0, <4>1
    <3>2. pyCapabilities = <<>>
      BY <2>1
    <3> QED BY <2>1, <3>1, <3>2
  <2>2. CASE m.capabilities = <<"train">>
    <3> DEFINE wanted == {c \in ToSet(m.capabilities) : c \notin {Empty, "number"}}
    <3>1. "train" \in wanted
      BY <2>2 DEF ToSet, Empty
    <3>2. Filter(m.capabilities, wanted) = <<"train">>
      <4> HIDE DEF wanted
      <4> QED BY <2>2, <3>1, FilterShort
    <3>3. CppCapabilities(m) = [i \in DOMAIN <<"train">> |-> IF <<"train">>[i] = "escaped" THEN "raw" ELSE <<"train">>[i]]
      <4>1. CppCapabilities(m) = LET given == Filter(m.capabilities, wanted)
                                 IN  [i \in DOMAIN given |-> IF given[i] = "escaped" THEN "raw" ELSE given[i]]
        BY DEF CppCapabilities
      <4> HIDE DEF wanted
      <4> QED BY <3>2, <4>1
    <3>4. CppCapabilities(m) = <<"train">>
      BY <3>3
    <3>5. pyCapabilities = <<"train">>
      BY <2>2 DEF PyValue
    <3> QED BY <2>2, <3>4, <3>5
  <2>3. m.capabilities = <<>> \/ m.capabilities = <<"train">>
    BY <1>4, <1>5 DEF CapabilityLists
  <2> QED BY <2>1, <2>2, <2>3
<1>12. /\ found = pyFound /\ (found # <<>> <=> m.implementations # <<>>)
       /\ \A i \in DOMAIN found : CppSha(found[i].sha256)
  <2> DEFINE Complete == {e \in EntriesOf("cpp") \union EntriesOf("python") : e.artifact = "good" /\ e.sha256 \in Sums}
             cpp == Entries(m, "cpp")
             python == Entries(m, "python")
  <2>1. ASSUME NEW lang \in {"cpp", "python"} PROVE Entries(m, lang) \in Seq(Complete)
    <3>1. CASE Entries(m, lang) = <<>>
      BY <3>1
    <3>2. CASE Entries(m, lang) # <<>>
      <4>1. PICK e \in EntriesOf(lang) : Entries(m, lang) = <<e>>
        BY <3>2, OwnEntries
      <4>2. PICK i \in DOMAIN m.implementations : m.implementations[i] = e
        BY <4>1, OwnEntries
      <4>3. e \in Complete
        BY <1>8, <4>2
      <4> HIDE DEF Complete
      <4> QED BY <4>1, <4>3
    <3> QED BY <3>1, <3>2
  <2>2. found = cpp \o python
    <3>1. \A lang \in {"cpp", "python"} :
            (LET own == Entries(m, lang)
             IN  (IF own # <<>> /\ Given(own[1].artifact) /\ Given(CppEntry(m, lang))
                  THEN <<[language |-> lang, artifact |-> CppValue(own[1].artifact), sha256 |-> CppEntry(m, lang)]>>
                  ELSE <<>>) = own)
      BY <1>5, <1>8, FoundIsEntry
    <3> QED BY <3>1 DEF CppImplementations
  <2>3. cpp \in Seq(Complete) /\ python \in Seq(Complete)
    BY <2>1
  <2>4. pyFound = [i \in DOMAIN (cpp \o python) |->
                     [(cpp \o python)[i] EXCEPT !.artifact = PyValue(@), !.sha256 = PyValue(@)]]
    BY DEF PyImplementations
  <2>5. ASSUME NEW e \in Complete
        PROVE  CppSha(e.sha256) /\ [e EXCEPT !.artifact = PyValue(@), !.sha256 = PyValue(@)] = e
    <3>1. e.artifact = "good" /\ e.sha256 \in Sums
          /\ e \in [language : {"cpp", "python"}, artifact : {"good", Absent, "escaped"},
                    sha256 : Sums \union {"capitals", "odd", Absent, "escaped"}]
      BY DEF EntriesOf
    <3>2. PyValue(e.artifact) = e.artifact /\ PyValue(e.sha256) = e.sha256
      BY <3>1 DEF PyValue, Sums
    <3>3. CppSha(e.sha256)
      BY <3>1 DEF CppSha
    <3> HIDE DEF Complete
    <3> QED BY <3>1, <3>2, <3>3
  <2>6. m.implementations # <<>> => cpp # <<>> \/ python # <<>>
    <3> SUFFICES ASSUME m.implementations # <<>> PROVE cpp # <<>> \/ python # <<>>
      OBVIOUS
    <3>1. m.implementations[1].language \in {"cpp", "python"}
      BY <1>4 DEF ImplementationLists, EntriesOf
    <3> QED BY <3>1, OwnEntries
  <2>7. m.implementations = <<>> => cpp = <<>> /\ python = <<>>
    <3>1. ASSUME NEW lang \in {"cpp", "python"}, m.implementations = <<>> PROVE Entries(m, lang) = <<>>
      <4>1. \A i \in DOMAIN m.implementations : FALSE
        BY <3>1
      <4> QED BY <4>1, OwnEntries
    <3> QED BY <3>1
  <2> HIDE DEF Complete, cpp, python, found, pyFound
  <2>8. cpp \o python \in Seq(Complete) /\ Len(cpp \o python) = Len(cpp) + Len(python)
    BY <2>3, ConcatProperties
  <2>9. found = pyFound
    <3> DEFINE both == cpp \o python
    <3>1. both \in Seq(Complete) /\ \A i \in DOMAIN both : both[i] \in Complete
      BY <2>8
    <3>2. \A i \in DOMAIN both : [both[i] EXCEPT !.artifact = PyValue(@), !.sha256 = PyValue(@)] = both[i]
      BY <2>5, <3>1
    <3>4. pyFound = [i \in DOMAIN both |-> [both[i] EXCEPT !.artifact = PyValue(@), !.sha256 = PyValue(@)]]
      BY <2>4
    <3> HIDE DEF both
    <3>3. both = [i \in DOMAIN both |-> both[i]]
      BY <3>1
    <3>5. pyFound = [i \in DOMAIN both |-> both[i]]
      BY <3>2, <3>4
    <3> QED BY <2>2, <3>3, <3>5 DEF both
  <2>10. found # <<>> <=> m.implementations # <<>>
    <3>1. /\ Len(cpp) \in Nat /\ Len(python) \in Nat /\ (Len(cpp) = 0 <=> cpp = <<>>)
          /\ (Len(python) = 0 <=> python = <<>>)
      BY <2>3
    <3>2. found \in Seq(Complete) /\ (Len(found) = 0 <=> found = <<>>)
      BY <2>2, <2>8
    <3> QED BY <2>2, <2>6, <2>7, <2>8, <3>1, <3>2
  <2>11. \A i \in DOMAIN found : CppSha(found[i].sha256)
    <3>1. found \in Seq(Complete)
      BY <2>2, <2>8
    <3>2. \A i \in DOMAIN found : found[i] \in Complete
      BY <3>1
    <3> QED BY <2>5, <3>2
  <2> QED BY <2>9, <2>10, <2>11
<1>13. CppInt(m) = 1 <=> PyVersion(m)
  BY PlainHead
<1>14. CppType(m) = "LAYER" <=> PyType(m, "LAYER")
  BY PlainHead
<1>15. Loads <=> Accepts
  <2>1. \A i \in DOMAIN m.implementations :
          Given(m.implementations[i].artifact) /\ m.implementations[i].sha256 \in Sums \union {"escaped"}
    <3>1. Given("good")
      BY DEF Given, Absent, Empty
    <3> QED BY <1>8, <3>1
  <2>2. PyMatches(m.strings["id"]) /\ PyMatches(m.strings["version"])
    BY <1>8 DEF PyMatches
  <2>3. (\A key \in PluginStrings : strings[key] # Empty) <=> (\A key \in PluginStrings : Given(m.strings[key]))
    BY <1>9
  <2>4. capabilities # <<>> <=> m.capabilities # <<>>
    BY <1>11
  <2>5. found # <<>> /\ (\A i \in DOMAIN found : CppSha(found[i].sha256)) <=> m.implementations # <<>>
    BY <1>12
  <2> HIDE DEF strings, pyStrings, capabilities, pyCapabilities, found, pyFound, m
  <2> QED BY <1>10, <1>13, <1>14, <2>1, <2>2, <2>3, <2>4, <2>5
<1>16. ASSUME Accepts PROVE strings = pyStrings /\ capabilities = pyCapabilities /\ found = pyFound
  <2>1. \A key \in PluginStrings : strings[key] = pyStrings[key]
    BY <1>9, <1>16
  <2>2. strings = pyStrings
    BY <2>1
  <2> QED BY <1>11, <1>12, <2>2
<1> HIDE DEF Loads, Accepts, strings, pyStrings, capabilities, pyCapabilities, found, pyFound
<1>17. CASE Accepts
  BY <1>1, <1>2, <1>15, <1>16, <1>17
<1>18. CASE ~Accepts
  BY <1>1, <1>2, <1>15, <1>18
<1> QED BY <1>17, <1>18

LEMMA TupLoadersAgree ==
  ASSUME ManifestInv, manifest \in TupManifests, Plain(manifest),
         PyTup(manifest).ok \/ InForm(manifest)
  PROVE  CppTup(manifest) = PyTup(manifest)
<1> DEFINE m == manifest
           strings == [key \in TupStrings |-> CppString(m, key)]
           pyStrings == [key \in TupStrings |-> PyValue(m.strings[key])]
           off == m.selfRevocationGuard # "off"
           Loads == /\ CppInt(m) = 1
                    /\ CppType(m) = "TRUST_UPDATE"
                    /\ \A key \in TupStrings : strings[key] # Empty
           Accepts == /\ PyVersion(m)
                      /\ PyType(m, "TRUST_UPDATE")
                      /\ \A key \in TupStrings : Given(m.strings[key])
                      /\ PyMatches(m.strings["id"]) /\ PyMatches(m.strings["version"])
                      /\ m.addCerts \in {"none", "entry"}
                      /\ m.revokeCerts \in {"none", "entry"}
<1>1. CppTup(m) = IF Loads THEN [ok |-> TRUE, strings |-> strings, selfRevocationGuard |-> CppFlag(m)]
                  ELSE [ok |-> FALSE]
  BY DEF CppTup, Rejected
<1>2. PyTup(m) = IF Accepts THEN [ok |-> TRUE, strings |-> pyStrings, selfRevocationGuard |-> off]
                 ELSE [ok |-> FALSE]
  BY DEF PyTup, Rejected
<1>3. PyTup(m).ok <=> Accepts
  <2> HIDE DEF Accepts, m
  <2> QED BY <1>2
<1>4. /\ m.strings \in [TupStrings -> Texts] /\ m.kind = "tup" /\ DOMAIN m.strings = TupStrings
  BY DEF TupManifests
<1>5. /\ \A key \in TupStrings : m.strings[key] \in Texts \ {"escaped", "number"} /\ Met(m, key, m.strings[key])
      /\ m.spaced
  BY <1>4 DEF Plain
<1>6. /\ PyMatches(m.strings["id"]) /\ PyMatches(m.strings["version"])
      /\ m.addCerts \in {"none", "entry"} /\ m.revokeCerts \in {"none", "entry"}
  <2>1. CASE InForm(m)
    BY <1>4, <2>1 DEF InForm, PyMatches
  <2>2. CASE Accepts
    BY <2>2
  <2> QED BY <1>3, <2>1, <2>2
<1>7. \A key \in TupStrings : /\ strings[key] # Empty <=> Given(m.strings[key])
                              /\ Given(m.strings[key]) => strings[key] = pyStrings[key]
  <2> SUFFICES ASSUME NEW key \in TupStrings
               PROVE  /\ strings[key] # Empty <=> Given(m.strings[key])
                      /\ Given(m.strings[key]) => strings[key] = pyStrings[key]
    OBVIOUS
  <2>1. strings[key] = CppValue(m.strings[key]) /\ pyStrings[key] = PyValue(m.strings[key])
    BY <1>5 DEF CppString
  <2> HIDE DEF strings, pyStrings
  <2> QED BY <1>5, <2>1, PlainValue
<1>8. CppFlag(m) = off
  BY <1>5 DEF CppFlag
<1>9. CppInt(m) = 1 <=> PyVersion(m)
  BY PlainHead
<1>10. CppType(m) = "TRUST_UPDATE" <=> PyType(m, "TRUST_UPDATE")
  BY PlainHead
<1>11. Loads <=> Accepts
  <2>1. (\A key \in TupStrings : strings[key] # Empty) <=> (\A key \in TupStrings : Given(m.strings[key]))
    BY <1>7
  <2> HIDE DEF strings, m
  <2> QED BY <1>6, <1>9, <1>10, <2>1
<1>12. ASSUME Accepts PROVE strings = pyStrings
  <2>1. \A key \in TupStrings : strings[key] = pyStrings[key]
    BY <1>7, <1>12
  <2> QED BY <2>1
<1> HIDE DEF Loads, Accepts, strings, pyStrings, off
<1>13. CASE Accepts
  BY <1>1, <1>2, <1>8, <1>11, <1>12, <1>13
<1>14. CASE ~Accepts
  BY <1>1, <1>2, <1>11, <1>14
<1> QED BY <1>13, <1>14

\* For manifests with any number of edits: of a document that the scanner reads
\* as a parser does, the C++ loader takes what the Python one accepts, field
\* by field, and refuses what it refuses unless one of the forms is broken that
\* only the Python loader asks for.
THEOREM LoadersAgree == ManifestsSpec => []ManifestsAgree
<1>1. ManifestInv => ManifestsAgree
  <2> SUFFICES ASSUME ManifestInv, Plain(manifest), Py(manifest).ok \/ InForm(manifest)
               PROVE  Cpp(manifest) = Py(manifest)
    BY DEF ManifestsAgree
  <2>1. CASE manifest.kind = "plugin"
    <3>1. manifest \in PluginManifests
      BY <2>1, KindOfManifest
    <3> QED BY <2>1, <3>1, PluginLoadersAgree DEF Cpp, Py
  <2>2. CASE manifest.kind # "plugin"
    <3>1. manifest \in TupManifests
      BY <2>2, KindOfManifest
    <3> QED BY <2>2, <3>1, TupLoadersAgree DEF Cpp, Py
  <2> QED BY <2>1, <2>2
<1> QED BY <1>1, ManifestsStart, EditKeepsManifest, PTL DEF ManifestsSpec

-----------------------------------------------------------------------------

(***************************************************************************)
(* The tokenizer, with any rules.  What a rule makes takes part in no rule *)
(* before it (MergesAssumption), so once a rule applies nowhere no later   *)
(* rule gives it a place again: the rounds of bpeWord, each of which takes *)
(* the first rule that has a place, go through the table rule by rule, as  *)
(* Reference does.  The sequence of the rounds passes through what each    *)
(* rule leaves, and ends when no rule has a place.                         *)
(***************************************************************************)

\* The least of some numbers.
LEMMA MinIs ==
  ASSUME NEW S, S \subseteq Nat, S # {}
  PROVE  Min(S) \in S /\ \A x \in S : Min(S) <= x
<1>1. \E x \in S : \A y \in S : x <= y
  BY LeastNatural
<1> QED BY <1>1 DEF Min

\* The number of rules in use.
RuleCount == Len(Merges)

\* The ranks of the table.
LEMMA RanksAre ==
  /\ RuleCount \in Nat /\ DOMAIN Merges = 1 .. RuleCount
  /\ \A r \in DOMAIN Merges : r \in Nat /\ r >= 1 /\ r <= RuleCount
<1>1. Merges \in Seq(Seq(STRING) \X Seq(STRING))
  BY MergesAssumption
<1>2. RuleCount \in Nat /\ DOMAIN Merges = 1 .. RuleCount
  BY <1>1 DEF RuleCount
<1> QED BY <1>2

\* A merge takes one symbol away.
LEMMA MergedIs ==
  ASSUME NEW A, NEW s \in Seq(Seq(A)), NEW i \in 1 .. Len(s) - 1
  PROVE  /\ Merged(s, i) \in Seq(Seq(A)) /\ Len(Merged(s, i)) = Len(s) - 1
         /\ Merged(s, i)[i] = s[i] \o s[i+1]
         /\ \A k \in 1 .. i - 1 : Merged(s, i)[k] = s[k]
         /\ \A k \in i + 1 .. Len(s) - 1 : Merged(s, i)[k] = s[k+1]
<1> DEFINE n == Len(s)
           a == SubSeq(s, 1, i - 1)
           p == s[i] \o s[i+1]
           b == <<p>>
           c == SubSeq(s, i + 2, n)
           m == (a \o b) \o c
<1>1. n \in Nat /\ i \in Nat /\ i >= 1 /\ i + 1 <= n /\ \A k \in 1 .. n : s[k] \in Seq(A)
  OBVIOUS
<1>2. /\ a \in Seq(Seq(A)) /\ Len(a) = i - 1 /\ \A k \in 1 .. i - 1 : a[k] = s[k]
  <2>1. 1 \in Int /\ i - 1 \in Int /\ \A k \in 1 .. i - 1 : s[k] \in Seq(A)
    BY <1>1
  <2> DEFINE j == i - 1
  <2>2. j \in Nat /\ \A k \in 1 .. j : s[k] \in Seq(A)
    BY <1>1
  <2> HIDE DEF j
  <2>3. /\ SubSeq(s, 1, j) \in Seq(Seq(A)) /\ Len(SubSeq(s, 1, j)) = IF 1 <= j THEN j - 1 + 1 ELSE 0
        /\ \A k \in 1 .. j - 1 + 1 : SubSeq(s, 1, j)[k] = s[1 + k - 1]
    BY <2>2, SubSeqProperties
  <2>4. /\ Len(SubSeq(s, 1, j)) = j
        /\ \A k \in 1 .. j : SubSeq(s, 1, j)[k] = s[k]
    BY <2>2, <2>3
  <2> QED BY <2>3, <2>4 DEF j
<1>3. /\ c \in Seq(Seq(A)) /\ Len(c) = n - i - 1 /\ \A k \in 1 .. n - i - 1 : c[k] = s[k+i+1]
  <2> DEFINE j == i + 2
  <2>1. j \in Int /\ n \in Int /\ \A k \in j .. n : s[k] \in Seq(A)
    BY <1>1
  <2> HIDE DEF j, n
  <2>2. /\ SubSeq(s, j, n) \in Seq(Seq(A)) /\ Len(SubSeq(s, j, n)) = IF j <= n THEN n - j + 1 ELSE 0
        /\ \A k \in 1 .. n - j + 1 : SubSeq(s, j, n)[k] = s[j + k - 1]
    BY <2>1, SubSeqProperties
  <2>3. n - j + 1 = n - i - 1 /\ \A k \in 1 .. n - i - 1 : j + k - 1 = k + i + 1
    BY <1>1 DEF j
  <2>4. Len(SubSeq(s, j, n)) = n - i - 1
    BY <1>1, <2>2 DEF j
  <2> QED BY <2>2, <2>3, <2>4 DEF j
<1>4. p \in Seq(A) /\ b \in Seq(Seq(A)) /\ Len(b) = 1 /\ b[1] = p
  <2>1. s[i] \in Seq(A) /\ s[i+1] \in Seq(A)
    BY <1>1
  <2>2. p \in Seq(A)
    BY <2>1, ConcatProperties
  <2> HIDE DEF p
  <2> QED BY <2>2
<1> HIDE DEF a, b, c, p, n
<1>5. /\ a \o b \in Seq(Seq(A)) /\ Len(a \o b) = Len(a) + Len(b)
      /\ \A k \in 1 .. Len(a) + Len(b) : (a \o b)[k] = IF k <= Len(a) THEN a[k] ELSE b[k - Len(a)]
  BY <1>2, <1>4, ConcatProperties
<1> DEFINE e == a \o b
<1>6. e \in Seq(Seq(A)) /\ Len(e) = i /\ e[i] = p /\ \A k \in 1 .. i - 1 : e[k] = s[k]
  BY <1>1, <1>2, <1>4, <1>5
<1> HIDE DEF e
<1>7. /\ e \o c \in Seq(Seq(A)) /\ Len(e \o c) = Len(e) + Len(c)
      /\ \A k \in 1 .. Len(e) + Len(c) : (e \o c)[k] = IF k <= Len(e) THEN e[k] ELSE c[k - Len(e)]
  <2>1. e \in Seq(Seq(A)) /\ c \in Seq(Seq(A))
    BY <1>3, <1>6
  <2> QED BY <2>1, ConcatProperties
<1>8. m = e \o c
  BY DEF e
<1> HIDE DEF m
<1>9. m \in Seq(Seq(A)) /\ Len(m) = n - 1 /\ m[i] = p /\ \A k \in 1 .. i - 1 : m[k] = s[k]
  <2>1. m \in Seq(Seq(A)) /\ Len(m) = n - 1
    BY <1>1, <1>3, <1>6, <1>7, <1>8
  <2>2. \A k \in 1 .. i : k \in 1 .. Len(e) + Len(c) /\ k <= Len(e)
    BY <1>1, <1>3, <1>6
  <2>3. \A k \in 1 .. i : m[k] = e[k]
    BY <1>7, <1>8, <2>2
  <2>4. i \in 1 .. i /\ \A k \in 1 .. i - 1 : k \in 1 .. i
    BY <1>1
  <2> HIDE DEF m, e
  <2> QED BY <1>6, <2>1, <2>3, <2>4
<1>10. ASSUME NEW k \in i + 1 .. n - 1 PROVE m[k] = s[k+1]
  <2>1. k \in 1 .. Len(e) + Len(c) /\ ~(k <= Len(e)) /\ k - i \in 1 .. n - i - 1 /\ (k - i) + i + 1 = k + 1
    BY <1>1, <1>3, <1>6
  <2> QED BY <1>3, <1>6, <1>7, <1>8, <2>1
<1>11. Merged(s, i) = m
  BY DEF Merged, m, a, b, c, p, n
<1> QED BY <1>9, <1>10, <1>11 DEF p, n

\* A merge makes no place for a rule before its own.
LEMMA OrderKept ==
  ASSUME NEW A, NEW s \in Seq(Seq(A)), NEW r \in DOMAIN Merges, NEW q \in DOMAIN Merges, q < r,
         NEW i \in PlacesOf(r, s), PlacesOf(q, s) = {}
  PROVE  PlacesOf(q, Merged(s, i)) = {}
<1> DEFINE n == Len(s)
           m == Merged(s, i)
           IsPair(x, y, k) == x = Merges[k][1] /\ y = Merges[k][2]
<1>0. n \in Nat /\ i \in 1 .. n - 1 /\ <<s[i], s[i+1]>> = Merges[r]
  BY DEF PlacesOf
<1>1. s[i] = Merges[r][1] /\ s[i+1] = Merges[r][2]
  BY <1>0
<1>2. /\ Len(m) = n - 1 /\ m[i] = s[i] \o s[i+1]
      /\ \A k \in 1 .. i - 1 : m[k] = s[k]
      /\ \A k \in i + 1 .. n - 1 : m[k] = s[k+1]
  BY <1>0, MergedIs
<1>3. m[i] # Merges[q][1] /\ m[i] # Merges[q][2]
  BY <1>1, <1>2, MergesAssumption DEF InOrder
<1> HIDE DEF m, n
<1>4. \A j \in 1 .. n - 1 : <<s[j], s[j+1]>> # Merges[q]
  BY DEF PlacesOf, n
<1>5. ASSUME NEW j \in PlacesOf(q, m) PROVE FALSE
  <2>1. j \in 1 .. n - 2 /\ <<m[j], m[j+1]>> = Merges[q]
    BY <1>0, <1>2 DEF PlacesOf
  <2>2. m[j] = Merges[q][1] /\ m[j+1] = Merges[q][2]
    BY <2>1
  <2>3. j # i /\ j + 1 # i
    BY <1>3, <2>2
  <2>4. CASE j + 1 < i
    <3>1. m[j] = s[j] /\ m[j+1] = s[j+1]
      BY <1>0, <1>2, <2>1, <2>4
    <3> QED BY <1>0, <1>4, <2>1, <3>1
  <2>5. CASE i < j
    <3>1. m[j] = s[j+1] /\ m[j+1] = s[(j+1)+1] /\ j + 1 \in 1 .. n - 1
      BY <1>0, <1>2, <2>1, <2>5
    <3> QED BY <1>4, <2>1, <3>1
  <2> QED BY <1>0, <2>1, <2>3, <2>4, <2>5
<1> QED BY <1>5 DEF m

\* A rule that applies takes one symbol away.
LEMMA AppliedIs ==
  ASSUME NEW A, NEW s \in Seq(Seq(A)), NEW r \in DOMAIN Merges
  PROVE  /\ Applied(s, r) \in Seq(Seq(A))
         /\ PlacesOf(r, s) = {} => Applied(s, r) = s
         /\ PlacesOf(r, s) # {} => /\ Len(s) > 1 /\ Len(Applied(s, r)) = Len(s) - 1
                                   /\ \E i \in PlacesOf(r, s) : Applied(s, r) = Merged(s, i)
<1>1. CASE PlacesOf(r, s) = {}
  BY <1>1 DEF Applied
<1>2. CASE PlacesOf(r, s) # {}
  <2> DEFINE i == Min(PlacesOf(r, s))
  <2>1. PlacesOf(r, s) \subseteq Nat
    BY DEF PlacesOf
  <2>2. i \in PlacesOf(r, s)
    BY <1>2, <2>1, MinIs
  <2>3. i \in 1 .. Len(s) - 1
    BY <2>2 DEF PlacesOf
  <2>4. Applied(s, r) = Merged(s, i)
    BY <1>2 DEF Applied
  <2> HIDE DEF i
  <2>5. Merged(s, i) \in Seq(Seq(A)) /\ Len(Merged(s, i)) = Len(s) - 1
    BY <2>3, MergedIs
  <2>6. Len(s) > 1
    BY <2>3
  <2> QED BY <1>2, <2>2, <2>4, <2>5, <2>6
<1> QED BY <1>1, <1>2

\* The rules before it stay without a place.
LEMMA AppliedInOrder ==
  ASSUME NEW A, NEW s \in Seq(Seq(A)), NEW r \in DOMAIN Merges, NEW q \in DOMAIN Merges, q < r,
         PlacesOf(q, s) = {}
  PROVE  PlacesOf(q, Applied(s, r)) = {}
<1>1. CASE PlacesOf(r, s) = {}
  BY <1>1, AppliedIs
<1>2. CASE PlacesOf(r, s) # {}
  <2>1. PICK i \in PlacesOf(r, s) : Applied(s, r) = Merged(s, i)
    BY <1>2, AppliedIs
  <2>2. PlacesOf(q, Merged(s, i)) = {}
    BY OrderKept
  <2> QED BY <2>1, <2>2
<1> QED BY <1>1, <1>2

\* A round applies the first rule that has a place.
LEMMA RoundIs ==
  ASSUME NEW s, NEW r \in DOMAIN Merges, PlacesOf(r, s) # {},
         \A q \in DOMAIN Merges : q < r => PlacesOf(q, s) = {}
  PROVE  Round(s) = Applied(s, r)
<1>1. r \in Ranks(s) /\ Ranks(s) \subseteq Nat /\ \A q \in Ranks(s) : q \in Nat /\ ~(q < r)
  BY RanksAre DEF Ranks
<1>2. Min(Ranks(s)) \in Ranks(s) /\ \A q \in Ranks(s) : Min(Ranks(s)) <= q
  BY <1>1, MinIs
<1>3. Min(Ranks(s)) = r
  BY <1>1, <1>2
<1> QED BY <1>1, <1>3 DEF Round, Applied

\* A round keeps the symbols sequences of characters.
LEMMA RoundKeeps ==
  ASSUME NEW A, NEW s \in Seq(Seq(A))
  PROVE  Round(s) \in Seq(Seq(A))
<1>1. CASE Ranks(s) = {}
  BY <1>1 DEF Round
<1>2. CASE Ranks(s) # {}
  <2>1. Ranks(s) \subseteq Nat
    BY RanksAre DEF Ranks
  <2> DEFINE r == Min(Ranks(s))
  <2>2. r \in Ranks(s)
    BY <1>2, <2>1, MinIs
  <2>3. r \in DOMAIN Merges /\ PlacesOf(r, s) # {}
    BY <2>2 DEF Ranks
  <2>4. Round(s) = Applied(s, r)
    BY <1>2, <2>3 DEF Round, Applied
  <2> HIDE DEF r
  <2> QED BY <2>3, <2>4, AppliedIs
<1> QED BY <1>1, <1>2

\* bpeWord, round by round.
LEMMA BpeSteps ==
  ASSUME NEW A, NEW s \in Seq(Seq(A))
  PROVE  \E f : /\ f[0] = s /\ f[Len(s)] = bpeWord(s)
               /\ \A k \in 0 .. Len(s)-1 : f[k+1] = Round(f[k])
<1> DEFINE n == Len(s)
           X == Seq(Seq(A))
           F == [k \in 1 .. n |-> [p \in X |-> Round(p)]]
           Eq(g) == g = [t \in SUBSET DOMAIN s |->
                           IF t = {} THEN s ELSE Round(g[t \ {Max(t)}])]
<1>1. bpeWord(s) = (CHOOSE g : Eq(g))[DOMAIN s]
  BY DEF bpeWord, FoldLeft, MapThenFoldSet
<1>2. n \in Nat /\ DOMAIN s = 1 .. n
  OBVIOUS
<1>3. F \in [1 .. n -> [X -> X]] /\ s \in X
  <2>1. \A k \in 1 .. n, p \in X : Round(p) \in X
    BY <1>2, RoundKeeps
  <2>2. s \in X
    OBVIOUS
  <2> HIDE DEF n, X
  <2> QED BY <2>1, <2>2
<1> HIDE DEF X
<1>4. \A k \in 1 .. n, p \in X : F[k][p] = Round(p)
  OBVIOUS
<1>5. PICK h : IsFold(h, n, X, s, F)
  <2> DEFINE b == s
  <2>1. n \in Nat /\ b \in X /\ F \in [1 .. n -> [X -> X]]
    BY <1>2, <1>3
  <2> HIDE DEF F, n, b
  <2>2. \E h : IsFold(h, n, X, b, F)
    BY <2>1, SubsetFold
  <2> QED BY <2>2 DEF b
<1>6. \E g : Eq(g)
  <2> DEFINE here(t) == IF t = {} THEN s ELSE Round(h[t \ {Max(t)}])
  <2>1. ASSUME NEW t \in SUBSET (1 .. n) PROVE h[t] = here(t)
    <3>1. t \ {Max(t)} \in SUBSET (1 .. n)
      OBVIOUS
    <3>2. t # {} => Max(t) \in 1 .. n
      BY <1>2, MaxExists
    <3> HIDE DEF F, n
    <3> QED BY <1>4, <1>5, <3>1, <3>2 DEF IsFold
  <2>2. h = [t \in SUBSET (1 .. n) |-> h[t]]
    BY <1>5 DEF IsFold
  <2> HIDE DEF n, here, F
  <2>3. h = [t \in SUBSET (1 .. n) |-> here(t)]
    BY <2>1, <2>2
  <2> QED BY <1>2, <2>3 DEF here
<1>7. PICK g : Eq(g) /\ bpeWord(s) = g[1 .. n]
  <2> HIDE DEF n
  <2>1. Eq(CHOOSE g : Eq(g))
    BY <1>6
  <2> HIDE DEF Eq
  <2> QED BY <1>1, <1>2, <2>1
<1> DEFINE f == [k \in 0 .. n |-> g[1 .. k]]
<1>8. f[0] = s /\ f[n] = bpeWord(s)
  <2>1. 1 .. 0 = {} /\ 0 \in 0 .. n /\ n \in 0 .. n /\ {} \in SUBSET (1 .. n)
    BY <1>2
  <2> QED BY <1>2, <1>7, <2>1
<1>9. ASSUME NEW k \in 0 .. n-1 PROVE f[k+1] = Round(f[k])
  <2> HIDE DEF n
  <2>1. k \in 0 .. n /\ k + 1 \in 0 .. n
    BY <1>2
  <2>2. /\ 1 .. k+1 \in SUBSET (1 .. n) /\ 1 .. k+1 # {}
        /\ Max(1 .. k+1) = k + 1
        /\ (1 .. k+1) \ {k+1} = 1 .. k
    BY <1>2, IntervalTop
  <2>3. f[k+1] = g[1 .. k+1] /\ f[k] = g[1 .. k]
    BY <2>1
  <2>4. g[1 .. k+1] = Round(g[(1 .. k+1) \ {Max(1 .. k+1)}])
    BY <1>2, <1>7, <2>2
  <2> HIDE DEF f
  <2> QED BY <1>2, <2>1, <2>2, <2>3, <2>4
<1> HIDE DEF f
<1> QED BY <1>8, <1>9

\* A rule applied throughout, place by place.
LEMMA AllSteps ==
  ASSUME NEW A, NEW s \in Seq(Seq(A)), NEW r \in DOMAIN Merges
  PROVE  \E f : /\ f[0] = s /\ f[Len(s)] = AppliedAll(s, r)
               /\ \A k \in 0 .. Len(s)-1 : f[k+1] = Applied(f[k], r)
<1> DEFINE n == Len(s)
           X == Seq(Seq(A))
           F == [k \in 1 .. n |-> [p \in X |-> Applied(p, r)]]
           Eq(g) == g = [t \in SUBSET DOMAIN s |->
                           IF t = {} THEN s ELSE Applied(g[t \ {Max(t)}], r)]
<1>1. AppliedAll(s, r) = (CHOOSE g : Eq(g))[DOMAIN s]
  BY DEF AppliedAll, FoldLeft, MapThenFoldSet
<1>2. n \in Nat /\ DOMAIN s = 1 .. n
  OBVIOUS
<1>3. F \in [1 .. n -> [X -> X]] /\ s \in X
  <2>1. \A k \in 1 .. n, p \in X : Applied(p, r) \in X
    BY <1>2, AppliedIs
  <2>2. s \in X
    OBVIOUS
  <2> HIDE DEF n, X
  <2> QED BY <2>1, <2>2
<1> HIDE DEF X
<1>4. \A k \in 1 .. n, p \in X : F[k][p] = Applied(p, r)
  OBVIOUS
<1>5. PICK h : IsFold(h, n, X, s, F)
  <2> DEFINE b == s
  <2>1. n \in Nat /\ b \in X /\ F \in [1 .. n -> [X -> X]]
    BY <1>2, <1>3
  <2> HIDE DEF F, n, b
  <2>2. \E h : IsFold(h, n, X, b, F)
    BY <2>1, SubsetFold
  <2> QED BY <2>2 DEF b
<1>6. \E g : Eq(g)
  <2> DEFINE here(t) == IF t = {} THEN s ELSE Applied(h[t \ {Max(t)}], r)
  <2>1. ASSUME NEW t \in SUBSET (1 .. n) PROVE h[t] = here(t)
    <3>1. t \ {Max(t)} \in SUBSET (1 .. n)
      OBVIOUS
    <3>2. t # {} => Max(t) \in 1 .. n
      BY <1>2, MaxExists
    <3> HIDE DEF F, n
    <3> QED BY <1>4, <1>5, <3>1, <3>2 DEF IsFold
  <2>2. h = [t \in SUBSET (1 .. n) |-> h[t]]
    BY <1>5 DEF IsFold
  <2> HIDE DEF n, here, F
  <2>3. h = [t \in SUBSET (1 .. n) |-> here(t)]
    BY <2>1, <2>2
  <2> QED BY <1>2, <2>3 DEF here
<1>7. PICK g : Eq(g) /\ AppliedAll(s, r) = g[1 .. n]
  <2> HIDE DEF n
  <2>1. Eq(CHOOSE g : Eq(g))
    BY <1>6
  <2> HIDE DEF Eq
  <2> QED BY <1>1, <1>2, <2>1
<1> DEFINE f == [k \in 0 .. n |-> g[1 .. k]]
<1>8. f[0] = s /\ f[n] = AppliedAll(s, r)
  <2>1. 1 .. 0 = {} /\ 0 \in 0 .. n /\ n \in 0 .. n /\ {} \in SUBSET (1 .. n)
    BY <1>2
  <2> QED BY <1>2, <1>7, <2>1
<1>9. ASSUME NEW k \in 0 .. n-1 PROVE f[k+1] = Applied(f[k], r)
  <2> HIDE DEF n
  <2>1. k \in 0 .. n /\ k + 1 \in 0 .. n
    BY <1>2
  <2>2. /\ 1 .. k+1 \in SUBSET (1 .. n) /\ 1 .. k+1 # {}
        /\ Max(1 .. k+1) = k + 1
        /\ (1 .. k+1) \ {k+1} = 1 .. k
    BY <1>2, IntervalTop
  <2>3. f[k+1] = g[1 .. k+1] /\ f[k] = g[1 .. k]
    BY <2>1
  <2>4. g[1 .. k+1] = Applied(g[(1 .. k+1) \ {Max(1 .. k+1)}], r)
    BY <1>2, <1>7, <2>2
  <2> HIDE DEF f
  <2> QED BY <1>2, <2>1, <2>2, <2>3, <2>4
<1> HIDE DEF f
<1> QED BY <1>8, <1>9

\* The rounds of f, and that s comes up in them.
Rounds(f, n)     == \A k \in 0 .. n-1 : f[k+1] = Round(f[k])
ComesUp(f, n, s) == \E k \in 0 .. n : f[k] = s /\ Len(s) = n - k

\* No rule before r has a place.
DoneBefore(s, r) == \A q \in DOMAIN Merges : q < r => PlacesOf(q, s) = {}

\* A rule whose turn it is does what the rounds do.
LEMMA AppliedComesUp ==
  ASSUME NEW A, NEW s \in Seq(Seq(A)), NEW r \in DOMAIN Merges, DoneBefore(s, r),
         NEW n \in Nat, NEW f, Rounds(f, n), ComesUp(f, n, s)
  PROVE  ComesUp(f, n, Applied(s, r))
<1>1. CASE PlacesOf(r, s) = {}
  BY <1>1, AppliedIs
<1>2. CASE PlacesOf(r, s) # {}
  <2>1. PICK k \in 0 .. n : f[k] = s /\ Len(s) = n - k
    BY DEF ComesUp
  <2>2. Len(s) > 1 /\ Len(Applied(s, r)) = Len(s) - 1
    BY <1>2, AppliedIs
  <2>3. Round(s) = Applied(s, r)
    BY <1>2, RoundIs DEF DoneBefore
  <2>4. k \in 0 .. n-1 /\ k + 1 \in 0 .. n
    BY <2>1, <2>2
  <2>5. f[k+1] = Applied(s, r)
    BY <2>1, <2>3, <2>4 DEF Rounds
  <2>6. Len(Applied(s, r)) = n - (k + 1)
    BY <2>1, <2>2
  <2> QED BY <2>4, <2>5, <2>6 DEF ComesUp
<1> QED BY <1>1, <1>2

\* The rules before it stay done.
LEMMA AppliedDone ==
  ASSUME NEW A, NEW s \in Seq(Seq(A)), NEW r \in DOMAIN Merges, DoneBefore(s, r)
  PROVE  DoneBefore(Applied(s, r), r)
BY AppliedInOrder DEF DoneBefore

\* After a rule's turn it has no place, nor have the rules before it, and the
\* rounds come to where it ends.
LEMMA AllIs ==
  ASSUME NEW A, NEW s \in Seq(Seq(A)), NEW r \in DOMAIN Merges, DoneBefore(s, r),
         NEW n \in Nat, NEW f, Rounds(f, n), ComesUp(f, n, s)
  PROVE  /\ AppliedAll(s, r) \in Seq(Seq(A))
         /\ DoneBefore(AppliedAll(s, r), r) /\ PlacesOf(r, AppliedAll(s, r)) = {}
         /\ ComesUp(f, n, AppliedAll(s, r))
<1> DEFINE m == Len(s)
<1>1. PICK g : /\ g[0] = s /\ g[m] = AppliedAll(s, r)
               /\ \A k \in 0 .. m-1 : g[k+1] = Applied(g[k], r)
  BY AllSteps
<1> DEFINE T == {k \in 0 .. m : /\ g[k] \in Seq(Seq(A)) /\ DoneBefore(g[k], r) /\ ComesUp(f, n, g[k])
                                /\ PlacesOf(r, g[k]) = {} \/ Len(g[k]) = m - k}
<1>2. m \in Nat
  OBVIOUS
<1>3. 0 \in T
  BY <1>1, <1>2
<1>4. ASSUME NEW k \in 0 .. m-1, k \in T PROVE k + 1 \in T
  <2> DEFINE x == g[k]
  <2>1. /\ x \in Seq(Seq(A)) /\ DoneBefore(x, r) /\ ComesUp(f, n, x)
        /\ PlacesOf(r, x) = {} \/ Len(x) = m - k
    BY <1>4
  <2>2. g[k+1] = Applied(x, r) /\ k + 1 \in 0 .. m
    BY <1>1, <1>2
  <2> HIDE DEF x, m
  <2>3. Applied(x, r) \in Seq(Seq(A)) /\ DoneBefore(Applied(x, r), r) /\ ComesUp(f, n, Applied(x, r))
    BY <2>1, AppliedIs, AppliedDone, AppliedComesUp
  <2>4. PlacesOf(r, Applied(x, r)) = {} \/ Len(Applied(x, r)) = m - (k + 1)
    <3>1. CASE PlacesOf(r, x) = {}
      BY <2>1, <3>1, AppliedIs
    <3>2. CASE PlacesOf(r, x) # {}
      <4>1. Len(Applied(x, r)) = Len(x) - 1
        BY <2>1, <3>2, AppliedIs
      <4> QED BY <1>2, <2>1, <3>2, <4>1
    <3> QED BY <3>1, <3>2
  <2> QED BY <2>2, <2>3, <2>4
<1> DEFINE e == g[m]
<1>5. /\ e \in Seq(Seq(A)) /\ DoneBefore(e, r) /\ ComesUp(f, n, e)
      /\ PlacesOf(r, e) = {} \/ Len(e) = m - m
  <2> HIDE DEF T, m
  <2>1. 0 .. m \subseteq T
    BY <1>2, <1>3, <1>4, IntervalInduction
  <2>2. m \in T
    BY <1>2, <2>1
  <2> QED BY <2>2 DEF T
<1>6. PlacesOf(r, e) = {}
  <2> HIDE DEF e
  <2> SUFFICES ASSUME PlacesOf(r, e) # {} PROVE FALSE
    OBVIOUS
  <2>1. Len(e) > 1
    BY <1>5, AppliedIs
  <2> QED BY <1>2, <1>5, <2>1
<1> QED BY <1>1, <1>5, <1>6

\* The type alone.
LEMMA AllKeeps ==
  ASSUME NEW A, NEW s \in Seq(Seq(A)), NEW r \in DOMAIN Merges
  PROVE  AppliedAll(s, r) \in Seq(Seq(A))
<1> DEFINE m == Len(s)
<1>1. PICK g : /\ g[0] = s /\ g[m] = AppliedAll(s, r)
               /\ \A k \in 0 .. m-1 : g[k+1] = Applied(g[k], r)
  BY AllSteps
<1> DEFINE T == {k \in 0 .. m : g[k] \in Seq(Seq(A))}
<1>2. m \in Nat
  OBVIOUS
<1>3. 0 \in T
  BY <1>1, <1>2
<1>4. ASSUME NEW k \in 0 .. m-1, k \in T PROVE k + 1 \in T
  <2>1. g[k+1] = Applied(g[k], r) /\ k + 1 \in 0 .. m /\ g[k] \in Seq(Seq(A))
    BY <1>1, <1>2, <1>4
  <2>2. Applied(g[k], r) \in Seq(Seq(A))
    BY <2>1, AppliedIs
  <2> QED BY <2>1, <2>2
<1> HIDE DEF T, m
<1>5. 0 .. m \subseteq T
  BY <1>2, <1>3, <1>4, IntervalInduction
<1>6. m \in T
  BY <1>2, <1>5
<1> QED BY <1>1, <1>6 DEF T

\* f[k] is what the first k rules leave of s.
ByRank(f, s, ranks) ==
  /\ f[0] = s /\ f[Len(ranks)] = Reference(s)
  /\ \A k \in 0 .. Len(ranks)-1 : f[k+1] = AppliedAll(f[k], ranks[k+1])

\* The reference, rule by rule.
LEMMA ReferenceSteps ==
  ASSUME NEW A, NEW s \in Seq(Seq(A)), NEW ranks, ranks = [r \in DOMAIN Merges |-> r]
  PROVE  \E f : ByRank(f, s, ranks)
<1> DEFINE n == Len(ranks)
           X == Seq(Seq(A))
           F == [k \in 1 .. n |-> [p \in X |-> AppliedAll(p, ranks[k])]]
           Eq(g) == g = [t \in SUBSET DOMAIN ranks |->
                           IF t = {} THEN s ELSE AppliedAll(g[t \ {Max(t)}], ranks[Max(t)])]
<1>1. Reference(s) = (CHOOSE g : Eq(g))[DOMAIN ranks]
  BY DEF Reference, FoldLeft, MapThenFoldSet
<1>2. n \in Nat /\ DOMAIN ranks = 1 .. n /\ \A k \in 1 .. n : ranks[k] \in DOMAIN Merges
  BY RanksAre
<1>3. F \in [1 .. n -> [X -> X]] /\ s \in X
  <2>1. \A k \in 1 .. n, p \in X : AppliedAll(p, ranks[k]) \in X
    BY <1>2, AllKeeps
  <2>2. s \in X
    OBVIOUS
  <2> HIDE DEF n, X
  <2> QED BY <2>1, <2>2
<1> HIDE DEF X
<1>4. \A k \in 1 .. n, p \in X : F[k][p] = AppliedAll(p, ranks[k])
  OBVIOUS
<1>5. PICK h : IsFold(h, n, X, s, F)
  <2> DEFINE b == s
  <2>1. n \in Nat /\ b \in X /\ F \in [1 .. n -> [X -> X]]
    BY <1>2, <1>3
  <2> HIDE DEF F, n, b
  <2>2. \E h : IsFold(h, n, X, b, F)
    BY <2>1, SubsetFold
  <2> QED BY <2>2 DEF b
<1>6. \E g : Eq(g)
  <2> DEFINE here(t) == IF t = {} THEN s ELSE AppliedAll(h[t \ {Max(t)}], ranks[Max(t)])
  <2>1. ASSUME NEW t \in SUBSET (1 .. n) PROVE h[t] = here(t)
    <3>1. t \ {Max(t)} \in SUBSET (1 .. n)
      OBVIOUS
    <3>2. t # {} => Max(t) \in 1 .. n
      BY <1>2, MaxExists
    <3> HIDE DEF F, n
    <3> QED BY <1>4, <1>5, <3>1, <3>2 DEF IsFold
  <2>2. h = [t \in SUBSET (1 .. n) |-> h[t]]
    BY <1>5 DEF IsFold
  <2> HIDE DEF n, here, F
  <2>3. h = [t \in SUBSET (1 .. n) |-> here(t)]
    BY <2>1, <2>2
  <2> QED BY <1>2, <2>3 DEF here
<1>7. PICK g : Eq(g) /\ Reference(s) = g[1 .. n]
  <2> HIDE DEF n
  <2>1. Eq(CHOOSE g : Eq(g))
    BY <1>6
  <2> HIDE DEF Eq
  <2> QED BY <1>1, <1>2, <2>1
<1> DEFINE f == [k \in 0 .. n |-> g[1 .. k]]
<1>8. f[0] = s /\ f[n] = Reference(s)
  <2>1. 1 .. 0 = {} /\ 0 \in 0 .. n /\ n \in 0 .. n /\ {} \in SUBSET (1 .. n)
    BY <1>2
  <2> QED BY <1>2, <1>7, <2>1
<1>9. ASSUME NEW k \in 0 .. n-1 PROVE f[k+1] = AppliedAll(f[k], ranks[k+1])
  <2> HIDE DEF n
  <2>1. k \in 0 .. n /\ k + 1 \in 0 .. n
    BY <1>2
  <2>2. /\ 1 .. k+1 \in SUBSET (1 .. n) /\ 1 .. k+1 # {}
        /\ Max(1 .. k+1) = k + 1
        /\ (1 .. k+1) \ {k+1} = 1 .. k
    BY <1>2, IntervalTop
  <2>3. f[k+1] = g[1 .. k+1] /\ f[k] = g[1 .. k]
    BY <2>1
  <2>4. g[1 .. k+1] = AppliedAll(g[(1 .. k+1) \ {Max(1 .. k+1)}], ranks[Max(1 .. k+1)])
    BY <1>2, <1>7, <2>2
  <2> HIDE DEF f
  <2> QED BY <1>2, <2>1, <2>2, <2>3, <2>4
<1> HIDE DEF f
<1>10. ByRank(f, s, ranks)
  BY <1>8, <1>9 DEF ByRank
<1> QED BY <1>10

\* A rule without a place for any rule ends the rounds.
LEMMA RoundsEnd ==
  ASSUME NEW n \in Nat, NEW f, Rounds(f, n), NEW s, ComesUp(f, n, s), Ranks(s) = {}
  PROVE  f[n] = s
<1>1. PICK k \in 0 .. n : f[k] = s
  BY DEF ComesUp
<1> DEFINE m == n - k
           T == {j \in 0 .. m : f[k+j] = s}
<1>2. m \in Nat /\ k + m = n /\ k \in Nat
  BY <1>1
<1>3. 0 \in T
  BY <1>1, <1>2
<1>4. ASSUME NEW j \in 0 .. m-1, j \in T PROVE j + 1 \in T
  <2>1. k + j \in 0 .. n-1 /\ (k + j) + 1 = k + (j + 1) /\ j + 1 \in 0 .. m
    BY <1>2
  <2>2. f[(k+j)+1] = Round(f[k+j]) /\ f[k+j] = s
    BY <1>4, <2>1 DEF Rounds
  <2>3. Round(s) = s
    BY DEF Round
  <2> QED BY <2>1, <2>2, <2>3
<1> HIDE DEF T, m
<1>5. 0 .. m \subseteq T
  BY <1>2, <1>3, <1>4, IntervalInduction
<1>6. m \in T
  BY <1>2, <1>5
<1> QED BY <1>2, <1>6 DEF T

\* Merging the first pair of the lowest rank, again and again, gives what the
\* rules give one after the other.
LEMMA BpeIsReference ==
  ASSUME NEW A, NEW s \in Seq(Seq(A))
  PROVE  bpeWord(s) = Reference(s)
<1> DEFINE n == Len(s)
           ranks == [r \in DOMAIN Merges |-> r]
<1>1. PICK f : f[0] = s /\ f[n] = bpeWord(s) /\ \A k \in 0 .. n-1 : f[k+1] = Round(f[k])
  BY BpeSteps
<1>2. n \in Nat /\ Rounds(f, n) /\ ComesUp(f, n, s)
  BY <1>1 DEF Rounds, ComesUp
<1> DEFINE m == RuleCount
<1>3. /\ m \in Nat /\ DOMAIN Merges = 1 .. m /\ Len(ranks) = m
      /\ \A k \in 1 .. m : ranks[k] = k /\ k \in DOMAIN Merges
  BY RanksAre
<1> HIDE DEF m
<1>4. PICK g : /\ g[0] = s /\ g[m] = Reference(s)
               /\ \A k \in 0 .. m-1 : g[k+1] = AppliedAll(g[k], k+1)
  <2>3. ranks = [r \in DOMAIN Merges |-> r]
    OBVIOUS
  <2> HIDE DEF ranks
  <2>4. PICK g : ByRank(g, s, ranks)
    BY <2>3, ReferenceSteps
  <2>1. /\ g[0] = s /\ g[Len(ranks)] = Reference(s)
        /\ \A k \in 0 .. Len(ranks)-1 : g[k+1] = AppliedAll(g[k], ranks[k+1])
    BY <2>4 DEF ByRank
  <2>2. \A k \in 0 .. m-1 : k \in 0 .. Len(ranks)-1 /\ ranks[k+1] = k + 1
    <3>1. \A k \in 0 .. m-1 : k + 1 \in 1 .. m
      BY <1>3
    <3> QED BY <1>3, <3>1
  <2> QED BY <1>3, <2>1, <2>2
<1> HIDE DEF n
<1> DEFINE Good(x, k) == x \in Seq(Seq(A)) /\ ComesUp(f, n, x) /\ DoneBefore(x, k + 1)
           T == {k \in 0 .. m : Good(g[k], k)}
<1>5. 0 \in T
  <2>1. DoneBefore(s, 0 + 1)
    BY <1>3 DEF DoneBefore
  <2>2. 0 \in 0 .. m
    BY <1>3
  <2> QED BY <1>2, <1>4, <2>1, <2>2
<1>6. ASSUME NEW k \in 0 .. m-1, k \in T PROVE k + 1 \in T
  <2> DEFINE x == g[k]
             r == k + 1
             y == AppliedAll(x, r)
  <2>1. x \in Seq(Seq(A)) /\ ComesUp(f, n, x) /\ DoneBefore(x, r)
    BY <1>6
  <2>2. r \in DOMAIN Merges /\ k \in 0 .. m-1 /\ r \in 0 .. m
    BY <1>3
  <2>3. g[r] = y
    BY <1>4, <2>2
  <2> HIDE DEF x, r
  <2>4. y \in Seq(Seq(A)) /\ DoneBefore(y, r) /\ PlacesOf(r, y) = {} /\ ComesUp(f, n, y)
    BY <1>2, <2>1, <2>2, AllIs
  <2> HIDE DEF y
  <2>5. DoneBefore(y, r + 1)
    <3>0. r \in Nat /\ \A q \in DOMAIN Merges : q \in Nat
      BY <1>3, <2>2
    <3>1. \A q \in DOMAIN Merges : q < r + 1 => q < r \/ q = r
      BY <3>0
    <3> QED BY <2>4, <3>1 DEF DoneBefore
  <2>6. Good(g[r], r)
    BY <2>3, <2>4, <2>5
  <2> HIDE DEF Good
  <2>7. r \in T
    BY <2>2, <2>6
  <2> QED BY <2>7 DEF r
<1> DEFINE e == g[m]
<1>7. ComesUp(f, n, e) /\ DoneBefore(e, m+1)
  <2> HIDE DEF T
  <2>1. 0 .. m \subseteq T
    BY <1>3, <1>5, <1>6, IntervalInduction
  <2>2. m \in T
    BY <1>3, <2>1
  <2> QED BY <2>2 DEF T
<1>8. Ranks(e) = {}
  <2>1. \A q \in DOMAIN Merges : q < m+1
    BY <1>3
  <2> QED BY <1>7, <2>1 DEF DoneBefore, Ranks
<1> HIDE DEF e
<1>9. f[n] = e
  BY <1>2, <1>7, <1>8, RoundsEnd
<1> QED BY <1>1, <1>4, <1>9 DEF e

\* f[k] is what the first k sequences are together.
Joints(f, ss, A) ==
  /\ f[0] = <<>> /\ f[Len(ss)] = FlattenSeq(ss)
  /\ \A k \in 0 .. Len(ss) - 1 : f[k+1] = f[k] \o ss[k+1]
  /\ \A k \in 0 .. Len(ss) : f[k] \in Seq(A)

\* Sequences are put together one after the other.
LEMMA JointsExist ==
  ASSUME NEW A, NEW ss \in Seq(Seq(A))
  PROVE  \E f : Joints(f, ss, A)
<1> DEFINE n == Len(ss)
           X == Seq(A)
           F == [k \in 1 .. n |-> [p \in X |-> p \o ss[k]]]
           Eq(g) == g = [i \in 1 .. n |-> IF i = 1 THEN ss[i] ELSE g[i-1] \o ss[i]]
<1>1. n \in Nat /\ \A k \in 1 .. n : ss[k] \in X
  OBVIOUS
<1>2. \A k \in 1 .. n, p \in X : p \o ss[k] \in X
  BY <1>1, ConcatProperties
<1>3. <<>> \in X /\ \A x \in X : <<>> \o x = x
  BY ConcatEmptySeq
<1> HIDE DEF X
<1>4. F \in [1 .. n -> [X -> X]] /\ \A k \in 1 .. n, p \in X : F[k][p] = p \o ss[k]
  <2> HIDE DEF n
  <2> QED BY <1>2
<1>5. PICK h : IsFold(h, n, X, <<>>, F)
  <2> DEFINE b == <<>>
  <2>1. n \in Nat /\ b \in X /\ F \in [1 .. n -> [X -> X]]
    BY <1>1, <1>3, <1>4
  <2> HIDE DEF F, n, b
  <2>2. \E h : IsFold(h, n, X, b, F)
    BY <2>1, SubsetFold
  <2> QED BY <2>2 DEF b
<1> DEFINE f == [k \in 0 .. n |-> h[1 .. k]]
<1> HIDE DEF F, n
<1>6. f[0] = <<>>
  <2>1. 1 .. 0 = {} /\ 0 \in 0 .. n /\ {} \in SUBSET (1 .. n)
    BY <1>1
  <2> QED BY <1>5, <2>1 DEF IsFold
<1>7. \A k \in 0 .. n : f[k] \in X
  <2>1. \A k \in 0 .. n : 1 .. k \in SUBSET (1 .. n)
    BY <1>1
  <2> QED BY <1>5, <2>1 DEF IsFold
<1>8. ASSUME NEW k \in 0 .. n-1 PROVE f[k+1] = f[k] \o ss[k+1]
  <2>1. k \in 0 .. n /\ k + 1 \in 0 .. n /\ k + 1 \in 1 .. n
    BY <1>1
  <2>2. /\ 1 .. k+1 \in SUBSET (1 .. n) /\ 1 .. k+1 # {}
        /\ Max(1 .. k+1) = k + 1
        /\ (1 .. k+1) \ {k+1} = 1 .. k
    BY <1>1, IntervalTop
  <2>3. h[1 .. k+1] = F[k+1][h[1 .. k]]
    BY <1>5, <2>2 DEF IsFold
  <2>4. f[k+1] = h[1 .. k+1] /\ f[k] = h[1 .. k] /\ f[k] \in X
    BY <1>7, <2>1
  <2> QED BY <1>4, <2>1, <2>3, <2>4
<1> HIDE DEF f
<1>9. f[n] = FlattenSeq(ss)
  <2>1. CASE n = 0
    <3>1. ss = <<>>
      BY <2>1, EmptySeq DEF n
    <3>2. FlattenSeq(ss) = ss
      BY <2>1 DEF FlattenSeq, n
    <3> QED BY <1>6, <2>1, <3>1, <3>2
  <2>2. CASE n # 0
    <3> DEFINE r == CHOOSE g : Eq(g)
    <3>1. FlattenSeq(ss) = r[n]
      BY <2>2 DEF FlattenSeq, n
    <3>2. Eq(r)
      <4> DEFINE here(i) == IF i = 1 THEN ss[i] ELSE f[i-1] \o ss[i]
                 g == [i \in 1 .. n |-> here(i)]
      <4>1. \A i \in 1 .. n : f[i] = here(i)
        <5>1. ASSUME NEW i \in 1 .. n PROVE f[i] = f[i-1] \o ss[i]
          <6>1. i - 1 \in 0 .. n-1 /\ (i - 1) + 1 = i
            BY <1>1
          <6> QED BY <1>8, <6>1
        <5>2. 1 \in 1 .. n => f[1-1] \o ss[1] = ss[1]
          <6>1. 1 - 1 = 0 /\ (1 \in 1 .. n => ss[1] \in X)
            BY <1>1
          <6>2. f[1-1] = <<>>
            BY <1>6, <6>1
          <6> QED BY <1>3, <6>1, <6>2
        <5> QED BY <5>1, <5>2
      <4>2. \A i \in 1 .. n : i # 1 => g[i-1] = f[i-1]
        <5>1. \A i \in 1 .. n : i # 1 => i - 1 \in 1 .. n
          BY <1>1
        <5> HIDE DEF here
        <5> QED BY <4>1, <5>1
      <4>3. g = [i \in 1 .. n |-> IF i = 1 THEN ss[i] ELSE g[i-1] \o ss[i]]
        <5>1. \A i \in 1 .. n : here(i) = IF i = 1 THEN ss[i] ELSE g[i-1] \o ss[i]
          BY <4>2
        <5> DEFINE there(i) == IF i = 1 THEN ss[i] ELSE g[i-1] \o ss[i]
        <5>2. \A i \in 1 .. n : here(i) = there(i)
          BY <5>1
        <5>3. g = [i \in 1 .. n |-> here(i)]
          OBVIOUS
        <5> HIDE DEF here, there, g
        <5>4. g = [i \in 1 .. n |-> there(i)]
          BY <5>2, <5>3
        <5> QED BY <5>4 DEF there
      <4> HIDE DEF g
      <4>4. Eq(g)
        BY <4>3
      <4> HIDE DEF Eq
      <4> QED BY <4>4
    <3> HIDE DEF r
    <3> DEFINE T == {k \in 0 .. n : k = 0 \/ r[k] = f[k]}
    <3>3. 0 \in T
      BY <1>1
    <3>4. ASSUME NEW k \in 0 .. n-1, k \in T PROVE k + 1 \in T
      <4>1. k + 1 \in 1 .. n /\ k + 1 \in 0 .. n /\ (k + 1) - 1 = k
        BY <1>1
      <4>2. r[k+1] = IF k + 1 = 1 THEN ss[k+1] ELSE r[(k+1)-1] \o ss[k+1]
        BY <3>2, <4>1
      <4>3. f[k+1] = f[k] \o ss[k+1]
        BY <1>8
      <4>6. k = 0 \/ r[k] = f[k]
        BY <3>4
      <4> HIDE DEF T, Eq
      <4>7. r[k+1] = f[k+1]
        <5>1. CASE k = 0
          <6>1. k + 1 = 1 /\ ss[k+1] \in X /\ f[k] = <<>>
            BY <1>1, <1>6, <4>1, <5>1
          <6>2. r[k+1] = ss[k+1]
            BY <4>2, <6>1
          <6>3. f[k+1] = ss[k+1]
            BY <1>3, <4>3, <6>1
          <6> QED BY <6>2, <6>3
        <5>2. CASE k # 0
          <6>1. k + 1 # 1
            BY <4>1, <5>2
          <6> QED BY <4>1, <4>2, <4>3, <4>6, <5>2, <6>1
        <5> QED BY <5>1, <5>2
      <4> QED BY <4>1, <4>7 DEF T
    <3> HIDE DEF T, Eq
    <3>5. 0 .. n \subseteq T
      BY <1>1, <3>3, <3>4, IntervalInduction
    <3>6. n \in T
      BY <1>1, <3>5
    <3> QED BY <2>2, <3>1, <3>6 DEF T
  <2> QED BY <2>1, <2>2
<1>10. Joints(f, ss, A)
  BY <1>6, <1>7, <1>8, <1>9 DEF Joints, n, X
<1> QED BY <1>10

\* The first m elements are the same.
Alike(ss, tt, m) == m \in 0 .. Len(ss) /\ m <= Len(tt) /\ \A i \in 1 .. m : ss[i] = tt[i]

\* Sequences that begin alike are alike as far as that when put together.
LEMMA JointsAlike ==
  ASSUME NEW A, NEW ss \in Seq(Seq(A)), NEW tt \in Seq(Seq(A)),
         NEW m, Alike(ss, tt, m), NEW f, Joints(f, ss, A), NEW g, Joints(g, tt, A)
  PROVE  f[m] = g[m]
<1> DEFINE T == {k \in 0 .. m : f[k] = g[k]}
<1>1. /\ Len(ss) \in Nat /\ Len(tt) \in Nat /\ m \in Nat /\ m <= Len(ss) /\ m <= Len(tt)
      /\ \A i \in 1 .. m : ss[i] = tt[i]
  BY DEF Alike
<1>2. 0 \in T
  BY <1>1 DEF Joints
<1>3. ASSUME NEW k \in 0 .. m-1, k \in T PROVE k + 1 \in T
  <2>1. k \in 0 .. Len(ss) - 1 /\ k \in 0 .. Len(tt) - 1 /\ k + 1 \in 1 .. m /\ k + 1 \in 0 .. m
    BY <1>1
  <2>2. f[k+1] = f[k] \o ss[k+1] /\ g[k+1] = g[k] \o tt[k+1]
    BY <2>1 DEF Joints
  <2> QED BY <1>1, <1>3, <2>1, <2>2
<1> HIDE DEF T
<1>4. 0 .. m \subseteq T
  BY <1>1, <1>2, <1>3, IntervalInduction
<1>5. m \in T
  BY <1>1, <1>4
<1> QED BY <1>5 DEF T

\* One sequence more.
LEMMA FlatAppend ==
  ASSUME NEW A, NEW ss \in Seq(Seq(A)), NEW x \in Seq(A)
  PROVE  FlattenSeq(Append(ss, x)) = FlattenSeq(ss) \o x /\ FlattenSeq(ss) \in Seq(A)
<1> DEFINE n == Len(ss)
           tt == Append(ss, x)
<1>1. /\ tt \in Seq(Seq(A)) /\ Len(tt) = n + 1 /\ n \in Nat
      /\ tt[n+1] = x /\ \A i \in 1 .. n : ss[i] = tt[i]
  BY AppendProperties
<1> HIDE DEF tt, n
<1>2. PICK f : Joints(f, ss, A)
  BY JointsExist
<1>3. PICK g : Joints(g, tt, A)
  BY <1>1, JointsExist
<1>4. f[n] = g[n]
  <2>1. Alike(ss, tt, n)
    BY <1>1 DEF n, Alike
  <2> QED BY <1>1, <1>2, <1>3, <2>1, JointsAlike
<1>5. n \in 0 .. Len(tt) - 1
  BY <1>1
<1>6. g[n+1] = g[n] \o tt[n+1] /\ g[n+1] = FlattenSeq(tt)
  BY <1>1, <1>3, <1>5 DEF Joints
<1>7. f[n] = FlattenSeq(ss) /\ f[n] \in Seq(A)
  BY <1>1, <1>2 DEF Joints, n
<1> QED BY <1>1, <1>4, <1>6, <1>7 DEF tt

\* A sequence split into its elements.
LEMMA SplitJoined ==
  ASSUME NEW A, NEW w \in Seq(A)
  PROVE  Split(w) \in Seq(Seq(A)) /\ FlattenSeq(Split(w)) = w
<1> DEFINE n == Len(w)
           ss == Split(w)
<1>1. n \in Nat /\ DOMAIN w = 1 .. n /\ \A i \in 1 .. n : <<w[i]>> \in Seq(A)
  OBVIOUS
<1>2. /\ ss \in Seq(Seq(A)) /\ Len(ss) = n /\ \A i \in 1 .. n : ss[i] = <<w[i]>>
  <2>1. ss = [i \in 1 .. n |-> <<w[i]>>]
    BY <1>1 DEF Split
  <2> HIDE DEF n, ss
  <2> QED BY <1>1, <2>1
<1> HIDE DEF ss
<1>3. PICK f : Joints(f, ss, A)
  BY <1>2, JointsExist
<1> DEFINE T == {k \in 0 .. n : f[k] = SubSeq(w, 1, k)}
<1>4. 0 \in T
  <2>1. SubSeq(w, 1, 0) = <<>>
    BY SubSeqEmpty
  <2> QED BY <1>1, <1>3, <2>1 DEF Joints
<1>5. ASSUME NEW k \in 0 .. n-1, k \in T PROVE k + 1 \in T
  <2>5. k \in 0 .. Len(ss) - 1 /\ k + 1 \in 1 .. n /\ k + 1 \in 0 .. n
    BY <1>1, <1>2
  <2>1. f[k+1] = f[k] \o ss[k+1]
    BY <1>3, <2>5 DEF Joints
  <2> DEFINE j == k + 1
  <2>2. SubSeq(w, 1, j) = SubSeq(w, 1, j - 1) \o << w[j] >>
    <3>1. 1 \in 1 .. Len(w) /\ j \in 1 .. Len(w)
      BY <1>1, <2>1
    <3> HIDE DEF j
    <3> QED BY <3>1, SubSeqRecursiveSecond
  <2>3. j - 1 = k /\ ss[k+1] = <<w[j]>>
    BY <1>1, <1>2, <2>5
  <2>4. f[k] = SubSeq(w, 1, k)
    BY <1>5
  <2> QED BY <2>1, <2>2, <2>3, <2>4, <2>5
<1> HIDE DEF T, n
<1>6. 0 .. n \subseteq T
  BY <1>1, <1>4, <1>5, IntervalInduction
<1>7. n \in T
  BY <1>1, <1>6
<1>8. f[n] = SubSeq(w, 1, n)
  BY <1>7 DEF T
<1>9. f[n] = FlattenSeq(ss) /\ SubSeq(w, 1, n) = w
  BY <1>2, <1>3, SubSeqFull DEF Joints, n
<1> QED BY <1>2, <1>8, <1>9 DEF ss

\* Two sequences of sequences, one behind the other.
LEMMA FlatConcat ==
  ASSUME NEW A, NEW ss \in Seq(Seq(A)), NEW tt \in Seq(Seq(A))
  PROVE  /\ ss \o tt \in Seq(Seq(A))
         /\ FlattenSeq(ss \o tt) = FlattenSeq(ss) \o FlattenSeq(tt)
         /\ FlattenSeq(ss) \in Seq(A) /\ FlattenSeq(tt) \in Seq(A)
<1> DEFINE n == Len(ss)
           m == Len(tt)
           uu == ss \o tt
<1>1. /\ n \in Nat /\ m \in Nat /\ uu \in Seq(Seq(A)) /\ Len(uu) = n + m
      /\ \A i \in 1 .. n + m : uu[i] = IF i <= n THEN ss[i] ELSE tt[i-n]
  BY ConcatProperties
<1> HIDE DEF uu
<1>2. PICK f : Joints(f, ss, A)
  BY JointsExist
<1>3. PICK g : Joints(g, tt, A)
  BY JointsExist
<1>4. PICK h : Joints(h, uu, A)
  BY <1>1, JointsExist
<1>5. h[n] = f[n]
  <2>1. Alike(ss, uu, n)
    BY <1>1 DEF Alike
  <2> QED BY <1>1, <1>2, <1>4, <2>1, JointsAlike
<1> DEFINE p == f[n]
<1>6. p = FlattenSeq(ss) /\ p \in Seq(A) /\ g[m] = FlattenSeq(tt) /\ g[m] \in Seq(A)
  BY <1>1, <1>2, <1>3 DEF Joints
<1>7. h[n+m] = FlattenSeq(uu)
  BY <1>1, <1>4 DEF Joints
<1>8. g[0] = <<>> /\ h[n] = p
  BY <1>3, <1>5 DEF Joints
<1>9. ASSUME NEW k \in 0 .. m-1
      PROVE  /\ h[n+(k+1)] = h[n+k] \o tt[k+1] /\ g[k+1] = g[k] \o tt[k+1]
             /\ g[k] \in Seq(A) /\ tt[k+1] \in Seq(A)
  <2>1. n + k \in 0 .. Len(uu)-1 /\ (n + k) + 1 = n + (k + 1) /\ k \in 0 .. Len(tt)-1 /\ k \in 0 .. Len(tt)
    BY <1>1
  <2>2. h[(n+k)+1] = h[n+k] \o uu[(n+k)+1]
    BY <1>4, <2>1 DEF Joints
  <2>3. uu[n+(k+1)] = tt[k+1]
    <3>1. n + (k + 1) \in 1 .. n + m /\ ~(n + (k + 1) <= n) /\ (n + (k + 1)) - n = k + 1
      BY <1>1
    <3> QED BY <1>1, <3>1
  <2>4. g[k+1] = g[k] \o tt[k+1] /\ g[k] \in Seq(A)
    BY <1>3, <2>1 DEF Joints
  <2>5. tt[k+1] \in Seq(A)
    BY <1>1
  <2> QED BY <2>1, <2>2, <2>3, <2>4, <2>5
<1> HIDE DEF n, m, p
<1> DEFINE T == {k \in 0 .. m : h[n+k] = p \o g[k]}
<1>10. 0 \in T
  <2>1. n + 0 = n /\ p \o <<>> = p /\ 0 \in 0 .. m
    BY <1>1, <1>6, ConcatEmptySeq
  <2> QED BY <1>8, <2>1
<1>11. ASSUME NEW k \in 0 .. m-1, k \in T PROVE k + 1 \in T
  <2>1. h[n+k] = p \o g[k] /\ k + 1 \in 0 .. m
    BY <1>1, <1>11
  <2> HIDE DEF T
  <2> DEFINE q == g[k]
             x == tt[k+1]
  <2>2. q \in Seq(A) /\ x \in Seq(A)
    BY <1>9
  <2>3. h[n+(k+1)] = (p \o q) \o x /\ g[k+1] = q \o x
    BY <1>9, <2>1
  <2> HIDE DEF q, x
  <2>4. (p \o q) \o x = p \o (q \o x)
    <3>1. p \in Seq(A) /\ q \in Seq(A) /\ x \in Seq(A)
      BY <1>6, <2>2
    <3> QED BY <3>1, ConcatAssociative
  <2> QED BY <2>1, <2>3, <2>4 DEF T
<1> HIDE DEF T
<1>12. 0 .. m \subseteq T
  BY <1>1, <1>10, <1>11, IntervalInduction
<1>13. m \in T
  BY <1>1, <1>12
<1>14. h[n+m] = p \o g[m]
  BY <1>13 DEF T
<1> QED BY <1>1, <1>6, <1>7, <1>14 DEF uu

\* One element, and another behind it.
LEMMA PairIs ==
  ASSUME NEW X, NEW p \in X, NEW q \in X
  PROVE  /\ <<p>> \in Seq(X) /\ <<q>> \in Seq(X) /\ <<p, q>> \in Seq(X)
         /\ <<p>> \o <<q>> = <<p, q>> /\ Append(<<p>>, q) = <<p, q>>
<1> DEFINE u == <<p>>
           v == <<q>>
           w == <<p, q>>
           c == u \o v
<1>1. u \in Seq(X) /\ Len(u) = 1 /\ u[1] = p /\ v \in Seq(X) /\ Len(v) = 1 /\ v[1] = q
  OBVIOUS
<1>2. w \in Seq(X) /\ Len(w) = 2 /\ w[1] = p /\ w[2] = q
  OBVIOUS
<1> HIDE DEF u, v, w
<1>3. /\ u \o v \in Seq(X) /\ Len(u \o v) = Len(u) + Len(v)
      /\ \A i \in 1 .. Len(u) + Len(v) : (u \o v)[i] = IF i <= Len(u) THEN u[i] ELSE v[i - Len(u)]
  BY <1>1, ConcatProperties
<1>4. c \in Seq(X) /\ Len(c) = 2 /\ c[1] = p /\ c[2] = q
  BY <1>1, <1>3
<1> HIDE DEF c
<1>5. c = w
  <2>1. c \in Seq(X) /\ w \in Seq(X) /\ Len(c) = Len(w) /\ \A i \in 1 .. Len(c) : c[i] = w[i]
    BY <1>2, <1>4
  <2> QED BY <2>1, SeqEqual
<1>6. Append(u, q) = u \o <<q>>
  BY <1>1, AppendIsConcat
<1> QED BY <1>1, <1>2, <1>5, <1>6 DEF u, v, w, c

\* One sequence, and two.
LEMMA FlatOne ==
  ASSUME NEW A, NEW x \in Seq(A), NEW y \in Seq(A)
  PROVE  /\ <<x>> \in Seq(Seq(A)) /\ FlattenSeq(<<x>>) = x
         /\ <<x, y>> \in Seq(Seq(A)) /\ FlattenSeq(<<x, y>>) = x \o y
<1> DEFINE e == <<>>
           X == Seq(A)
<1>1. e \in Seq(X) /\ e \in Seq(A) /\ FlattenSeq(e) = e
  BY EmptySeq DEF FlattenSeq
<1>2. Append(e, x) = <<x>> /\ Append(<<x>>, y) = <<x, y>> /\ <<x>> \in Seq(X) /\ <<x, y>> \in Seq(X)
  <2>1. x \in X /\ y \in X
    OBVIOUS
  <2> HIDE DEF X
  <2>2. Append(e, x) = <<x>>
    OBVIOUS
  <2> QED BY <2>1, <2>2, PairIs
<1>3. e \o x = x
  BY ConcatEmptySeq
<1> DEFINE o == <<x>>
<1> HIDE DEF e
<1>4. FlattenSeq(o) = x
  <2>1. FlattenSeq(Append(e, x)) = FlattenSeq(e) \o x
    BY <1>1, FlatAppend
  <2> QED BY <1>1, <1>2, <1>3, <2>1
<1>5. FlattenSeq(Append(o, y)) = x \o y
  <2>1. o \in Seq(Seq(A))
    BY <1>2
  <2> HIDE DEF o
  <2> QED BY <1>4, <2>1, FlatAppend
<1> QED BY <1>2, <1>4, <1>5

\* A merge leaves the characters as they are.
LEMMA FlatMerged ==
  ASSUME NEW A, NEW s \in Seq(Seq(A)), NEW i \in 1 .. Len(s) - 1
  PROVE  FlattenSeq(Merged(s, i)) = FlattenSeq(s)
<1> DEFINE n == Len(s)
           X == Seq(A)
           a == SubSeq(s, 1, i - 1)
           x == s[i]
           y == s[i+1]
           b == <<x \o y>>
           d == <<x, y>>
           c == SubSeq(s, i + 2, n)
<1>1. n \in Nat /\ i \in 1 .. n /\ i + 1 \in 1 .. n /\ x \in X /\ y \in X
  OBVIOUS
<1>2. a \in Seq(X) /\ c \in Seq(X)
  <2>1. \A k \in 1 .. i - 1 : s[k] \in X
    BY <1>1
  <2>2. \A k \in i + 2 .. n : s[k] \in X
    BY <1>1
  <2>3. 1 \in Int /\ i - 1 \in Int /\ i + 2 \in Int /\ n \in Int
    BY <1>1
  <2> DEFINE j == i - 1
             l == i + 2
             o == 1
  <2>4. j \in Int /\ l \in Int /\ o \in Int /\ (\A k \in o .. j : s[k] \in X) /\ (\A k \in l .. n : s[k] \in X)
    BY <2>1, <2>2, <2>3
  <2> HIDE DEF X, j, l, n, o
  <2>5. SubSeq(s, o, j) \in Seq(X)
    BY <2>4, SubSeqProperties
  <2>6. SubSeq(s, l, n) \in Seq(X)
    BY <2>3, <2>4, SubSeqProperties
  <2> QED BY <2>5, <2>6 DEF j, l, o
<1>3. x \o y \in X
  <2>1. x \in Seq(A) /\ y \in Seq(A)
    BY <1>1
  <2> HIDE DEF x, y
  <2> QED BY <2>1, ConcatProperties
<1>4. Merged(s, i) = (a \o b) \o c
  BY DEF Merged
<1>5. s = (a \o d) \o c
  <2>1. SubSeq(s, 1, i) = a \o <<x>>
    <3> DEFINE o == 1
    <3>1. o \in 1 .. Len(s) /\ i \in o .. Len(s)
      BY <1>1
    <3> HIDE DEF o
    <3>2. SubSeq(s, o, i) = SubSeq(s, o, i-1) \o << s[i] >>
      BY <3>1, SubSeqRecursiveSecond
    <3> QED BY <3>2 DEF o
  <2>2. SubSeq(s, 1, i+1) = SubSeq(s, 1, i) \o <<y>>
    <3> DEFINE o == 1
               j == i + 1
    <3>1. o \in 1 .. Len(s) /\ j \in o .. Len(s) /\ j - 1 = i
      BY <1>1
    <3> HIDE DEF o, j
    <3>2. SubSeq(s, o, j) = SubSeq(s, o, j-1) \o << s[j] >>
      BY <3>1, SubSeqRecursiveSecond
    <3> QED BY <3>1, <3>2 DEF o, j
  <2>3. SubSeq(s, 1, i+1) \o c = s
    <3> DEFINE o == 1
               j == i + 1
    <3>1. o \in 1 .. Len(s) + 1 /\ j \in o - 1 .. Len(s) /\ n \in j .. Len(s) /\ j + 1 = i + 2
      BY <1>1
    <3> HIDE DEF o, j, n
    <3>2. SubSeq(s, o, j) \o SubSeq(s, j+1, n) = SubSeq(s, o, n)
      BY <3>1, ConcatAdjacentSubSeq
    <3>3. SubSeq(s, 1, n) = s
      BY SubSeqFull DEF n
    <3> QED BY <3>1, <3>2, <3>3 DEF o, j
  <2>4. (a \o <<x>>) \o <<y>> = a \o d
    <3>1. <<x>> \in Seq(X) /\ <<y>> \in Seq(X) /\ <<x>> \o <<y>> = d
      <4> DEFINE p == x
                 q == y
      <4>1. p \in X /\ q \in X
        BY <1>1
      <4> HIDE DEF p, q, X
      <4> QED BY <4>1, PairIs DEF p, q
    <3> DEFINE u == <<x>>
               v == <<y>>
    <3>2. a \in Seq(X) /\ u \in Seq(X) /\ v \in Seq(X) /\ u \o v = d
      BY <1>2, <3>1
    <3> HIDE DEF u, v, X, a, d
    <3>3. a \in Seq(X) /\ u \in Seq(X) /\ v \in Seq(X)
      BY <3>2
    <3>4. (a \o u) \o v = a \o (u \o v)
      BY <3>3, ConcatAssociative, SMTT(30)
    <3> QED BY <3>2, <3>4 DEF u, v
  <2> HIDE DEF a, c, d, x, y
  <2> QED BY <2>1, <2>2, <2>3, <2>4
<1>6. /\ b \in Seq(X) /\ FlattenSeq(b) = x \o y
      /\ d \in Seq(X) /\ FlattenSeq(d) = x \o y
  <2> DEFINE z == x \o y
  <2>1. x \in Seq(A) /\ y \in Seq(A) /\ z \in Seq(A)
    BY <1>1, <1>3
  <2> HIDE DEF x, y, z
  <2>2. <<z>> \in Seq(Seq(A)) /\ FlattenSeq(<<z>>) = z
    BY <2>1, FlatOne
  <2>3. <<x, y>> \in Seq(Seq(A)) /\ FlattenSeq(<<x, y>>) = x \o y
    BY <2>1, FlatOne
  <2> QED BY <2>2, <2>3 DEF z
<1> HIDE DEF a, b, c, d
<1>7. a \in Seq(Seq(A)) /\ b \in Seq(Seq(A)) /\ c \in Seq(Seq(A)) /\ d \in Seq(Seq(A))
  BY <1>2, <1>6
<1>8. /\ a \o b \in Seq(Seq(A)) /\ FlattenSeq(a \o b) = FlattenSeq(a) \o FlattenSeq(b)
      /\ a \o d \in Seq(Seq(A)) /\ FlattenSeq(a \o d) = FlattenSeq(a) \o FlattenSeq(d)
  BY <1>7, FlatConcat
<1> DEFINE ab == a \o b
           ad == a \o d
<1>9. ab \in Seq(Seq(A)) /\ ad \in Seq(Seq(A))
  BY <1>8
<1>10. FlattenSeq(ab) = FlattenSeq(ad)
  BY <1>6, <1>8
<1> HIDE DEF ab, ad
<1>11. /\ FlattenSeq(ab \o c) = FlattenSeq(ab) \o FlattenSeq(c)
       /\ FlattenSeq(ad \o c) = FlattenSeq(ad) \o FlattenSeq(c)
  BY <1>7, <1>9, FlatConcat
<1> QED BY <1>4, <1>5, <1>10, <1>11 DEF ab, ad

\* A round leaves the characters as they are.
LEMMA FlatRound ==
  ASSUME NEW A, NEW s \in Seq(Seq(A))
  PROVE  FlattenSeq(Round(s)) = FlattenSeq(s)
<1>1. CASE Ranks(s) = {}
  BY <1>1 DEF Round
<1>2. CASE Ranks(s) # {}
  <2> DEFINE r == Min(Ranks(s))
             i == Min(PlacesOf(r, s))
  <2>1. Ranks(s) \subseteq Nat
    BY RanksAre DEF Ranks
  <2>2. r \in Ranks(s)
    BY <1>2, <2>1, MinIs
  <2>3. PlacesOf(r, s) # {} /\ PlacesOf(r, s) \subseteq Nat
    <3> HIDE DEF r
    <3>1. PlacesOf(r, s) # {}
      BY <2>2 DEF Ranks
    <3>2. 1 .. Len(s) - 1 \subseteq Nat
      OBVIOUS
    <3> QED BY <3>1, <3>2 DEF PlacesOf
  <2>4. Round(s) = Merged(s, i)
    BY <1>2 DEF Round
  <2> HIDE DEF r
  <2>5. i \in PlacesOf(r, s)
    BY <2>3, MinIs
  <2> HIDE DEF i
  <2>6. i \in 1 .. Len(s) - 1
    BY <2>5 DEF PlacesOf
  <2> QED BY <2>4, <2>6, FlatMerged
<1> QED BY <1>1, <1>2

\* The symbols of a word are its characters, in their order.
LEMMA BpeFlat ==
  ASSUME NEW A, NEW s \in Seq(Seq(A))
  PROVE  bpeWord(s) \in Seq(Seq(A)) /\ FlattenSeq(bpeWord(s)) = FlattenSeq(s)
<1> DEFINE n == Len(s)
           Good(x) == x \in Seq(Seq(A)) /\ FlattenSeq(x) = FlattenSeq(s)
<1>1. PICK f : f[0] = s /\ f[n] = bpeWord(s) /\ \A k \in 0 .. n-1 : f[k+1] = Round(f[k])
  BY BpeSteps
<1>2. n \in Nat
  OBVIOUS
<1> DEFINE T == {k \in 0 .. n : Good(f[k])}
<1>3. 0 \in T
  BY <1>1, <1>2
<1>4. ASSUME NEW k \in 0 .. n-1, k \in T PROVE k + 1 \in T
  <2> DEFINE x == f[k]
  <2>1. x \in Seq(Seq(A)) /\ FlattenSeq(x) = FlattenSeq(s) /\ f[k+1] = Round(x) /\ k + 1 \in 0 .. n
    BY <1>1, <1>2, <1>4
  <2> HIDE DEF x, T
  <2>2. Round(x) \in Seq(Seq(A)) /\ FlattenSeq(Round(x)) = FlattenSeq(x)
    BY <2>1, RoundKeeps, FlatRound
  <2> QED BY <2>1, <2>2 DEF T
<1> HIDE DEF T, n
<1>5. 0 .. n \subseteq T
  BY <1>2, <1>3, <1>4, IntervalInduction
<1>6. n \in T
  BY <1>2, <1>5
<1> QED BY <1>1, <1>6 DEF T

\* A character more: it ends the last word, or is a word of its own behind one
\* that ends in a space.
LEMMA TakenIs ==
  ASSUME NEW A, NEW words \in Seq(Seq(A)), NEW c \in A
  PROVE  /\ Taken(words, c) \in Seq(Seq(A)) /\ Taken(words, c) # <<>>
         /\ Last(Last(Taken(words, c))) = c
         /\ FlattenSeq(Taken(words, c)) = Append(FlattenSeq(words), c)
         /\ words # <<>> => Alike(words, Taken(words, c), Len(words) - 1)
         /\ words # <<>> /\ Last(Last(words)) = Space => Alike(words, Taken(words, c), Len(words))
<1> DEFINE n == Len(words)
           X == Seq(A)
           o == <<c>>
           t == FlattenSeq(words)
<1>1. n \in Nat /\ o \in X /\ Len(o) = 1 /\ o[1] = c /\ t \in X
  <2>1. t \in X
    <3>1. o \in Seq(A)
      OBVIOUS
    <3> HIDE DEF o
    <3> QED BY <3>1, FlatAppend
  <2> QED BY <2>1
<1>2. t \o o = Append(t, c)
  <2> HIDE DEF t
  <2> QED BY <1>1, AppendIsConcat
<1>3. ASSUME words # <<>>, Last(Last(words)) # Space
      PROVE  /\ Taken(words, c) \in Seq(X) /\ Taken(words, c) # <<>>
             /\ Last(Last(Taken(words, c))) = c
             /\ FlattenSeq(Taken(words, c)) = t \o o
             /\ Alike(words, Taken(words, c), n - 1)
  <2> DEFINE w == words[n]
             m == n - 1
             a == SubSeq(words, 1, m)
             y == Append(w, c)
             b == <<y>>
             u == <<w>>
  <2>1. n > 0 /\ m \in Nat /\ w \in X /\ Last(words) = w /\ Front(words) = a
    BY <1>3 DEF Last, Front
  <2>2. a \in Seq(X) /\ Len(a) = m /\ \A i \in 1 .. m : a[i] = words[i]
    <3> DEFINE k == 1
    <3>1. k \in Int /\ m \in Int /\ \A i \in k .. m : words[i] \in X
      BY <2>1
    <3> HIDE DEF k, m, X
    <3>2. /\ SubSeq(words, k, m) \in Seq(X) /\ Len(SubSeq(words, k, m)) = IF k <= m THEN m - k + 1 ELSE 0
          /\ \A i \in 1 .. m - k + 1 : SubSeq(words, k, m)[i] = words[k + i - 1]
      BY <3>1, SubSeqProperties
    <3> QED BY <2>1, <3>2 DEF k
  <2>3. /\ y \in X /\ Len(y) = Len(w) + 1 /\ y[Len(w)+1] = c /\ y = w \o o /\ Len(w) \in Nat
    <3>1. w \in Seq(A)
      BY <2>1
    <3> HIDE DEF w
    <3> QED BY <3>1, AppendProperties, AppendIsConcat
  <2>4. Taken(words, c) = a \o b
    BY <1>3, <2>1 DEF Taken
  <2>5. words = a \o u
    <3> DEFINE k == 1
    <3>1. k \in 1 .. Len(words) /\ n \in k .. Len(words)
      BY <2>1
    <3> HIDE DEF k, n
    <3>2. SubSeq(words, k, n) = SubSeq(words, k, n-1) \o << words[n] >>
      BY <3>1, SubSeqRecursiveSecond
    <3>3. SubSeq(words, 1, n) = words
      BY SubSeqFull DEF n
    <3> QED BY <3>2, <3>3 DEF k
  <2> HIDE DEF y, w
  <2>6. b \in Seq(X) /\ FlattenSeq(b) = y /\ u \in Seq(X) /\ FlattenSeq(u) = w /\ Len(b) = 1 /\ b[1] = y
    BY <2>1, <2>3, FlatOne
  <2> HIDE DEF a, b, u, m
  <2>7. /\ a \o b \in Seq(Seq(A)) /\ FlattenSeq(a \o b) = FlattenSeq(a) \o y
        /\ FlattenSeq(a \o u) = FlattenSeq(a) \o w /\ FlattenSeq(a) \in X
    <3>1. a \in Seq(Seq(A)) /\ b \in Seq(Seq(A)) /\ u \in Seq(Seq(A))
      BY <2>2, <2>6
    <3>2. /\ a \o b \in Seq(Seq(A)) /\ FlattenSeq(a \o b) = FlattenSeq(a) \o FlattenSeq(b)
          /\ FlattenSeq(a) \in Seq(A)
      BY <3>1, FlatConcat
    <3>3. FlattenSeq(a \o u) = FlattenSeq(a) \o FlattenSeq(u)
      BY <3>1, FlatConcat
    <3> QED BY <2>6, <3>2, <3>3
  <2> DEFINE q == FlattenSeq(a)
             z == a \o b
  <2>8. FlattenSeq(z) = t \o o
    <3>1. q \in Seq(A) /\ w \in Seq(A) /\ o \in Seq(A) /\ t = q \o w
      BY <1>1, <2>1, <2>5, <2>7
    <3> HIDE DEF q, o
    <3>3. q \in Seq(A) /\ w \in Seq(A) /\ o \in Seq(A)
      BY <3>1
    <3>2. (q \o w) \o o = q \o (w \o o)
      BY <3>3, ConcatAssociative
    <3> QED BY <2>3, <2>7, <3>1, <3>2 DEF q
  <2>9. /\ Len(a \o b) = Len(a) + Len(b)
        /\ \A i \in 1 .. Len(a) + Len(b) : (a \o b)[i] = IF i <= Len(a) THEN a[i] ELSE b[i - Len(a)]
    BY <2>2, <2>6, ConcatProperties
  <2>10. /\ Len(z) = n /\ z[n] = y /\ \A i \in 1 .. m : z[i] = words[i]
    <3>1. Len(a) = m /\ Len(b) = 1 /\ n = m + 1 /\ n \in 1 .. m + 1 /\ ~(n <= m) /\ n - m = 1
      BY <1>1, <2>1, <2>2, <2>6 DEF m
    <3>2. /\ Len(z) = n /\ \A i \in 1 .. n : z[i] = IF i <= m THEN a[i] ELSE b[i-m]
      BY <2>9, <3>1
    <3> HIDE DEF z, n
    <3>3. z[n] = y
      BY <2>1, <2>6, <3>1, <3>2
    <3>4. \A i \in 1 .. m : i \in 1 .. n /\ i <= m
      BY <2>1, <3>1
    <3>5. \A i \in 1 .. m : z[i] = words[i]
      BY <2>2, <3>2, <3>4
    <3> QED BY <3>2, <3>3, <3>5
  <2> HIDE DEF z
  <2>11. Last(Last(z)) = c /\ z # <<>>
    BY <2>1, <2>3, <2>10 DEF Last
  <2>12. Alike(words, z, n - 1)
    BY <2>1, <2>10 DEF Alike, m
  <2> QED BY <2>4, <2>7, <2>8, <2>11, <2>12 DEF z
<1>4. ASSUME ~(words # <<>> /\ Last(Last(words)) # Space)
      PROVE  /\ Taken(words, c) \in Seq(X) /\ Taken(words, c) # <<>>
             /\ Last(Last(Taken(words, c))) = c
             /\ FlattenSeq(Taken(words, c)) = t \o o
             /\ Alike(words, Taken(words, c), n)
  <2> DEFINE z == Append(words, o)
  <2>1. Taken(words, c) = z
    BY <1>4 DEF Taken
  <2> HIDE DEF o, X
  <2>2. z \in Seq(X) /\ z # <<>> /\ Len(z) = n + 1 /\ z[n+1] = o /\ \A i \in 1 .. n : z[i] = words[i]
    BY <1>1, AppendProperties DEF X
  <2>3. FlattenSeq(z) = t \o o
    BY <1>1, FlatAppend DEF X
  <2> HIDE DEF z
  <2>4. Last(Last(z)) = c
    BY <1>1, <2>2 DEF Last
  <2>5. Alike(words, z, n)
    BY <1>1, <2>2 DEF Alike
  <2> QED BY <2>1, <2>2, <2>3, <2>4, <2>5
<1>5. Alike(words, Taken(words, c), n) /\ words # <<>> => Alike(words, Taken(words, c), n - 1)
  BY <1>1 DEF Alike
<1> HIDE DEF n, o, t
<1> QED BY <1>2, <1>3, <1>4, <1>5 DEF n, t

\* The words of some characters, character by character.
LEMMA WordSteps ==
  ASSUME NEW A, NEW chars \in Seq(A)
  PROVE  \E f : /\ f[0] = <<>> /\ f[Len(chars)] = Words(chars)
               /\ \A k \in 0 .. Len(chars)-1 : f[k+1] = Taken(f[k], chars[k+1])
<1> DEFINE n == Len(chars)
           X == Seq(Seq(A))
           F == [k \in 1 .. n |-> [p \in X |-> Taken(p, chars[k])]]
           Eq(g) == g = [t \in SUBSET DOMAIN chars |->
                           IF t = {} THEN <<>> ELSE Taken(g[t \ {Max(t)}], chars[Max(t)])]
<1>1. Words(chars) = (CHOOSE g : Eq(g))[DOMAIN chars]
  BY DEF Words, FoldLeft, MapThenFoldSet
<1>2. n \in Nat /\ DOMAIN chars = 1 .. n /\ \A k \in 1 .. n : chars[k] \in A
  OBVIOUS
<1>3. F \in [1 .. n -> [X -> X]] /\ <<>> \in X
  <2>1. \A k \in 1 .. n, p \in X : Taken(p, chars[k]) \in X
    BY <1>2, TakenIs
  <2>2. <<>> \in X
    OBVIOUS
  <2> HIDE DEF n, X
  <2> QED BY <2>1, <2>2
<1> HIDE DEF X
<1>4. \A k \in 1 .. n, p \in X : F[k][p] = Taken(p, chars[k])
  OBVIOUS
<1>5. PICK h : IsFold(h, n, X, <<>>, F)
  <2> DEFINE b == <<>>
  <2>1. n \in Nat /\ b \in X /\ F \in [1 .. n -> [X -> X]]
    BY <1>2, <1>3
  <2> HIDE DEF F, n, b
  <2>2. \E h : IsFold(h, n, X, b, F)
    BY <2>1, SubsetFold
  <2> QED BY <2>2 DEF b
<1>6. \E g : Eq(g)
  <2> DEFINE here(t) == IF t = {} THEN <<>> ELSE Taken(h[t \ {Max(t)}], chars[Max(t)])
  <2>1. ASSUME NEW t \in SUBSET (1 .. n) PROVE h[t] = here(t)
    <3>1. t \ {Max(t)} \in SUBSET (1 .. n)
      OBVIOUS
    <3>2. t # {} => Max(t) \in 1 .. n
      BY <1>2, MaxExists
    <3> HIDE DEF F, n
    <3> QED BY <1>4, <1>5, <3>1, <3>2 DEF IsFold
  <2>2. h = [t \in SUBSET (1 .. n) |-> h[t]]
    BY <1>5 DEF IsFold
  <2> HIDE DEF n, here, F
  <2>3. h = [t \in SUBSET (1 .. n) |-> here(t)]
    BY <2>1, <2>2
  <2> QED BY <1>2, <2>3 DEF here
<1>7. PICK g : Eq(g) /\ Words(chars) = g[1 .. n]
  <2> HIDE DEF n
  <2>1. Eq(CHOOSE g : Eq(g))
    BY <1>6
  <2> HIDE DEF Eq
  <2> QED BY <1>1, <1>2, <2>1
<1> DEFINE f == [k \in 0 .. n |-> g[1 .. k]]
<1>8. f[0] = <<>> /\ f[n] = Words(chars)
  <2>1. 1 .. 0 = {} /\ 0 \in 0 .. n /\ n \in 0 .. n /\ {} \in SUBSET (1 .. n)
    BY <1>2
  <2> QED BY <1>2, <1>7, <2>1
<1>9. ASSUME NEW k \in 0 .. n-1 PROVE f[k+1] = Taken(f[k], chars[k+1])
  <2> HIDE DEF n
  <2>1. k \in 0 .. n /\ k + 1 \in 0 .. n
    BY <1>2
  <2>2. /\ 1 .. k+1 \in SUBSET (1 .. n) /\ 1 .. k+1 # {}
        /\ Max(1 .. k+1) = k + 1
        /\ (1 .. k+1) \ {k+1} = 1 .. k
    BY <1>2, IntervalTop
  <2>3. f[k+1] = g[1 .. k+1] /\ f[k] = g[1 .. k]
    BY <2>1
  <2>4. g[1 .. k+1] = Taken(g[(1 .. k+1) \ {Max(1 .. k+1)}], chars[Max(1 .. k+1)])
    BY <1>2, <1>7, <2>2
  <2> HIDE DEF f
  <2> QED BY <1>2, <2>1, <2>2, <2>3, <2>4
<1> HIDE DEF f
<1> QED BY <1>8, <1>9

\* f[k] is what Words makes of the first k characters.
WordsByStep(f, chars) ==
  f[0] = <<>> /\ f[Len(chars)] = Words(chars) /\ \A k \in 0 .. Len(chars)-1 : f[k+1] = Taken(f[k], chars[k+1])

\* So many characters, in words that end where the characters do.
WordsOf(words, chars, k, A) ==
  /\ words \in Seq(Seq(A)) /\ FlattenSeq(words) = SubSeq(chars, 1, k)
  /\ k > 0 => words # <<>> /\ Last(Last(words)) = chars[k]

\* After k characters the words hold those, and the last ends in the k-th.
LEMMA WordsSoFar ==
  ASSUME NEW A, NEW chars \in Seq(A), NEW f, WordsByStep(f, chars), NEW n \in 0 .. Len(chars)
  PROVE  WordsOf(f[n], chars, n, A)
<1> DEFINE m == Len(chars)
           T == {k \in 0 .. m : WordsOf(f[k], chars, k, A)}
<1>1. /\ m \in Nat /\ f[0] = <<>> /\ \A k \in 0 .. m-1 : f[k+1] = Taken(f[k], chars[k+1])
      /\ \A k \in 1 .. m : chars[k] \in A
  BY DEF WordsByStep
<1>2. 0 \in T
  <2>1. SubSeq(chars, 1, 0) = <<>>
    BY SubSeqEmpty
  <2>2. FlattenSeq(f[0]) = <<>> /\ f[0] \in Seq(Seq(A))
    BY <1>1, EmptySeq DEF FlattenSeq
  <2>3. ~(0 > 0)
    OBVIOUS
  <2>4. WordsOf(f[0], chars, 0, A)
    BY <2>1, <2>2, <2>3, <1>1 DEF WordsOf
  <2> QED BY <1>1, <2>4
<1>3. ASSUME NEW k \in 0 .. m-1, k \in T PROVE k + 1 \in T
  <2> DEFINE w == f[k]
             j == k + 1
             c == chars[j]
             x == Taken(w, c)
  <2>1. /\ j \in 1 .. m /\ j \in 0 .. m /\ c \in A /\ j - 1 = k /\ f[j] = x /\ j > 0 /\ WordsOf(w, chars, k, A)
    BY <1>1, <1>3
  <2>2. SubSeq(chars, 1, j) = SubSeq(chars, 1, j - 1) \o << c >>
    <3> DEFINE o == 1
    <3>1. o \in 1 .. Len(chars) /\ j \in o .. Len(chars)
      BY <1>1, <2>1
    <3> HIDE DEF j, o
    <3>2. SubSeq(chars, o, j) = SubSeq(chars, o, j - 1) \o << chars[j] >>
      BY <3>1, SubSeqRecursiveSecond
    <3> QED BY <3>2 DEF o
  <2>3. w \in Seq(Seq(A)) /\ FlattenSeq(w) = SubSeq(chars, 1, k)
    BY <2>1 DEF WordsOf
  <2> HIDE DEF w, c, j, T
  <2>4. x \in Seq(Seq(A)) /\ x # <<>> /\ Last(Last(x)) = c /\ FlattenSeq(x) = Append(FlattenSeq(w), c)
    BY <2>1, <2>3, TakenIs
  <2> HIDE DEF x
  <2>5. FlattenSeq(x) = SubSeq(chars, 1, j)
    <3> DEFINE p == FlattenSeq(w)
    <3>1. p \in Seq(A)
      BY <2>3, FlatAppend, <2>1, FlatConcat
    <3> HIDE DEF p
    <3>2. Append(p, c) = p \o <<c>>
      BY <2>1, <3>1, AppendIsConcat
    <3> QED BY <2>1, <2>2, <2>3, <2>4, <3>2 DEF p
  <2>6. WordsOf(f[j], chars, j, A)
    BY <2>1, <2>4, <2>5 DEF WordsOf, c
  <2> QED BY <2>1, <2>6 DEF T, j
<1> HIDE DEF T, m
<1>4. 0 .. m \subseteq T
  BY <1>1, <1>2, <1>3, IntervalInduction
<1> QED BY <1>4 DEF T, m

\* The words of a text hold its characters, in their order.
LEMMA WordsJoined ==
  ASSUME NEW A, NEW chars \in Seq(A)
  PROVE  Words(chars) \in Seq(Seq(A)) /\ FlattenSeq(Words(chars)) = chars
<1> DEFINE n == Len(chars)
<1>1. PICK f : WordsByStep(f, chars)
  BY WordSteps DEF WordsByStep
<1>2. n \in 0 .. Len(chars)
  OBVIOUS
<1>3. SubSeq(chars, 1, n) = chars
  BY SubSeqFull
<1>4. f[n] = Words(chars)
  BY <1>1 DEF WordsByStep
<1> HIDE DEF n
<1>5. WordsOf(f[n], chars, n, A)
  BY <1>1, <1>2, WordsSoFar
<1> QED BY <1>3, <1>4, <1>5 DEF WordsOf

\* A word that ends in a space stays, whatever comes behind it.
LEMMA TakenKeepsStart ==
  ASSUME NEW A, NEW v \in Seq(Seq(A)), NEW w \in Seq(Seq(A)), NEW c \in A,
         v # <<>>, Last(Last(v)) = Space, Alike(v, w, Len(v))
  PROVE  Alike(v, Taken(w, c), Len(v))
<1> DEFINE n == Len(v)
           m == Len(w)
           x == Taken(w, c)
<1>1. n \in Nat /\ m \in Nat /\ n > 0 /\ n <= m /\ \A i \in 1 .. n : v[i] = w[i]
  BY DEF Alike
<1>2. w # <<>>
  BY <1>1
<1>3. /\ Alike(w, x, m - 1)
      /\ Last(Last(w)) = Space => Alike(w, x, m)
  BY <1>2, TakenIs
<1>4. CASE n = m
  <2>1. Last(Last(w)) = Space
    <3>1. v[n] = w[m]
      BY <1>1, <1>4
    <3> QED BY <3>1 DEF Last
  <2>2. Alike(w, x, m)
    BY <1>3, <2>1
  <2> HIDE DEF x
  <2>3. Alike(v, x, n)
    BY <1>1, <1>4, <2>2 DEF Alike
  <2> QED BY <2>3 DEF x
<1>5. CASE n # m
  <2> HIDE DEF x
  <2>1. n <= m - 1 /\ Alike(w, x, m - 1)
    BY <1>1, <1>3, <1>5
  <2>2. Alike(v, x, n)
    BY <1>1, <2>1 DEF Alike
  <2> QED BY <2>2 DEF x
<1> QED BY <1>4, <1>5

\* What was typed up to a space is the beginning of the words.
LEMMA WordsStable ==
  ASSUME NEW A, NEW chars \in Seq(A), NEW n \in 1 .. Len(chars), chars[n] = Space
  PROVE  Alike(Words(SubSeq(chars, 1, n)), Words(chars), Len(Words(SubSeq(chars, 1, n))))
<1> DEFINE m == Len(chars)
           start == SubSeq(chars, 1, n)
<1>1. m \in Nat /\ n \in Nat /\ n > 0 /\ n <= m /\ n \in 0 .. m /\ \A k \in 1 .. m : chars[k] \in A
  OBVIOUS
<1>2. start \in Seq(A) /\ Len(start) = n /\ \A k \in 1 .. n : start[k] = chars[k]
  <2> DEFINE o == 1
  <2>1. o \in Int /\ n \in Int /\ \A k \in o .. n : chars[k] \in A
    BY <1>1
  <2> HIDE DEF o
  <2>2. /\ SubSeq(chars, o, n) \in Seq(A) /\ Len(SubSeq(chars, o, n)) = IF o <= n THEN n - o + 1 ELSE 0
        /\ \A i \in 1 .. n - o + 1 : SubSeq(chars, o, n)[i] = chars[o + i - 1]
    BY <2>1, SubSeqProperties
  <2> QED BY <1>1, <2>2 DEF o
<1> HIDE DEF start
<1>3. PICK f : WordsByStep(f, chars)
  BY WordSteps DEF WordsByStep
<1>4. PICK g : WordsByStep(g, start)
  BY <1>2, WordSteps DEF WordsByStep
<1>5. /\ f[0] = <<>> /\ f[m] = Words(chars) /\ \A k \in 0 .. m-1 : f[k+1] = Taken(f[k], chars[k+1])
      /\ g[0] = <<>> /\ g[n] = Words(start) /\ \A k \in 0 .. n-1 : g[k+1] = Taken(g[k], start[k+1])
  BY <1>2, <1>3, <1>4 DEF WordsByStep
<1> HIDE DEF m
<1> DEFINE T == {k \in 0 .. n : f[k] = g[k]}
<1>6. f[n] = Words(start)
  <2>1. 0 \in T
    BY <1>1, <1>5
  <2>2. ASSUME NEW k \in 0 .. n-1, k \in T PROVE k + 1 \in T
    <3>1. k \in 0 .. m-1 /\ k + 1 \in 1 .. n /\ k + 1 \in 0 .. n
      BY <1>1
    <3> QED BY <1>2, <1>5, <2>2, <3>1
  <2> HIDE DEF T
  <2>3. 0 .. n \subseteq T
    BY <1>1, <2>1, <2>2, IntervalInduction
  <2>4. n \in T
    BY <1>1, <2>3
  <2> QED BY <1>5, <2>4 DEF T
<1> HIDE DEF T
<1> DEFINE v == Words(start)
           l == m - n
           Good(x) == x \in Seq(Seq(A)) /\ Alike(v, x, Len(v))
           U == {j \in 0 .. l : Good(f[n+j])}
<1>7. v \in Seq(Seq(A)) /\ v # <<>> /\ Last(Last(v)) = Space
  <2>1. n \in 0 .. Len(chars)
    BY <1>1 DEF m
  <2>2. WordsOf(f[n], chars, n, A)
    BY <1>3, <2>1, WordsSoFar
  <2> QED BY <1>1, <1>6, <2>2 DEF WordsOf
<1> HIDE DEF v
<1>8. l \in Nat /\ n + l = m
  BY <1>1
<1>9. 0 \in U
  <2>1. n + 0 = n /\ 0 \in 0 .. l /\ f[n] = v
    BY <1>1, <1>6, <1>8 DEF v
  <2>2. Alike(v, v, Len(v))
    BY <1>7 DEF Alike
  <2> QED BY <1>7, <2>1, <2>2
<1>10. ASSUME NEW j \in 0 .. l-1, j \in U PROVE j + 1 \in U
  <2> DEFINE w == f[n+j]
             c == chars[n+(j+1)]
             x == Taken(w, c)
  <2>1. /\ n + j \in 0 .. m-1 /\ (n + j) + 1 = n + (j + 1) /\ n + (j + 1) \in 1 .. m /\ j + 1 \in 0 .. l
    BY <1>1, <1>8
  <2>2. w \in Seq(Seq(A)) /\ Alike(v, w, Len(v)) /\ c \in A
    BY <1>1, <1>10, <2>1
  <2>3. f[n+(j+1)] = x
    BY <1>5, <2>1
  <2> HIDE DEF w, c, U, l
  <2>4. x \in Seq(Seq(A))
    BY <2>2, TakenIs
  <2>5. Alike(v, x, Len(v))
    BY <1>7, <2>2, TakenKeepsStart
  <2> QED BY <2>1, <2>3, <2>4, <2>5 DEF U
<1> HIDE DEF U, l
<1>11. 0 .. l \subseteq U
  BY <1>8, <1>9, <1>10, IntervalInduction
<1>12. l \in U
  BY <1>8, <1>11
<1>13. Good(f[n+l])
  BY <1>12 DEF U
<1> QED BY <1>5, <1>8, <1>13 DEF v, start

\* A sequence that begins with another one.
LEMMA ConcatStarts ==
  ASSUME NEW X, NEW x \in Seq(X), NEW y \in Seq(X)
  PROVE  IsPrefix(x, x \o y)
<1> DEFINE n == Len(x)
           z == x \o y
           o == 1
           s == SubSeq(z, 1, n)
<1>1. n \in Nat /\ Len(z) = n + Len(y) /\ Len(y) \in Nat /\ \A i \in 1 .. n : z[i] = x[i] /\ x[i] \in X
  BY ConcatProperties
<1> HIDE DEF z
<1>2. s \in Seq(X) /\ Len(s) = n /\ \A i \in 1 .. n : s[i] = x[i]
  <2>1. o \in Int /\ n \in Int /\ \A i \in o .. n : z[i] \in X
    BY <1>1
  <2> HIDE DEF o, n
  <2>2. /\ SubSeq(z, o, n) \in Seq(X) /\ Len(SubSeq(z, o, n)) = IF o <= n THEN n - o + 1 ELSE 0
        /\ \A i \in 1 .. n - o + 1 : SubSeq(z, o, n)[i] = z[o + i - 1]
    BY <2>1, SubSeqProperties
  <2> QED BY <1>1, <2>2 DEF o
<1> HIDE DEF s
<1>3. s = x
  <2>1. Len(s) = Len(x) /\ \A i \in 1 .. Len(s) : s[i] = x[i]
    BY <1>2
  <2> QED BY <1>2, <2>1, SeqEqual
<1>4. SubSeq(x, 1, n) = x
  BY SubSeqFull
<1>5. n <= Len(z)
  BY <1>1
<1> QED BY <1>3, <1>4, <1>5 DEF IsPrefix, s, z

\* What begins with other sequences begins with them put together.
LEMMA FlatStarts ==
  ASSUME NEW A, NEW ss \in Seq(Seq(A)), NEW tt \in Seq(Seq(A)), Alike(ss, tt, Len(ss))
  PROVE  IsPrefix(FlattenSeq(ss), FlattenSeq(tt))
<1> DEFINE X == Seq(A)
           n == Len(ss)
           m == Len(tt)
           o == 1
           a == SubSeq(tt, 1, n)
           b == SubSeq(tt, n + 1, m)
<1>1. /\ n \in Nat /\ m \in Nat /\ n <= m /\ \A i \in 1 .. n : ss[i] = tt[i]
      /\ \A i \in 1 .. m : tt[i] \in X
  BY DEF Alike
<1>2. a \in Seq(X) /\ Len(a) = n /\ \A i \in 1 .. n : a[i] = ss[i]
  <2>1. o \in Int /\ n \in Int /\ \A i \in o .. n : tt[i] \in X
    BY <1>1
  <2> HIDE DEF o, n, X
  <2>2. /\ SubSeq(tt, o, n) \in Seq(X) /\ Len(SubSeq(tt, o, n)) = IF o <= n THEN n - o + 1 ELSE 0
        /\ \A i \in 1 .. n - o + 1 : SubSeq(tt, o, n)[i] = tt[o + i - 1]
    BY <2>1, SubSeqProperties
  <2> QED BY <1>1, <2>2 DEF o
<1>3. b \in Seq(X)
  <2> DEFINE k == n + 1
  <2>1. k \in Int /\ m \in Int /\ \A i \in k .. m : tt[i] \in X
    BY <1>1
  <2> HIDE DEF k, m, X
  <2>2. SubSeq(tt, k, m) \in Seq(X)
    BY <2>1, SubSeqProperties
  <2> QED BY <2>2 DEF k
<1>4. a \o b = tt
  <2>1. o \in 1 .. Len(tt) + 1 /\ n \in o - 1 .. Len(tt) /\ m \in n .. Len(tt)
    BY <1>1
  <2> HIDE DEF o, n, m
  <2>2. SubSeq(tt, o, n) \o SubSeq(tt, n+1, m) = SubSeq(tt, o, m)
    BY <2>1, ConcatAdjacentSubSeq
  <2>3. SubSeq(tt, 1, m) = tt
    BY SubSeqFull DEF m
  <2> QED BY <2>2, <2>3 DEF o
<1> HIDE DEF a, b
<1>5. a = ss
  <2>1. a \in Seq(X) /\ ss \in Seq(X) /\ Len(a) = Len(ss) /\ \A i \in 1 .. Len(a) : a[i] = ss[i]
    BY <1>2
  <2> HIDE DEF X
  <2> QED BY <2>1, SeqEqual
<1>6. b \in Seq(Seq(A))
  BY <1>3
<1>7. /\ FlattenSeq(ss \o b) = FlattenSeq(ss) \o FlattenSeq(b)
      /\ FlattenSeq(ss) \in Seq(A) /\ FlattenSeq(b) \in Seq(A)
  BY <1>6, FlatConcat
<1> DEFINE p == FlattenSeq(ss)
           q == FlattenSeq(b)
<1>8. p \in Seq(A) /\ q \in Seq(A) /\ FlattenSeq(tt) = p \o q
  BY <1>4, <1>5, <1>7
<1> HIDE DEF p, q
<1>9. IsPrefix(p, p \o q)
  BY <1>8, ConcatStarts
<1> QED BY <1>8, <1>9 DEF p

\* The elements of so many sequences, put together twice.
LEMMA FlatTwice ==
  ASSUME NEW A, NEW pp \in Seq(Seq(Seq(A))), NEW ww \in Seq(Seq(A)), Len(pp) = Len(ww),
         \A i \in 1 .. Len(ww) : FlattenSeq(pp[i]) = ww[i]
  PROVE  FlattenSeq(FlattenSeq(pp)) = FlattenSeq(ww)
<1> DEFINE n == Len(ww)
           X == Seq(A)
<1>1. n \in Nat /\ Len(pp) = n /\ \A i \in 1 .. n : pp[i] \in Seq(X) /\ FlattenSeq(pp[i]) = ww[i]
  OBVIOUS
<1>2. PICK f : Joints(f, pp, X)
  <2>1. pp \in Seq(Seq(X))
    OBVIOUS
  <2> HIDE DEF X
  <2> QED BY <2>1, JointsExist
<1>3. PICK g : Joints(g, ww, A)
  BY JointsExist
<1>4. /\ f[0] = <<>> /\ f[n] = FlattenSeq(pp) /\ g[0] = <<>> /\ g[n] = FlattenSeq(ww)
      /\ \A k \in 0 .. n : f[k] \in Seq(X)
      /\ \A k \in 0 .. n-1 : f[k+1] = f[k] \o pp[k+1] /\ g[k+1] = g[k] \o ww[k+1]
  BY <1>1, <1>2, <1>3 DEF Joints
<1> HIDE DEF n
<1> DEFINE T == {k \in 0 .. n : FlattenSeq(f[k]) = g[k]}
<1>5. 0 \in T
  <2>1. 0 \in 0 .. n
    BY <1>1
  <2>2. FlattenSeq(<<>>) = <<>>
    BY EmptySeq DEF FlattenSeq
  <2> QED BY <1>4, <2>1, <2>2
<1>6. ASSUME NEW k \in 0 .. n-1, k \in T PROVE k + 1 \in T
  <2> DEFINE a == f[k]
             b == pp[k+1]
  <2>1. k \in 0 .. n /\ k + 1 \in 0 .. n /\ k + 1 \in 1 .. n
    BY <1>1
  <2>2. a \in Seq(Seq(A)) /\ b \in Seq(Seq(A)) /\ FlattenSeq(b) = ww[k+1] /\ FlattenSeq(a) = g[k]
    BY <1>1, <1>4, <1>6, <2>1
  <2>3. f[k+1] = a \o b /\ g[k+1] = g[k] \o ww[k+1]
    BY <1>4
  <2> HIDE DEF a, b, T
  <2>4. FlattenSeq(a \o b) = FlattenSeq(a) \o FlattenSeq(b)
    BY <2>2, FlatConcat
  <2>5. FlattenSeq(f[k+1]) = g[k+1]
    BY <2>2, <2>3, <2>4
  <2> QED BY <2>1, <2>5 DEF T
<1> HIDE DEF T
<1>7. 0 .. n \subseteq T
  BY <1>1, <1>5, <1>6, IntervalInduction
<1>8. n \in T
  BY <1>1, <1>7
<1>9. FlattenSeq(f[n]) = g[n]
  BY <1>8 DEF T
<1> QED BY <1>4, <1>9

\* The symbols of each word of a text.
SymbolsOf(chars) == [i \in DOMAIN Words(chars) |-> bpeWord(Split(Words(chars)[i]))]

\* Each word is encoded by itself; its symbols are its characters.
LEMMA EncodeIs ==
  ASSUME NEW A, NEW chars \in Seq(A)
  PROVE  /\ bpe_encode(chars) = FlattenSeq(SymbolsOf(chars))
         /\ SymbolsOf(chars) \in Seq(Seq(Seq(A))) /\ Len(SymbolsOf(chars)) = Len(Words(chars))
         /\ \A i \in 1 .. Len(Words(chars)) :
              /\ SymbolsOf(chars)[i] = bpeWord(Split(Words(chars)[i]))
              /\ SymbolsOf(chars)[i] = Reference(Split(Words(chars)[i]))
              /\ FlattenSeq(SymbolsOf(chars)[i]) = Words(chars)[i]
<1> DEFINE w == Words(chars)
           n == Len(w)
           p == SymbolsOf(chars)
<1>1. bpe_encode(chars) = FlattenSeq(p)
  BY DEF bpe_encode, SymbolsOf
<1>2. p = [i \in DOMAIN w |-> bpeWord(Split(w[i]))]
  BY DEF SymbolsOf
<1>3. w \in Seq(Seq(A))
  BY WordsJoined
<1> HIDE DEF w, p
<1>4. n \in Nat /\ DOMAIN w = 1 .. n /\ \A i \in 1 .. n : w[i] \in Seq(A)
  BY <1>3
<1> HIDE DEF n
<1>5. ASSUME NEW i \in 1 .. n
      PROVE  /\ bpeWord(Split(w[i])) \in Seq(Seq(A))
             /\ bpeWord(Split(w[i])) = Reference(Split(w[i]))
             /\ FlattenSeq(bpeWord(Split(w[i]))) = w[i]
  <2> DEFINE x == w[i]
             s == Split(x)
  <2>1. x \in Seq(A)
    BY <1>4
  <2> HIDE DEF x
  <2>2. s \in Seq(Seq(A)) /\ FlattenSeq(s) = x
    BY <2>1, SplitJoined
  <2> HIDE DEF s
  <2>3. bpeWord(s) \in Seq(Seq(A)) /\ FlattenSeq(bpeWord(s)) = FlattenSeq(s)
    BY <2>2, BpeFlat
  <2>4. bpeWord(s) = Reference(s)
    BY <2>2, BpeIsReference
  <2> QED BY <2>2, <2>3, <2>4 DEF s, x
<1>6. \A i \in 1 .. n : p[i] = bpeWord(Split(w[i]))
  BY <1>2, <1>4
<1>7. p \in Seq(Seq(Seq(A))) /\ Len(p) = n
  <2> DEFINE Y == Seq(Seq(A))
             e(i) == bpeWord(Split(w[i]))
  <2>1. \A i \in 1 .. n : e(i) \in Y
    BY <1>5
  <2>2. p = [i \in 1 .. n |-> e(i)]
    BY <1>2, <1>4
  <2> HIDE DEF e, Y
  <2>3. p \in Seq(Y) /\ Len(p) = n
    BY <1>4, <2>1, <2>2
  <2> QED BY <2>3 DEF Y
<1> QED BY <1>1, <1>5, <1>6, <1>7 DEF w, p, n

\* Decoding gives the text back.
LEMMA DecodeIs ==
  ASSUME NEW A, NEW chars \in Seq(A)
  PROVE  bpe_decode(bpe_encode(chars)) = chars
<1> DEFINE w == Words(chars)
           p == SymbolsOf(chars)
<1>1. w \in Seq(Seq(A)) /\ FlattenSeq(w) = chars
  BY WordsJoined
<1>2. /\ bpe_encode(chars) = FlattenSeq(p)
      /\ p \in Seq(Seq(Seq(A))) /\ Len(p) = Len(w)
      /\ \A i \in 1 .. Len(w) : FlattenSeq(p[i]) = w[i]
  BY EncodeIs
<1> HIDE DEF w, p
<1>3. FlattenSeq(FlattenSeq(p)) = FlattenSeq(w)
  BY <1>1, <1>2, FlatTwice
<1> QED BY <1>1, <1>2, <1>3 DEF bpe_decode

\* The tokens of what was typed up to a space are the beginning of the tokens.
LEMMA EncodeStable ==
  ASSUME NEW A, NEW chars \in Seq(A), NEW n \in 1 .. Len(chars), chars[n] = Space
  PROVE  IsPrefix(bpe_encode(SubSeq(chars, 1, n)), bpe_encode(chars))
<1> DEFINE start == SubSeq(chars, 1, n)
           v == Words(start)
           w == Words(chars)
           q == SymbolsOf(start)
           p == SymbolsOf(chars)
<1>1. start \in Seq(A)
  <2> DEFINE o == 1
  <2>1. o \in Int /\ n \in Int /\ \A i \in o .. n : chars[i] \in A
    OBVIOUS
  <2> HIDE DEF o
  <2>2. SubSeq(chars, o, n) \in Seq(A)
    BY <2>1, SubSeqProperties
  <2> QED BY <2>2 DEF o
<1>2. Alike(v, w, Len(v))
  BY WordsStable
<1> HIDE DEF start
<1>3. /\ bpe_encode(chars) = FlattenSeq(p) /\ p \in Seq(Seq(Seq(A))) /\ Len(p) = Len(w)
      /\ \A i \in 1 .. Len(w) : p[i] = bpeWord(Split(w[i]))
  BY EncodeIs
<1>4. /\ bpe_encode(start) = FlattenSeq(q) /\ q \in Seq(Seq(Seq(A))) /\ Len(q) = Len(v)
      /\ \A i \in 1 .. Len(v) : q[i] = bpeWord(Split(v[i]))
  BY <1>1, EncodeIs
<1> HIDE DEF v, w, p, q
<1>5. Len(v) \in Nat /\ Len(w) \in Nat
  BY <1>3, <1>4
<1>6. Alike(q, p, Len(q))
  BY <1>2, <1>3, <1>4, <1>5 DEF Alike
<1>7. IsPrefix(FlattenSeq(q), FlattenSeq(p))
  <2> DEFINE X == Seq(A)
  <2>1. q \in Seq(Seq(X)) /\ p \in Seq(Seq(X))
    BY <1>3, <1>4
  <2> HIDE DEF X
  <2> QED BY <1>6, <2>1, FlatStarts
<1> QED BY <1>3, <1>4, <1>7 DEF start

\* A text encoded gives what byte-pair encoding with this table gives.
LEMMA EncodeIsReference ==
  ASSUME NEW A, NEW chars \in Seq(A)
  PROVE  bpe_encode(chars) = FlattenSeq([i \in DOMAIN Words(chars) |-> Reference(Split(Words(chars)[i]))])
<1> DEFINE w == Words(chars)
           n == Len(w)
           p == SymbolsOf(chars)
           here(i) == bpeWord(Split(w[i]))
           there(i) == Reference(Split(w[i]))
<1>1. /\ bpe_encode(chars) = FlattenSeq(p)
      /\ \A i \in 1 .. n : p[i] = here(i) /\ p[i] = there(i)
  BY EncodeIs
<1>2. p = [i \in DOMAIN w |-> here(i)]
  BY DEF SymbolsOf
<1>3. w \in Seq(Seq(A))
  BY WordsJoined
<1>4. \A i \in DOMAIN w : i \in 1 .. n
  BY <1>3
<1> HIDE DEF w, p, n, here, there
<1>5. [i \in DOMAIN w |-> here(i)] = [i \in DOMAIN w |-> there(i)]
  BY <1>1, <1>4
<1>6. FlattenSeq(p) = FlattenSeq([i \in DOMAIN w |-> there(i)])
  BY <1>2, <1>5
<1> QED BY <1>1, <1>6 DEF w, there

\* The text and its tokens.
TextEncoded == text \in Seq(Letters) /\ tokens = bpe_encode(text)

\* Every character typed encodes the text again.
LEMMA TextStaysEncoded == TextEncoded /\ [TokenizerNext]_tokenizerVars => TextEncoded'
<1> SUFFICES ASSUME TextEncoded, [TokenizerNext]_tokenizerVars PROVE TextEncoded'
  OBVIOUS
<1>1. ASSUME NEW c \in Letters, Type(c) PROVE TextEncoded'
  <2>1. Append(text, c) \in Seq(Letters)
    BY <1>1, AppendProperties DEF TextEncoded
  <2> QED BY <1>1, <2>1 DEF Type, TextEncoded
<1>2. CASE UNCHANGED tokenizerVars
  BY <1>2 DEF TextEncoded, tokenizerVars
<1> QED BY <1>1, <1>2 DEF TokenizerNext

\* The three parts of EncodesLikeBpe, by the lemmas above.
LEMMA EncodedIsLikeBpe == TextEncoded => EncodesLikeBpe
<1> SUFFICES ASSUME TextEncoded PROVE EncodesLikeBpe
  OBVIOUS
<1>1. text \in Seq(Letters) /\ tokens = bpe_encode(text)
  BY DEF TextEncoded
<1>2. tokens = FlattenSeq([i \in DOMAIN Words(text) |-> Reference(Split(Words(text)[i]))])
  BY <1>1, EncodeIsReference
<1>3. bpe_decode(tokens) = text
  BY <1>1, DecodeIs
<1>4. ASSUME NEW n \in DOMAIN text, text[n] = Space
      PROVE  IsPrefix(bpe_encode(SubSeq(text, 1, n)), tokens)
  <2>1. n \in 1 .. Len(text)
    BY <1>1
  <2> QED BY <1>1, <1>4, <2>1, EncodeStable
<1> QED BY <1>2, <1>3, <1>4 DEF EncodesLikeBpe

\* EncodesLikeBpe: bpe_encode, which merges the first pair of the lowest rank
\* again and again, gives the symbols byte-pair encoding gives rule by rule;
\* bpe_decode gives the text back; what ends in a space keeps its tokens.
THEOREM EncodesAsTrained == TokenizerSpec => []EncodesLikeBpe
<1>1. TokenizerInit => TextEncoded
  BY EmptySeq DEF TokenizerInit, TextEncoded
<1> QED BY <1>1, TextStaysEncoded, EncodedIsLikeBpe, PTL DEF TokenizerSpec
=============================================================================
