------------------------------ MODULE TrustStore ------------------------------
(***************************************************************************)
(* The store of trusted CAs: TrustStore (in memory, and its .nnts file) and *)
(* TrustUpdateHandler, which applies update packets to it.                  *)
(*                                                                         *)
(* A certificate is the DN of its subject, or NoDN if it cannot be decoded. *)
(* A file is the entries that were to be written and how many of its fields *)
(* reached the disk; a packet that ends early, is unsigned or is not newer  *)
(* than the last one changes nothing, and no action stands for it.  Neither *)
(* does the code check the signature of a store file.                       *)
(***************************************************************************)
EXTENDS Integers, FiniteSets, SequencesExt

CONSTANTS DN, NoDN, NoFile,
          Levels,         \* the levels in packets and files: any u32 is taken
          MaxTimestamp,   \* bound: update packets are dated 0..MaxTimestamp
          MaxActions      \* bound: actions of one packet

\* enum TrustLevel: Untrusted, Community, Enterprise, Root are 0..3.
Untrusted == 0

ASSUME TrustStoreAssumption ==
  /\ IsFiniteSet(DN) /\ NoDN \notin DN /\ Levels \subseteq Nat
  /\ MaxTimestamp \in Nat /\ MaxActions \in Nat

VARIABLES entries,      \* entries_ of the store
          file,         \* the .nnts file
          lastApplied,  \* lastAppliedTimestamp_ of the handler
          revokedAt,    \* history: the time of the packet that took a DN
                        \* out, 0 if none did or a newer one brought it back
          forgotten     \* history: the DNs taken out by a packet that the
                        \* code knows nothing of any more

trustVars == <<entries, file, lastApplied, revokedAt, forgotten>>

CaEntry == [dn : DN, level : Levels]
TupAction == [type : {"AddCa"}, dn : DN \union {NoDN}, level : Levels]
               \union [type : {"RevokeCa"}, dn : DN]
Tup == [timestamp : 0..MaxTimestamp, actions : BoundedSeq(TupAction, MaxActions)]

DNs(es) == {es[i].dn : i \in DOMAIN es}
\* The position of the entry findByDN returns, 0 if there is none.
FindByDN(es, dn) == SelectInSeq(es, LAMBDA e : e.dn = dn)

-------------------------------------------------------------------------------
(* An update is a fold of its actions over the store.  The state of the     *)
(* fold is the store, whether every action so far succeeded (none runs      *)
(* after one that failed) and the DNs that came in.                         *)

\* addCa, which leaves a store that has the DN as it is.  Mutation: without
\* the search for the DN.
AddCaAlways(st, act) ==
  [st EXCEPT !.entries = Append(@, [dn |-> act.dn, level |-> act.level]),
             !.added = @ \union {act.dn}]
AddCa(st, act) ==
  IF act.dn \in DNs(st.entries) THEN st
  ELSE [st EXCEPT !.entries = Append(@, [dn |-> act.dn, level |-> act.level]),
                  !.added = @ \union {act.dn}]

RevokeCa(st, act) ==
  LET i == FindByDN(st.entries, act.dn)
  IN  IF i = 0 THEN [st EXCEPT !.ok = FALSE]
      ELSE [st EXCEPT !.entries = RemoveAt(@, i)]

\* Mutation: a certificate that cannot be decoded is stored.
ApplyActionUndecoded(st, act) ==
  IF ~st.ok THEN st
  ELSE IF act.type = "RevokeCa" THEN RevokeCa(st, act)
  ELSE AddCa(st, act)
ApplyAction(st, act) ==
  IF ~st.ok THEN st
  ELSE IF act.type = "RevokeCa" THEN RevokeCa(st, act)
  ELSE IF act.dn = NoDN THEN [st EXCEPT !.ok = FALSE]
  ELSE AddCa(st, act)

ApplyActions(tup) ==
  FoldLeft(ApplyAction, [entries |-> entries, ok |-> TRUE, added |-> {}], tup.actions)

\* What applyTupFromBuffer asks of a packet that parses and whose signature
\* it accepts.  Mutation: a packet of the same time passes.
NewerOrSame(tup) == tup.timestamp >= lastApplied
Newer(tup) == tup.timestamp > lastApplied

\* Actions before the one that fails stay applied; only a packet applied to
\* its end is remembered.
ApplyTup(tup) ==
  LET st == ApplyActions(tup)
      gone == {dn \in DN \ DNs(st.entries) :
                 st.ok /\ \E i \in DOMAIN tup.actions :
                            tup.actions[i].type = "RevokeCa" /\ tup.actions[i].dn = dn}
      back == {dn \in DN : dn \in st.added /\ tup.timestamp > revokedAt[dn]}
  IN  /\ Newer(tup)
      /\ entries' = st.entries
      /\ lastApplied' = IF st.ok THEN tup.timestamp ELSE lastApplied
      /\ revokedAt' = [dn \in DN |-> IF dn \in gone THEN tup.timestamp
                                    ELSE IF dn \in back THEN 0 ELSE revokedAt[dn]]
      /\ forgotten' = forgotten \ (gone \union back)
      /\ UNCHANGED file

-------------------------------------------------------------------------------
\* save truncates the file and writes it in place: the header and n fields,
\* two of each entry, reach the disk, -1 if not even the header does.  Fewer
\* than all is a write error, or the end of the process if Restart follows.
Save(n) ==
  /\ file' = [saved |-> entries, written |-> n]
  /\ UNCHANGED <<entries, lastApplied, revokedAt, forgotten>>

\* One round of load's loop: level and length of the certificate, then the
\* certificate, which must decode.  Mutation: the end of the file ends the
\* list.
ReadEntryOrEnd(st, e) ==
  IF st.cursor + 2 > file.written THEN st
  ELSE [ok |-> st.ok, cursor |-> st.cursor + 2, loaded |-> Append(st.loaded, e)]
ReadEntry(st, e) ==
  IF ~st.ok \/ st.cursor + 1 > file.written THEN [st EXCEPT !.ok = FALSE]
  ELSE IF st.cursor + 2 > file.written \/ e.dn = NoDN THEN [st EXCEPT !.ok = FALSE]
  ELSE [ok |-> TRUE, cursor |-> st.cursor + 2, loaded |-> Append(st.loaded, e)]

\* As many rounds as the header counts entries.
ReadFile ==
  FoldLeft(ReadEntry, [ok |-> TRUE, cursor |-> 0, loaded |-> <<>>], file.saved)

\* load has a list of its own, which the store gets when it is complete; a
\* packet's time is neither in the file nor touched here.
Load ==
  /\ entries' = IF file # NoFile /\ file.written >= 0 /\ ReadFile.ok THEN ReadFile.loaded
                ELSE entries
  /\ forgotten' = forgotten \union {dn \in DNs(entries') : revokedAt[dn] # 0}
  /\ UNCHANGED <<file, lastApplied, revokedAt>>

\* The constructor of TrustUpdateHandler.
NewHandler ==
  /\ lastApplied' = 0
  /\ forgotten' = {dn \in DN : revokedAt[dn] # 0}
  /\ UNCHANGED <<entries, file, revokedAt>>

\* A new process: createDefault's empty store and a new handler.
TrustRestart ==
  /\ entries' = <<>>
  /\ lastApplied' = 0
  /\ forgotten' = {dn \in DN : revokedAt[dn] # 0}
  /\ UNCHANGED <<file, revokedAt>>

TrustInit ==
  /\ entries = <<>> /\ file = NoFile
  /\ lastApplied = 0 /\ revokedAt = [dn \in DN |-> 0] /\ forgotten = {}

TrustNext ==
  \/ \E tup \in Tup : ApplyTup(tup)
  \/ \E n \in -1..2 * Len(entries) : Save(n)
  \/ Load
  \/ NewHandler

-------------------------------------------------------------------------------
TrustTypeOK ==
  /\ entries \in Seq(CaEntry)
  /\ file = NoFile \/ (file.saved \in Seq(CaEntry) /\ file.written \in -1..2 * Len(file.saved))
  /\ lastApplied \in 0..MaxTimestamp
  /\ revokedAt \in [DN -> 0..MaxTimestamp] /\ forgotten \subseteq DN

\* A DN has one entry, so that findByDN, which takes the first, and revokeCa,
\* which takes out one, speak of the same CA: through any order of packets,
\* failed ones included, saves and loads.  addCa's search for the DN is all
\* there is to ensure it; load does not look.
DNsDistinct == \A i, j \in DOMAIN entries : entries[i].dn = entries[j].dn => i = j

\* What a packet that was applied to its end took out stays out until a newer
\* packet brings it back, in whatever order packets arrive, however often and
\* through loads, new handlers and restarts.  The exceptions are as far as
\* the code remembers: a handler knows nothing of the packets before it, and
\* what a file brings in was in the store when it was saved.
RevocationStands ==
  \A i \in DOMAIN entries : revokedAt[entries[i].dn] = 0 \/ entries[i].dn \in forgotten

\* load gives the store all that the last save was to write or leaves it as
\* it was, wherever the writing of the file ended: the rounds of its loop and
\* their checks against the end of the file.
LoadAllOrNothing == [][Load => entries' = entries \/ entries' = file.saved]_trustVars
===============================================================================
