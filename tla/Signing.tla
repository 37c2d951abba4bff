------------------------------- MODULE Signing -------------------------------
(***************************************************************************)
(* NNSpire-sign, the command-line tool a plugin author and the owner of    *)
(* the root key work with, and what TrustUpdateHandler and TrustVerifier   *)
(* make of its files.                                                      *)
(*                                                                         *)
(* A key is a number.  A certificate is the key it certifies, two names    *)
(* and the key it was signed with (by); a signature is what was signed and *)
(* with which key.  A command is one step; it may end in the middle, with  *)
(* some of its files written, or cut, which makes a PEM file unreadable.   *)
(***************************************************************************)
EXTENDS Integers, Sequences, SequencesExt, FiniteSets

CONSTANTS
  OutPrefixes, \* what --out is given: <prefix>-key.pem and <prefix>-cert.pem
  Subjects,    \* common names of CAs
  SaysEnterprise, \* those with "Enterprise" or "enterprise" in them
  PluginFiles,
  MaxKeys,     \* bound: keys generated
  MaxSigned,   \* bound: sidecars written
  MaxPackets,  \* bound: packets written
  MaxBuilds,   \* bound: builds of a plugin
  MaxTime      \* bound: seconds that pass

None == <<>>

VARIABLES
  keyFile, certFile,   \* by prefix; 0 and None: no file, or one that cannot be read
  content, sidecar,    \* by path: of a plugin, or of a key a sign was given
  packets,             \* the update packets written
  trusted, applied,    \* the store, by name, and the handler's last timestamp
  keys, signs, now,
  last,                \* the last sign that exited with 0: the plugin it was given and the
                       \* file it signed
  author               \* history, by path: with what it was signed last, and whether the
                       \* sidecar is all there

signingVars == <<keyFile, certFile, content, sidecar, packets, trusted, applied,
                 keys, signs, now, last, author>>
filesOfTool == <<keyFile, certFile>>

KeyPath(x) == <<"key", x>>
CertPath(x) == <<"cert", x>>
PluginPath(p) == <<"plugin", p>>
Paths == {PluginPath(p) : p \in PluginFiles} \union {KeyPath(x) : x \in OutPrefixes}

-----------------------------------------------------------------------------
(* keygen and issue-enterprise-ca: a key file, then its certificate.       *)

\* An error at either ends the command and leaves that file as it was, if it
\* cannot be opened, or cut; what is lost when a file is closed is not even
\* seen.  A new key may so be left beside an older certificate.
WritesPair(out, cert) ==
  /\ keys < MaxKeys
  /\ keys' = keys + 1
  /\ \/ /\ \E left \in {keyFile[out], 0} : keyFile' = [keyFile EXCEPT ![out] = left]
        /\ UNCHANGED certFile
     \/ /\ \E key \in {keys', 0} : keyFile' = [keyFile EXCEPT ![out] = key]
        /\ \E c \in {certFile[out], None, cert} : certFile' = [certFile EXCEPT ![out] = c]
  /\ UNCHANGED <<content, sidecar, packets, trusted, applied, signs, now, last, author>>

\* Self-signed.  Every key that is not a CA's gets the same name.
Keygen(out, cn) ==
  WritesPair(out, [key |-> keys', subject |-> cn, issuer |-> cn, by |-> keys'])

\* Whether the root's key and certificate belong together is not asked.
IssueEnterpriseCa(root, cn, out) ==
  /\ keyFile[root] # 0 /\ certFile[root] # None
  /\ WritesPair(out, [key |-> keys', subject |-> cn, issuer |-> certFile[root].subject,
                      by |-> keyFile[root]])

-----------------------------------------------------------------------------
(* sign                                                                    *)

Options == {"--key", "--cert", "--id", "--version"}

\* The loop over argv: four tests one after the other, each of which moves i
\* to the value it takes, and the else of the last of them, which sees that
\* value and not the option.
SignArguments(argv) ==
  LET Takes(st, option) ==
        IF argv[st.i] = <<option>> /\ st.i < Len(argv)
        THEN [st EXCEPT !.given[option] = argv[st.i + 1], !.i = @ + 1] ELSE st
      Loop(st, i) ==
        IF i < st.i THEN st
        ELSE LET three == Takes(Takes(Takes(st, "--key"), "--cert"), "--id")
                 four  == Takes(three, "--version")
                 word  == argv[three.i]
                 plugin == four = three /\ word \notin {<<o>> : o \in Options} /\ three.plugin = None
             IN  [four EXCEPT !.i = @ + 1, !.plugin = IF plugin THEN word ELSE @]
  IN  FoldLeft(Loop, [i |-> 1, given |-> [o \in Options |-> None], plugin |-> None],
               [i \in DOMAIN argv |-> i])

\* The command line: the options in this order and the plugin before, between
\* or behind them.
CommandLine(x, p, place) ==
  LET options == <<<<<<"--key">>, KeyPath(x)>>, <<<<"--cert">>, CertPath(x)>>,
                   <<<<"--id">>, <<"id", p>>>>, <<<<"--version">>, <<"1.0.0">>>>>>
  IN  FlattenSeq(InsertAt(options, place, <<PluginPath(p)>>))

ContentOf(path) == IF path[1] = "key" THEN <<"key", keyFile[path[2]]>> ELSE content[path[2]]

\* Mutation: the time is read again for the sidecar.
NewSidecarLater(x, given, path) ==
  [timestamp |-> now + 1, id |-> given["--id"], version |-> given["--version"],
   cert |-> certFile[x],
   signature |-> [key |-> keyFile[x],
                  data |-> <<ContentOf(path), given["--id"], given["--version"], now>>]]

\* hash || id || version || timestamp is signed; the hash is not written.
NewSidecar(x, given, path) ==
  [timestamp |-> now, id |-> given["--id"], version |-> given["--version"],
   cert |-> certFile[x],
   signature |-> [key |-> keyFile[x],
                  data |-> <<ContentOf(path), given["--id"], given["--version"], now>>]]

FieldsOfSidecar == 5

\* The tool does not ask whether the certificate is the key's.  What it writes
\* is not looked at either: a sidecar of which n fields reach the disk exits
\* with 0.
Sign(x, p, place) ==
  LET args == SignArguments(CommandLine(x, p, place))
      path == args.plugin
  IN  /\ signs < MaxSigned
      /\ signs' = signs + 1
      /\ \/ UNCHANGED <<sidecar, author, last>>  \* a file that cannot be opened or read
         \/ /\ keyFile[x] # 0 /\ certFile[x] # None
            /\ \E n \in 0..FieldsOfSidecar :
                 /\ sidecar' = [sidecar EXCEPT ![path] =
                                 [fields |-> NewSidecar(x, args.given, path), written |-> n]]
                 /\ author' = [author EXCEPT ![path] =
                                [content |-> ContentOf(path), key |-> keyFile[x],
                                 cert |-> certFile[x], whole |-> n = FieldsOfSidecar]]
            /\ last' = [plugin |-> PluginPath(p), wrote |-> path]
      /\ UNCHANGED <<filesOfTool, content, packets, trusted, applied, keys, now>>

-----------------------------------------------------------------------------
(* create-tup, and the handler the packet is for.                          *)

\* The level goes by the name in the certificate.
LevelOf(cert) == IF cert.subject \in SaysEnterprise THEN "Enterprise" ELSE "Community"

CreateTup(root, action) ==
  /\ Cardinality(packets) < MaxPackets
  /\ keyFile[root] # 0
  /\ packets' = packets \union {[timestamp |-> now, action |-> action]}
  /\ UNCHANGED <<filesOfTool, content, sidecar, trusted, applied, keys, signs, now, last, author>>

Actions ==
  {[type |-> "add", dn |-> certFile[x].subject,
    ca |-> [level |-> LevelOf(certFile[x]), key |-> certFile[x].key]] :
     x \in {x \in OutPrefixes : certFile[x] # None}}
  \union {[type |-> "revoke", dn |-> dn, ca |-> None] : dn \in Subjects}

\* A CA that is there keeps its level and its certificate; revoking one that
\* is not is an error, and the packet does not count as applied.  The key in
\* the code is a placeholder, with which no signature is checked.
ApplyPacket(packet) ==
  LET act == packet.action
  IN  /\ packet.timestamp > applied
      /\ act.type = "revoke" => trusted[act.dn] # None
      /\ applied' = packet.timestamp
      /\ trusted' = IF act.type = "add" /\ trusted[act.dn] # None THEN trusted
                    ELSE [trusted EXCEPT ![act.dn] = act.ca]
      /\ UNCHANGED <<filesOfTool, content, sidecar, packets, keys, signs, now, last, author>>

\* A sidecar of which a field is missing does not parse.
ReadSidecar(path) ==
  IF sidecar[path] = None \/ sidecar[path].written < FieldsOfSidecar THEN None
  ELSE sidecar[path].fields

\* TrustVerifier::verify, which the verify command prints: the level of the
\* entry with the name of the issuer, unless the signature is not one of the
\* file and of what the sidecar says.  With which key the certificate itself was
\* signed is not looked at.
Verified(path) ==
  LET s == ReadSidecar(path)
      ca == trusted[s.cert.issuer]
      signedData == <<ContentOf(path), s.id, s.version, s.timestamp>>
  IN  IF s = None \/ ca = None THEN "Untrusted"
      ELSE IF s.signature = [key |-> s.cert.key, data |-> signedData] THEN ca.level
      ELSE "Untrusted"

-----------------------------------------------------------------------------

Build(p) ==
  /\ content[p] < MaxBuilds
  /\ content' = [content EXCEPT ![p] = @ + 1]
  /\ UNCHANGED <<filesOfTool, sidecar, packets, trusted, applied, keys, signs, now, last, author>>

Tick ==
  /\ now < MaxTime
  /\ now' = now + 1
  /\ UNCHANGED <<filesOfTool, content, sidecar, packets, trusted, applied, keys, signs, last, author>>

SigningInit ==
  /\ keyFile = [x \in OutPrefixes |-> 0] /\ certFile = [x \in OutPrefixes |-> None]
  /\ content = [p \in PluginFiles |-> 0]
  /\ sidecar = [path \in Paths |-> None]
  /\ packets = {} /\ trusted = [dn \in Subjects |-> None] /\ applied = 0
  /\ keys = 0 /\ signs = 0 /\ now = 1
  /\ last = [plugin |-> None, wrote |-> None]
  /\ author = [path \in Paths |-> None]

SigningNext ==
  \/ \E out \in OutPrefixes, cn \in Subjects : Keygen(out, cn)
  \/ \E root, out \in OutPrefixes, cn \in Subjects : IssueEnterpriseCa(root, cn, out)
  \/ \E x \in OutPrefixes, p \in PluginFiles, place \in 1..5 : Sign(x, p, place)
  \/ \E root \in OutPrefixes, action \in Actions : CreateTup(root, action)
  \/ \E packet \in packets : ApplyPacket(packet)
  \/ \E p \in PluginFiles : Build(p)
  \/ Tick

-----------------------------------------------------------------------------

\* The verifier agrees with the tool on what is signed, whatever has happened
\* since to keys, certificates, packets, store and clock: a file has a level
\* exactly if the last sign that reached its sidecar wrote it all, the key was
\* that of the certificate, the file has not been built again since, and the
\* store has an entry with the issuer's name now; it is the entry's level,
\* whichever key the certificate was signed with.
VerifiesTheBuild ==
  \A path \in Paths :
    LET a == author[path]
        signed == a # None /\ a.whole /\ a.key = a.cert.key /\ a.content = ContentOf(path)
    IN  Verified(path) = IF signed /\ trusted[a.cert.issuer] # None
                         THEN trusted[a.cert.issuer].level ELSE "Untrusted"

\* "Sign a plugin binary and write <plugin.so>.nnsig sidecar.": the file a sign
\* that exits with 0 has signed is the plugin on its command line.
SignsThePlugin == last.wrote = last.plugin
=============================================================================
