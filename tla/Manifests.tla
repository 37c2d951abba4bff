------------------------------ MODULE Manifests ------------------------------
(***************************************************************************)
(* The two loaders of plugin.manifest.json and tup.manifest.json: the C++  *)
(* ManifestLoader, which looks for quoted keys in the text, and the Python *)
(* plugin_manifest, which parses it.                                       *)
(*                                                                         *)
(* An author edits a valid manifest.  A value is Absent, Empty, "good",    *)
(* "odd" (a string that is not of the pattern its field has), "escaped" (a *)
(* string with an escape other than that of a quote or a backslash in it)  *)
(* or "number" (no string).  Of the text remain the keys that occur once   *)
(* more (stray), the languages that occur as a string above the            *)
(* implementations (mentioned), and whether colons are followed by one     *)
(* space (spaced).                                                         *)
(***************************************************************************)
EXTENDS Integers, Sequences, SequencesExt, FiniteSets

CONSTANT MaxEdits  \* bound: edits of one manifest

Absent == "absent"
Empty  == ""

VARIABLES manifest, edits
manifestVars == <<manifest, edits>>

PluginStrings == {"id", "name", "version", "author", "license", "minStudioVersion", "signature"}
TupStrings == {"id", "version", "issuedAt", "issuerSubject", "signature"}

Sums == {"sum", "other sum"}  \* well-formed sha256 values

Given(s) == s \notin {Absent, Empty}

Rejected == [ok |-> FALSE]

\* The elements of s that are in wanted, in order.
Filter(s, wanted) ==
  FoldLeft(LAMBDA kept, e : IF e \in wanted THEN Append(kept, e) ELSE kept, <<>>, s)

-----------------------------------------------------------------------------
(* The C++ scanner.                                                        *)

\* Whether the first occurrence of a quoted key is the document's own field:
\* it may be a value or a nested key further up, or further down if the field
\* is missing.
Met(m, key, value) ==
  \/ m.stray[key] = "none"
  \/ m.stray[key] = "key below" /\ value # Absent

\* Of an escape the backslash is dropped; what is no string reads as Empty.
CppValue(v) ==
  CASE v = "escaped" -> "letters" [] v \in {Absent, "number"} -> Empty [] OTHER -> v

CppString(m, key) ==
  IF Met(m, key, m.strings[key]) THEN CppValue(m.strings[key])
  ELSE IF m.stray[key] = "value above" THEN Empty ELSE "of another"

\* extractInt stops at the first character that is no digit.
CppInt(m) ==
  IF Met(m, "manifestVersion", m.manifestVersion) /\ m.manifestVersion \in {"1", "1.0", "1.5"}
  THEN 1 ELSE -1

CppType(m) == IF Met(m, "type", m.type) THEN CppValue(m.type) ELSE "of another"

\* isSemver counts dots and digits; isSha256 lets capitals pass.
CppSemver(s) == s \in {"good", "1..2"}
CppSha(s) == s \in Sums \union {"capitals"}

\* extractStringArray leaves backslashes where they are and passes over what
\* is empty or no string.
CppCapabilities(m) ==
  LET given == Filter(m.capabilities, {c \in ToSet(m.capabilities) : c \notin {Empty, "number"}})
  IN  [i \in DOMAIN given |-> IF given[i] = "escaped" THEN "raw" ELSE given[i]]

Entries(m, lang) ==
  Filter(m.implementations, {e \in ToSet(m.implementations) : e.language = lang})

\* Mutation: the block of a language ends with the text.
CppEntryToTheEnd(m, lang) ==
  LET own == Entries(m, lang)
  IN  IF own = <<>> THEN Empty ELSE CppValue(Last(m.implementations).sha256)

\* The sha256 that is found for a language: the first of its own block, unless
\* the language was met above the implementations: the next block is then that
\* of all of them.
CppEntry(m, lang) ==
  LET own == Entries(m, lang)
      found == Filter(IF lang \in m.mentioned THEN m.implementations ELSE own,
                      {e \in ToSet(m.implementations) : e.sha256 # Absent})
  IN  IF own = <<>> \/ found = <<>> THEN Empty ELSE CppValue(found[1].sha256)

\* An entry without an artifact or a sum is passed over.
CppImplementations(m) ==
  LET Of(lang) ==
        LET own == Entries(m, lang)
        IN  IF own # <<>> /\ Given(own[1].artifact) /\ Given(CppEntry(m, lang))
            THEN <<[language |-> lang, artifact |-> CppValue(own[1].artifact),
                    sha256 |-> CppEntry(m, lang)]>>
            ELSE <<>>
  IN  Of("cpp") \o Of("python")

CppPlugin(m) ==
  LET strings == [key \in PluginStrings |-> CppString(m, key)]
      capabilities == CppCapabilities(m)
      found == CppImplementations(m)
  IN  IF /\ CppInt(m) = 1
         /\ CppType(m) = "LAYER"
         /\ \A key \in PluginStrings : strings[key] # Empty
         /\ CppSemver(strings["minStudioVersion"])
         /\ capabilities # <<>>
         /\ found # <<>>
         /\ \A i \in DOMAIN found : CppSha(found[i].sha256)
      THEN [ok |-> TRUE, strings |-> strings, capabilities |-> capabilities, implementations |-> found]
      ELSE Rejected

\* A flag is off only when it is written with one space behind the colon.
CppFlag(m) == ~(m.selfRevocationGuard = "off" /\ m.spaced)

CppTup(m) ==
  LET strings == [key \in TupStrings |-> CppString(m, key)]
  IN  IF /\ CppInt(m) = 1
         /\ CppType(m) = "TRUST_UPDATE"
         /\ \A key \in TupStrings : strings[key] # Empty
      THEN [ok |-> TRUE, strings |-> strings, selfRevocationGuard |-> CppFlag(m)]
      ELSE Rejected

-----------------------------------------------------------------------------
(* The Python loader.  Its JSON schemas are not where it looks for them.   *)

PyValue(v) == IF v = "escaped" THEN "decoded" ELSE v

\* 1.0 and true equal 1.
PyVersion(m) == m.manifestVersion \in {"1", "1.0", "true"}

PyType(m, type) == m.type \in {type, "escaped"}  \* the escape decodes to the type

\* A pattern is matched only with a string: a number there raises, and no
\* manifest is returned either.  Elsewhere a value has to be there.
PyMatches(v) == v \in {"good", "escaped"}

PyImplementations(m) ==
  LET entries == Entries(m, "cpp") \o Entries(m, "python")
  IN  [i \in DOMAIN entries |-> [entries[i] EXCEPT !.artifact = PyValue(@), !.sha256 = PyValue(@)]]

PyPlugin(m) ==
  IF /\ PyVersion(m)
     /\ PyType(m, "LAYER")
     /\ \A key \in PluginStrings : Given(m.strings[key])
     /\ \A key \in {"id", "version", "minStudioVersion"} : PyMatches(m.strings[key])
     /\ m.capabilities # <<>>
     /\ m.implementations # <<>>
     /\ \A i \in DOMAIN m.implementations :
          /\ Given(m.implementations[i].artifact)
          /\ m.implementations[i].sha256 \in Sums \union {"escaped"}
  THEN [ok |-> TRUE, strings |-> [key \in PluginStrings |-> PyValue(m.strings[key])],
        capabilities |-> [i \in DOMAIN m.capabilities |-> PyValue(m.capabilities[i])],
        implementations |-> PyImplementations(m)]
  ELSE Rejected

PyTup(m) ==
  IF /\ PyVersion(m)
     /\ PyType(m, "TRUST_UPDATE")
     /\ \A key \in TupStrings : Given(m.strings[key])
     /\ PyMatches(m.strings["id"]) /\ PyMatches(m.strings["version"])
     /\ m.addCerts \in {"none", "entry"}
     /\ m.revokeCerts \in {"none", "entry"}
  THEN [ok |-> TRUE, strings |-> [key \in TupStrings |-> PyValue(m.strings[key])],
        selfRevocationGuard |-> m.selfRevocationGuard # "off"]
  ELSE Rejected

-----------------------------------------------------------------------------

NoStray(keys) == [key \in keys \union {"type", "manifestVersion"} |-> "none"]

GoodPlugin ==
  [kind |-> "plugin", manifestVersion |-> "1", type |-> "LAYER",
   strings |-> [key \in PluginStrings |-> "good"], stray |-> NoStray(PluginStrings),
   capabilities |-> <<"train">>, mentioned |-> {},
   implementations |-> <<[language |-> "python", artifact |-> "good", sha256 |-> "sum"]>>]

GoodTup ==
  [kind |-> "tup", manifestVersion |-> "1", type |-> "TRUST_UPDATE",
   strings |-> [key \in TupStrings |-> "good"], stray |-> NoStray(TupStrings),
   addCerts |-> "entry", revokeCerts |-> "none",
   selfRevocationGuard |-> Absent, spaced |-> TRUE]

ManifestsInit == manifest \in {GoodPlugin, GoodTup} /\ edits = 0

EditTo(new) == edits < MaxEdits /\ manifest' = new /\ edits' = edits + 1

EditString(key, s) == EditTo([manifest EXCEPT !.strings[key] = s])
EditStray(key, where) == EditTo([manifest EXCEPT !.stray[key] = where])
EditVersion(v) == EditTo([manifest EXCEPT !.manifestVersion = v])
EditType(t) == EditTo([manifest EXCEPT !.type = t])
EditImplementations(es) == manifest.kind = "plugin" /\ EditTo([manifest EXCEPT !.implementations = es])
EditCapabilities(cs) == manifest.kind = "plugin" /\ EditTo([manifest EXCEPT !.capabilities = cs])
EditMentioned(langs) == manifest.kind = "plugin" /\ EditTo([manifest EXCEPT !.mentioned = langs])

\* A revoked certificate has an issuerSubject as the packet has.
EditCerts(add, revoke, where) ==
  /\ manifest.kind = "tup"
  /\ EditTo([manifest EXCEPT !.addCerts = add, !.revokeCerts = revoke,
               !.stray["issuerSubject"] = IF revoke \in {"entry", "faulty"} THEN where ELSE "none"])
EditFlag(flag, spaced) ==
  /\ manifest.kind = "tup"
  /\ EditTo([manifest EXCEPT !.selfRevocationGuard = flag, !.spaced = spaced])

Strays == {"none", "value above", "key above", "key below"}

EntriesOf(lang) ==
  [language : {lang}, artifact : {"good", Absent, "escaped"},
   sha256 : Sums \union {"capitals", "odd", Absent, "escaped"}]

CapabilityLists == {<<>>, <<"train">>, <<Empty>>, <<"escaped">>, <<"number">>}

ManifestsNext ==
  \/ \E key \in DOMAIN manifest.strings :
       \E s \in {Absent, Empty, "odd", "escaped", "number"}
                \union (IF key = "minStudioVersion" THEN {"1..2"} ELSE {}) : EditString(key, s)
  \/ \E key \in DOMAIN manifest.stray, where \in Strays : EditStray(key, where)
  \/ \E v \in {"1.0", "1.5", "2", "one", "true"} : EditVersion(v)
  \/ \E t \in {"LAYER", "TRUST_UPDATE", "odd", "escaped", Absent} : EditType(t)
  \/ \E c \in EntriesOf("cpp"), p \in EntriesOf("python") :
       \E es \in {<<>>, <<c>>, <<p>>, <<c, p>>, <<p, c>>} : EditImplementations(es)
  \/ \E cs \in CapabilityLists : EditCapabilities(cs)
  \/ \E langs \in SUBSET {"cpp", "python"} : EditMentioned(langs)
  \/ \E add, revoke \in {Absent, "none", "entry", "faulty"}, where \in {"key above", "key below"} :
       EditCerts(add, revoke, where)
  \/ \E flag \in {"on", "off", Absent}, spaced \in BOOLEAN : EditFlag(flag, spaced)

-----------------------------------------------------------------------------

\* A document that the scanner reads as a parser does: each key is met at its
\* own field, no string has an escape in it, versions are whole numbers,
\* values are of the type of their field, and nothing is empty but for the
\* fields.
Plain(m) ==
  /\ m.manifestVersion \notin {"1.0", "1.5", "true"} /\ Met(m, "manifestVersion", m.manifestVersion)
  /\ m.type # "escaped" /\ Met(m, "type", m.type)
  /\ \A key \in DOMAIN m.strings :
       m.strings[key] \notin {"escaped", "number"} /\ Met(m, key, m.strings[key])
  /\ m.kind = "plugin" =>
       /\ \A i \in DOMAIN m.capabilities : m.capabilities[i] \notin {Empty, "escaped", "number"}
       /\ \A i \in DOMAIN m.implementations :
            "escaped" \notin {m.implementations[i].artifact, m.implementations[i].sha256}
       /\ m.mentioned = {}
  /\ m.kind = "tup" => m.spaced

\* Its fields are of the patterns, and its lists of the form, that only the
\* Python loader asks for.
InForm(m) ==
  /\ m.strings["id"] = "good" /\ m.strings["version"] = "good"
  /\ m.kind = "plugin" =>
       /\ m.strings["minStudioVersion"] # "1..2"
       /\ \A i \in DOMAIN m.implementations :
            m.implementations[i].artifact = "good" /\ m.implementations[i].sha256 \in Sums
  /\ m.kind = "tup" => {m.addCerts, m.revokeCerts} \subseteq {"none", "entry"}

Cpp(m) == IF m.kind = "plugin" THEN CppPlugin(m) ELSE CppTup(m)
Py(m)  == IF m.kind = "plugin" THEN PyPlugin(m) ELSE PyTup(m)

\* Of a plain document the C++ loader reads what the Python one does, field by
\* field, whenever the Python loader accepts it; and they accept and refuse
\* alike if it is also of the form that only Python asks for.
ManifestsAgree ==
  Plain(manifest) /\ (Py(manifest).ok \/ InForm(manifest)) => Cpp(manifest) = Py(manifest)
=============================================================================
