--------------------------- MODULE ArchiveFormat ---------------------------
(***************************************************************************)
(* The backup archive: how it is built from the database snapshot, the     *)
(* configuration and known_hosts (buildTarGzFile, encryptFile), what the   *)
(* readers refuse (parseEnvelopePath, decryptFile,                         *)
(* InspectTarGzFileWithLimits) and the two decisions taken on it, the      *)
(* readiness review (VerifyArchiveFile) and the restore                    *)
(* (RestoreArchiveFileWithOptions), of internal/backup.                    *)
(*                                                                         *)
(* A file is its size and its digest; whether a configuration or database  *)
(* with that digest is valid is the constant Valid.  Sources may change    *)
(* while they are archived, and an archive may be damaged in any of its    *)
(* parts after it is built.                                                *)
(***************************************************************************)
EXTENDS Integers, Sequences, FiniteSets, SequencesExt, FiniteSetsExt

CONSTANTS
  Digests, Valid,     \* contents, and those that validate
  MaxExtracted,       \* MaxExtractedBytes
  MaxChanges

VARIABLES
  files,      \* the sources: name -> [size, digest]
  archive,    \* what is on disk, [at |-> step] until it is built
  changes

vars == <<files, archive, changes>>

-----------------------------------------------------------------------------

\* isBackupArchiveEntryName
Required == {"servers.db", "config.json"}
Resources == Required \cup {"known_hosts"}
EntryNames == Resources \cup {"manifest.json"}

Meta == [size : 1 .. 3, digest : Digests]
Entry(name, meta) == [name |-> name, regular |-> TRUE, size |-> meta.size, digest |-> meta.digest]

EnvelopeKeys == {"format", "version", "kdf", "cipher", "payload_b64"}

Init ==
  /\ files \in UNION { [names -> {[size |-> 1, digest |-> d] : d \in Digests}] :
                                 names \in {Required, Resources} }
  /\ archive = [at |-> "sources"]
  /\ changes = 0

Total(f) == FoldSet(LAMBDA n, t : t + f[n].size, 0, DOMAIN f)

\* buildTarGzFile, first pass: sizes and digests go into the manifest.
Hash ==
  /\ archive.at = "sources"
  /\ archive' = IF Total(files) > MaxExtracted THEN [at |-> "refused"]
                ELSE [at |-> "hashed", declared |-> files]
  /\ UNCHANGED <<files, changes>>

\* Second pass: a source that is no longer what was hashed ends the export.
Write ==
  /\ archive.at = "hashed"
  /\ LET order == SelectSeq(<<"servers.db", "config.json", "known_hosts">>,
                            LAMBDA n : n \in DOMAIN files) IN
     archive' = IF files # archive.declared THEN [at |-> "refused"]
                ELSE [at |-> "built", declared |-> files, keys |-> SetToSeq(EnvelopeKeys),
                      supported |-> TRUE, sealed |-> TRUE,
                      manifest |-> [supported |-> TRUE, files |-> files],
                      entries |-> <<[name |-> "manifest.json", regular |-> TRUE, size |-> 1, digest |-> "manifest"]>>
                                  \o [i \in DOMAIN order |-> Entry(order[i], files[order[i]])]]
  /\ UNCHANGED <<files, changes>>

Change == changes < MaxChanges /\ changes' = changes + 1

ChangeSource ==
  /\ Change /\ archive.at \in {"sources", "hashed"}
  /\ \E n \in DOMAIN files, meta \in Meta :
       files[n] # meta /\ files' = [files EXCEPT ![n] = meta]
  /\ UNCHANGED archive

\* Damage to the envelope, the entries or the manifest.
Damaged(a) ==
  { [a EXCEPT !.keys = Append(@, k)] : k \in EnvelopeKeys }
  \cup { [a EXCEPT !.keys = RemoveAt(@, i)] : i \in DOMAIN a.keys }
  \cup { [a EXCEPT !.supported = FALSE], [a EXCEPT !.sealed = FALSE], [a EXCEPT !.manifest.supported = FALSE] }
  \cup { [a EXCEPT !.entries = RemoveAt(@, i)] : i \in DOMAIN a.entries }
  \cup { [a EXCEPT !.entries = Append(@, @[i])] : i \in DOMAIN a.entries }
  \cup { [a EXCEPT !.entries[i].name = "./x"] : i \in DOMAIN a.entries }
  \cup { [a EXCEPT !.entries[i].regular = FALSE] : i \in DOMAIN a.entries }
  \cup { [a EXCEPT !.entries[i].size = MaxExtracted] : i \in DOMAIN a.entries }
  \cup { [a EXCEPT !.entries[i].digest = d] : i \in DOMAIN a.entries, d \in Digests }
  \cup { [a EXCEPT !.entries = Append(@, Entry("known_hosts", [size |-> 1, digest |-> d]))] : d \in Digests }

Damage ==
  /\ Change /\ archive.at = "built"
  /\ archive' \in Damaged(archive)
  /\ UNCHANGED files

Next == Hash \/ Write \/ ChangeSource \/ Damage

Spec == Init /\ [][Next]_vars

-----------------------------------------------------------------------------
(* The readers *)

\* parseEnvelopePath: no key twice, format and version present, and the payload
\* when it is to be extracted.
ParseEnvelope(a, extract) ==
  /\ IsInjective(a.keys)
  /\ {"format", "version"} \subseteq ToSet(a.keys)
  /\ extract => "payload_b64" \in ToSet(a.keys)

\* decryptFile: the envelope, supported settings, salt and nonce, authentication.
Decrypt(a) ==
  /\ ParseEnvelope(a, TRUE)
  /\ a.supported
  /\ {"kdf", "cipher"} \subseteq ToSet(a.keys)
  /\ a.sealed

\* validateArchiveEntryHeader on every entry, with the entries before it.
Headers(entries) == \A i \in DOMAIN entries :
  /\ entries[i].name \in EntryNames
  /\ entries[i].regular
  /\ \A j \in 1 .. (i - 1) : entries[j].name # entries[i].name

\* The map an extraction fills: the last entry of a name.
Extracted(entries) ==
  [ n \in { entries[i].name : i \in DOMAIN entries } |->
      LET last == Max({ i \in DOMAIN entries : entries[i].name = n }) IN
      [size |-> entries[last].size, digest |-> entries[last].digest] ]

Malformed == [ok |-> FALSE, missing |-> {}, files |-> << >>, supported |-> FALSE]

\* InspectTarGzFileWithLimits
InspectTarGz(a) ==
  LET actual == Extracted(a.entries)
      declared == a.manifest.files
      found == DOMAIN actual IN
  IF /\ Headers(a.entries)
     /\ Total(actual) <= MaxExtracted
     /\ "manifest.json" \in found
     /\ actual["manifest.json"].digest = "manifest"
     /\ "known_hosts" \in found => "known_hosts" \in DOMAIN declared
     /\ \A n \in DOMAIN declared : n \in Resources /\ (n \in found => actual[n] = declared[n])
  THEN [ok |-> TRUE, supported |-> a.manifest.supported,
        missing |-> ((Required \ found) \cup (Required \ DOMAIN declared)) \cup (DOMAIN declared \ found),
        files |-> [n \in found \ {"manifest.json"} |-> actual[n]]]
  ELSE Malformed

\* ValidateConfigData and ValidateDatabaseFile
ContentValid(f) == \A n \in Required : f[n].digest \in Valid

\* VerifyArchiveFile: RestoreReady.
ReadyAnyManifest(a) ==
  /\ ParseEnvelope(a, FALSE) /\ a.supported /\ Decrypt(a)
  /\ InspectTarGz(a).ok /\ InspectTarGz(a).missing = {}
  /\ ContentValid(InspectTarGz(a).files)
VerifyArchive(a) ==
  /\ ParseEnvelope(a, FALSE) /\ a.supported /\ Decrypt(a)
  /\ LET i == InspectTarGz(a) IN
     i.ok /\ i.supported /\ i.missing = {} /\ ContentValid(i.files)

\* RestoreArchiveFileWithOptions: the stage that ends it before any file of the
\* installation is touched, or "apply" and the files that are put in place.
RestoreArchive(a) ==
  LET i == InspectTarGz(a) IN
  IF ~Decrypt(a) THEN [stage |-> "decrypt", files |-> << >>]
  ELSE IF ~i.ok \/ ~i.supported \/ i.missing # {} THEN [stage |-> "archive", files |-> << >>]
  ELSE IF ~ContentValid(i.files) THEN [stage |-> "invalid", files |-> << >>]
  ELSE [stage |-> "apply", files |-> i.files]

-----------------------------------------------------------------------------
(* Properties *)

\* What the readiness review calls restorable is restored, and nothing else; and
\* whatever happened to the sources while they were archived and to the archive
\* afterwards, what a restore puts in place is file for file what the manifest
\* was computed from, known_hosts included.
VerifiedRestores ==
  archive.at = "built" =>
    /\ VerifyArchive(archive) <=> RestoreArchive(archive).stage = "apply"
    /\ RestoreArchive(archive).stage = "apply" => RestoreArchive(archive).files = archive.declared

=============================================================================
