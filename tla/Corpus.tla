------------------------------- MODULE Corpus -------------------------------
(***************************************************************************)
(* rr-core/src/quality.rs, the lock of the frozen corpus: verify_manifest  *)
(* compares the corpus on disk with its manifest, and relock makes the     *)
(* manifest again from the disk.  A path is <<zone, repository, name>>,    *)
(* zone "repos", "licenses" or "top"; a disk maps the paths that are no    *)
(* directory to [kind, large, readable, mode, bytes, content]; a declared  *)
(* file is [spelling, path, mode, bytes, digest], spelling "plain",        *)
(* "odd" (a path written another way) or "escape".  The digest of some     *)
(* content is that content.  A list of files is a function: what a person  *)
(* wrote is a sequence, what relock walked is indexed by the path.         *)
(***************************************************************************)
EXTENDS FiniteSetsExt, SequencesExt

CONSTANTS
  ManifestPath,           \* CORPUS_MANIFEST_PATH
  NoDigest,               \* a digest that does not parse
  Spdx                    \* REDISTRIBUTABLE_SPDX

GeneratorVersion == 1     \* SYNTHETIC_GENERATOR_VERSION
ManifestVersion == 1      \* CORPUS_MANIFEST_SCHEMA_VERSION
CorpusTiers == {"small", "medium", "large", "performance"}

\* corpus_diagnostic; rule_id publishes a licence fault apart.
CorpusDiagnostic(path, fault) ==
  [path |-> path, fault |-> fault,
   rule |-> IF fault = "license-mismatch" THEN "RR0502" ELSE "RR0506"]
\* role_diagnostic: every fault of a licence file is a licence fault, its cause kept.
RoleDiagnostic(path, fault, role) ==
  IF role = "license" THEN [path |-> path, fault |-> fault, rule |-> "RR0502"]
  ELSE CorpusDiagnostic(path, fault)

\* synthetic_digest: what the generator makes of its two numbers, {} for a
\* version this build does not make.
SyntheticDigest(version, seed, files) ==
  IF version = GeneratorVersion THEN {<<version, seed, files>>} ELSE {}

----------------------------------------------------------------------------
(* verify_manifest.  A repository is [id, tier, provenance, files]; its     *)
(* provenance [kind, https, commit, date, spdx, licenses] or                *)
(* [kind, version, seed, count, digest].                                    *)

Licenses(repository) ==
  IF repository.provenance.kind = "vendored" THEN repository.provenance.licenses ELSE <<>>
Under(path, prefix) ==
  CASE prefix = "" -> path[1] = "top"
    [] prefix = "licenses" -> path[1] = "licenses"
    [] OTHER -> path[1] = "repos" /\ path[2] = prefix

\* The files of a manifest, each with where it is declared.
DeclaredOf(manifest) ==
  LET repositories == manifest.repositories
      as(at, file, prefix) == [at |-> at, file |-> file, prefix |-> prefix]
  IN  (UNION {{as(<<"content", i, n>>, repositories[i].files[n], repositories[i].id) :
                 n \in DOMAIN repositories[i].files} : i \in DOMAIN repositories})
      \cup (UNION {{as(<<"license", i, n>>, Licenses(repositories[i])[n], "licenses") :
                      n \in DOMAIN Licenses(repositories[i])} : i \in DOMAIN repositories})
      \cup {as(<<"artifact", n>>, manifest.artifacts[n], "") : n \in DOMAIN manifest.artifacts}

\* declare_file, without the paths declared before.
DeclareFault(d) ==
  IF d.file.spelling = "escape" THEN "path-escape"
  ELSE IF d.file.spelling = "odd" THEN "manifest-malformed"
  ELSE IF ~Under(d.file.path, d.prefix) THEN "path-outside-its-entry"
  ELSE IF d.file.digest = NoDigest THEN "manifest-malformed"
  ELSE "none"
DeclareRepository(repository) ==
  IF repository.provenance.kind = "generated" /\ DOMAIN repository.files # {}
  THEN {CorpusDiagnostic(<<"repos", repository.id>>, "manifest-malformed")} ELSE {}
Declarable(all) == {d \in all : DeclareFault(d) = "none"}
DeclareFiles(all) ==
  LET twice == {d \in Declarable(all) :
                  \E e \in Declarable(all) : e.at # d.at /\ e.file.path = d.file.path}
  IN  {CorpusDiagnostic(d.file.path, DeclareFault(d)) : d \in all \ Declarable(all)}
      \cup {CorpusDiagnostic(d.file.path, "declared-twice") : d \in twice}
DeclaredPaths(all) == {d.file.path : d \in Declarable(all)} \cup {ManifestPath}

VerifyTiers(manifest) ==
  {CorpusDiagnostic(ManifestPath, "manifest-malformed") :
     t \in {x \in CorpusTiers :
       Cardinality({i \in DOMAIN manifest.repositories : manifest.repositories[i].tier = x}) > 1}}

VerifyProvenance(id, p) ==
  {CorpusDiagnostic(<<"repos", id>>, fault) : fault \in
     (IF p.https /\ p.commit /\ p.date THEN {} ELSE {"provenance-malformed"})
     \cup (IF p.spdx \in Spdx /\ DOMAIN p.licenses # {} THEN {} ELSE {"license-mismatch"})}
VerifyGenerated(id, p) ==
  IF p.version # GeneratorVersion \/ p.digest \notin SyntheticDigest(p.version, p.seed, p.count)
  THEN {CorpusDiagnostic(<<"repos", id>>, "generator-drift")} ELSE {}

\* Mutation: a file of the right length is taken to be the right file.
DriftByLength(f, file) ==
  IF f.bytes # file.bytes THEN {"byte-length-drift"}
  ELSE (IF f.mode # file.mode THEN {"mode-drift"} ELSE {}) \cup (IF f.readable THEN {} ELSE {"unreadable"})
\* The faults of a file that can be read as far as its length.
Drift(f, file) ==
  IF f.bytes # file.bytes THEN {"byte-length-drift"}
  ELSE (IF f.mode # file.mode THEN {"mode-drift"} ELSE {})
       \cup (IF ~f.readable THEN {"unreadable"}
             ELSE IF f.content # file.digest THEN {"digest-drift"}
             ELSE {})
VerifyFile(disk, file, role) ==
  LET f == disk[file.path]
      faults ==
        IF file.spelling = "escape" THEN {}
        ELSE IF file.path \notin DOMAIN disk THEN {"missing-file"}
        ELSE IF f.kind = "symlink" THEN {"symlink-entry"}
        ELSE IF f.kind # "file" THEN {"unsupported-file-type"}
        ELSE IF f.large THEN {"file-too-large"}
        ELSE Drift(f, file)
  IN  {RoleDiagnostic(file.path, x, role) : x \in faults}

VerifyRepository(disk, repository) ==
  LET p == repository.provenance
  IN  IF p.kind = "generated" THEN VerifyGenerated(repository.id, p)
      ELSE VerifyProvenance(repository.id, p)
           \cup (UNION {VerifyFile(disk, f, "license") : f \in Range(p.licenses)})
           \cup (UNION {VerifyFile(disk, f, "content") : f \in Range(repository.files)})

\* walk_corpus fails for the whole corpus when one directory cannot be read.
WalkCorpus(world) == IF world.walks THEN {DOMAIN world.disk} ELSE {}
VerifyNoUndeclared(world, declared) ==
  IF WalkCorpus(world) = {} THEN {CorpusDiagnostic(<<>>, "unreadable")}
  ELSE {CorpusDiagnostic(p, "undeclared-file") : p \in (UNION WalkCorpus(world)) \ declared}

\* load_manifest: world.loads is "ok" or why the manifest is none.  A manifest
\* that is a link is read through it, and stands on the disk as the file it names.
VerifyManifest(world) ==
  LET m == world.manifest
      all == DeclaredOf(m)
  IN  IF ManifestPath \notin DOMAIN world.disk THEN {}
      ELSE IF world.disk[ManifestPath].kind # "file" THEN {}
      ELSE IF world.loads # "ok" THEN {CorpusDiagnostic(ManifestPath, world.loads)}
      ELSE IF m.version # ManifestVersion THEN {CorpusDiagnostic(ManifestPath, "unsupported-schema-version")}
      ELSE
             (UNION {DeclareRepository(r) : r \in Range(m.repositories)})
             \cup DeclareFiles(all) \cup VerifyTiers(m)
             \cup (UNION {VerifyRepository(world.disk, r) : r \in Range(m.repositories)})
             \cup (UNION {VerifyFile(world.disk, f, "content") : f \in Range(m.artifacts)})
             \cup VerifyNoUndeclared(world, DeclaredPaths(all))

----------------------------------------------------------------------------
(* relock; {} when a file stops it.                                         *)

LockFile(disk, path) ==
  [spelling |-> "plain", path |-> path, mode |-> disk[path].mode,
   bytes |-> disk[path].bytes, digest |-> disk[path].content]
Lockable(disk, path) ==
  path \in DOMAIN disk /\ disk[path].kind = "file" /\ ~disk[path].large /\ disk[path].readable
LockEach(disk, paths) == [i \in DOMAIN paths |-> LockFile(disk, paths[i])]

\* The paths relock reads: what walk_corpus found in their place, and the
\* licences the manifest already names.
ByPath(paths) == [p \in paths |-> p]
RepositoryPaths(world, id) == {p \in DOMAIN world.disk : p[1] = "repos" /\ p[2] = id}
ArtifactPaths(world) == {p \in DOMAIN world.disk : p[1] = "top" /\ p # ManifestPath}
LicensePaths(repository) == [i \in DOMAIN Licenses(repository) |-> Licenses(repository)[i].path]

RelockRepository(world, r) ==
  IF r.provenance.kind = "vendored"
  THEN [r EXCEPT !.provenance = [@ EXCEPT !.licenses = LockEach(world.disk, LicensePaths(r))],
                 !.files = LockEach(world.disk, ByPath(RepositoryPaths(world, r.id)))]
  ELSE [r EXCEPT !.provenance = [@ EXCEPT !.version = GeneratorVersion,
                                          !.digest = <<GeneratorVersion, r.provenance.seed,
                                                        r.provenance.count>>],
                 !.files = << >>]
Relock(world) ==
  LET repositories == world.manifest.repositories
      vendored == {r \in Range(repositories) : r.provenance.kind = "vendored"}
      read == ArtifactPaths(world) \cup (UNION {RepositoryPaths(world, r.id) : r \in vendored})
              \cup (UNION {Range(LicensePaths(r)) : r \in vendored})
      escapes == \E r \in vendored : \E f \in Range(Licenses(r)) : f.spelling = "escape"
  IN  IF ~world.walks \/ escapes \/ \E p \in read : ~Lockable(world.disk, p) THEN {}
      ELSE {[version |-> ManifestVersion,
             repositories |-> [i \in DOMAIN repositories |-> RelockRepository(world, repositories[i])],
             artifacts |-> LockEach(world.disk, ByPath(ArtifactPaths(world)))]}

----------------------------------------------------------------------------
\* A lock made from a disk says of that disk only what a person has to settle
\* (a stray file, a licence, provenance, a tier or a repository declared twice),
\* never that its bytes drifted; and once it says nothing at all, no file can be
\* added, removed or changed in content or mode and have it still say nothing:
\* the corpus on disk is the corpus the manifest locks.
LockHolds(world, later) ==
  \A lock \in Relock(world) :
    LET locked == [world EXCEPT !.manifest = lock, !.loads = "ok"]
        kept(disk) == [p \in (DOMAIN disk) \ {ManifestPath} |->
                         [kind |-> disk[p].kind, mode |-> disk[p].mode, content |-> disk[p].content]]
    IN  /\ \A d \in VerifyManifest(locked) :
             d.fault \in {"undeclared-file", "license-mismatch", "provenance-malformed",
                          "manifest-malformed", "declared-twice", "path-outside-its-entry"}
        /\ (VerifyManifest(locked) = {}
            /\ ManifestPath \in DOMAIN world.disk /\ world.disk[ManifestPath].kind = "file"
            /\ ManifestPath \in DOMAIN later /\ later[ManifestPath].kind = "file"
            /\ VerifyManifest([locked EXCEPT !.disk = later]) = {})
             => kept(later) = kept(world.disk)
=============================================================================
