----------------------------- MODULE RunnerStaging -----------------------------
(***************************************************************************)
(* How the Buck test runner fills its private root before it starts        *)
(* nextest, in the order of execute (bin/nextest_buck_test.rs): the        *)
(* schema-v2 manifest is validated record by record (manifest_v2.rs), the  *)
(* executables are resolved, the workspace is synthesized package by       *)
(* package (nextest_v2.rs), and the bundle's resources are copied beside   *)
(* it.  Each list is checked on its own; the property is about the tree    *)
(* they all are written to.  A call that fails, and an error of the system *)
(* at any point (GiveUp), ends the run.                                    *)
(***************************************************************************)
EXTENDS RunnerInputs

CONSTANTS Records,      \* the records a manifest may hold
          Bundles,      \* the lists of resources a bundle may have
          Inputs,       \* --declared-input, in order
          Declared,     \* --bundle-resources, in order
          MaxRecords    \* bound on the length of a manifest

\* Generated names belong to one id (NamesAreOwn of ReportNames).
ASSUME RecordsAssumption ==
  /\ \A r \in Records : r.cwd \in Seq(STRING) /\ BinaryName(Identity(r)) \in STRING
  /\ \A b \in Bundles : b \in Seq(Range(b)) /\ \A i \in DOMAIN b : b[i].path \in Seq(STRING)
  /\ \A r, s \in Records : BinaryName(Identity(r)) = BinaryName(Identity(s)) => Identity(r) = Identity(s)

VARIABLES stage,         \* where execute is
          records,       \* the records accepted so far
          packageCwds,   \* package_cwds: the cwd of each package seen
          tree,          \* the private root
          roots,         \* the packages opened so far, with their cwds
          sources,       \* the records whose source file was written
          resources,     \* the resources of the accepted bundle
          copied         \* how many of them were copied

stagingVars == <<stage, records, packageCwds, tree, roots, sources, resources, copied>>
treeVars == <<tree, roots, sources, resources, copied>>
-------------------------------------------------------------------------------
StagingInit ==
  /\ stage = "manifest"
  /\ records = <<>> /\ packageCwds = <<>>
  /\ tree = EmptyRoot
  /\ roots = <<>> /\ sources = {}
  /\ resources = <<>> /\ copied = 0

\* A bug the check could have: a new package is compared with none before it.
SamePackageOnly(r) == r.package \in DOMAIN packageCwds => packageCwds[r.package] = r.cwd

\* The records of one package share one cwd, and a package's first record
\* lies clear of the packages before it.
CwdAccepted(r) ==
  IF r.package \in DOMAIN packageCwds THEN packageCwds[r.package] = r.cwd
  ELSE \A p \in DOMAIN packageCwds : ~Overlaps(packageCwds[p], r.cwd)

RecordAccepted(r) ==
  /\ r.sound /\ SafePath(r.executable) /\ SafePath(r.cwd)
  /\ \A i \in DOMAIN records : records[i].executable # r.executable /\ Identity(records[i]) # Identity(r)
  /\ CwdAccepted(r)

\* One turn of ManifestV2::validate's loop.
ReadRecord(r) ==
  /\ stage = "manifest" /\ Len(records) < MaxRecords
  /\ IF RecordAccepted(r)
     THEN /\ records' = Append(records, r)
          /\ packageCwds' = Insert(packageCwds, r.package, r.cwd)
          /\ stage' = stage
     ELSE stage' = "refused" /\ UNCHANGED <<records, packageCwds>>
  /\ UNCHANGED treeVars

ResolveExecutables ==
  /\ stage = "manifest" /\ records # <<>>
  /\ stage' = IF \A i \in DOMAIN records : Resolved(records[i].executable, Inputs) THEN "private" ELSE "refused"
  /\ UNCHANGED <<records, packageCwds, treeVars>>

\* The calls that led to t were made; the run goes on unless one failed.
Made(t, next) == tree' = t /\ stage' = IF t.ok THEN next ELSE "refused"
Directories(t, a, b, c) == Apply(Apply(Apply(t, Dir(a)), Dir(b)), Dir(c))

MakePrivate ==
  /\ stage = "private"
  /\ Made(Directories(tree, <<"home">>, <<"cargo-home">>, <<"tmp">>), "workspace")
  /\ UNCHANGED <<records, packageCwds, roots, sources, resources, copied>>

\* synthesize: the workspace, then package by package (in the order of a
\* BTreeMap, here in any order), then the metadata and the configuration.
WorkspaceManifest == Call("write", <<"workspace", "Cargo.toml">>, <<"workspace manifest">>)
MakeWorkspace ==
  /\ stage = "workspace"
  /\ LET made == Directories(tree, <<"workspace">>, <<"target">>, <<"meta">>)
     IN Made(Apply(Apply(made, Dir(<<"workspace", ".config">>)), WorkspaceManifest), "packages")
  /\ UNCHANGED <<records, packageCwds, roots, sources, resources, copied>>

InWorkspace(cwd) == <<"workspace">> \o cwd
PackageManifest(package, cwd) == Call("write", Append(InWorkspace(cwd), "Cargo.toml"), <<"package", package>>)
OpenPackage(i) ==
  LET package == records[i].package
      cwd == records[i].cwd
  IN /\ stage = "packages"
     /\ \A j \in 1 .. (i - 1) : records[j].package # package
     /\ package \notin DOMAIN roots
     /\ \A j \in DOMAIN records : records[j].package \in DOMAIN roots => j \in sources
     /\ Made(Apply(Apply(tree, Dir(Append(InWorkspace(cwd), "src"))), PackageManifest(package, cwd)), "packages")
     /\ roots' = Insert(roots, package, cwd)
     /\ UNCHANGED <<records, packageCwds, sources, resources, copied>>

SourceFile(r, cwd) ==
  Call("write", Append(Append(InWorkspace(cwd), "src"), BinaryName(Identity(r))), <<"source", Identity(r)>>)
WriteSource(i) ==
  /\ stage = "packages"
  /\ records[i].package \in DOMAIN roots
  /\ i \notin sources
  /\ \A j \in 1 .. (i - 1) : records[j].package = records[i].package => j \in sources
  /\ Made(Apply(tree, SourceFile(records[i], roots[records[i].package])), "packages")
  /\ sources' = sources \cup {i}
  /\ UNCHANGED <<records, packageCwds, roots, resources, copied>>

CargoMetadata == Call("write", <<"meta", "cargo-metadata.json">>, <<"cargo metadata">>)
BinariesMetadata == Call("write", <<"meta", "binaries-metadata.json">>, <<"binaries metadata">>)
Configuration == Call("write", <<"workspace", ".config", "nextest.toml">>, <<"configuration">>)
WriteMetadata ==
  /\ stage = "packages" /\ sources = DOMAIN records
  /\ Made(Apply(Apply(Apply(tree, CargoMetadata), BinariesMetadata), Configuration), "bundle")
  /\ UNCHANGED <<records, packageCwds, roots, sources, resources, copied>>

\* parse_bundle; without --bundle-json there is nothing to check or to copy.
ParseBundle(b) ==
  /\ stage = "bundle"
  /\ IF ResourcesAccepted(b, Declared)
     THEN stage' = "copying" /\ resources' = b
     ELSE stage' = "refused" /\ UNCHANGED resources
  /\ UNCHANGED <<records, packageCwds, tree, roots, sources, copied>>
NoBundle == stage = "bundle" /\ stage' = "copying" /\ UNCHANGED <<records, packageCwds, treeVars>>

ResourceCopy(r) == Call("copy", r.path, <<"resource", SourceFor(r.source, Declared)>>)
CopyResource ==
  /\ stage = "copying" /\ copied < Len(resources)
  /\ Made(Apply(tree, ResourceCopy(resources[copied + 1])), "copying")
  /\ copied' = copied + 1
  /\ UNCHANGED <<records, packageCwds, roots, sources, resources>>

Finish ==
  /\ stage = "copying" /\ copied = Len(resources)
  /\ stage' = "staged"
  /\ UNCHANGED <<records, packageCwds, treeVars>>

\* An error of the system, a number of records or a digest that differs.
GiveUp ==
  /\ stage \notin {"staged", "refused"}
  /\ stage' = "refused"
  /\ UNCHANGED <<records, packageCwds, treeVars>>

StagingNext ==
  \/ \E r \in Records : ReadRecord(r)
  \/ ResolveExecutables \/ MakePrivate \/ MakeWorkspace
  \/ \E i \in DOMAIN records : OpenPackage(i) \/ WriteSource(i)
  \/ WriteMetadata
  \/ \E b \in Bundles : ParseBundle(b)
  \/ NoBundle \/ CopyResource \/ Finish \/ GiveUp

StagingSpec == StagingInit /\ [][StagingNext]_stagingVars
-------------------------------------------------------------------------------
Holds(c) == c.path \in DOMAIN tree.files /\ tree.files[c.path] = c.by

\* When the root is ready, every file of the workspace, of a package, of a
\* record and of the bundle is there with its own content.
FilesAreStaged ==
  stage = "staged" =>
    /\ \A c \in {WorkspaceManifest, CargoMetadata, BinariesMetadata, Configuration} : Holds(c)
    /\ \A i \in DOMAIN records :
         /\ Holds(PackageManifest(records[i].package, records[i].cwd))
         /\ Holds(SourceFile(records[i], records[i].cwd))
    /\ \A i \in DOMAIN resources : Holds(ResourceCopy(resources[i]))

\* Once the executables are resolved, the list nextest may answer is one to
\* one with the manifest: an answer with another executable's path, or
\* without one of the suites, is refused.
ListIsManifests ==
  stage = "private" =>
    LET expected == Expectation(records, Inputs)
    IN \A e, f \in expected :
         LET suites == (expected \ {e}) \cup {[e EXCEPT !.path = f.path]}
         IN /\ ListAccepted(<<suites>>, expected) <=> e.path = f.path
            /\ f \in suites => ~ListAccepted(<<suites \ {f}>>, expected)

\* Whatever the runner accepts and stages, no file it writes replaces or
\* hides another, and the tests nextest lists are those of the manifest
\* (ManifestV2::validate, parse_bundle, synthesize, copy_regular,
\* validate_list).
StagedAsDeclared == FilesAreStaged /\ ListIsManifests
===============================================================================
