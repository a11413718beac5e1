---------------------------- MODULE ArtifactStaging ----------------------------
(***************************************************************************)
(* How run_buck_artifact fills its private root before it probes nextest   *)
(* (bin/nextest_buck_artifact.rs): the manifest is validated, the bundle   *)
(* is matched with the declared resources record by record, and the        *)
(* artifact, the resources, the runtime inputs and the synthesized         *)
(* workspace are written one after another into one tree.  A call that     *)
(* fails, and an error of the system at any point (GiveUp), ends the run.  *)
(***************************************************************************)
EXTENDS ArtifactInputs

CONSTANTS Manifests,           \* the manifests the adapter may be given
          ArtifactResources,   \* the resource records a bundle may have
          ArtifactVariables,   \* its environment records
          DeclaredLists        \* what --bundle-resources may list

\* A text splits into at least one component.
Paths == Seq(STRING) \ {<<>>}
ASSUME ManifestsAssumption ==
  /\ \A m \in Manifests : m.executable \in Paths /\ m.working_directory \in Paths /\ m.runtime_inputs \in Seq(Paths)
  /\ \A r \in ArtifactResources : r.path \in Paths

VARIABLES step,        \* where run_buck_artifact is
          manifest,    \* the manifest
          declared,    \* the declared resources
          pairs,       \* the resource records accepted, with the index of each one's file
          variables,   \* the environment records accepted
          root,        \* the private root
          placed       \* how many of the current list were copied

artifactVars == <<step, manifest, declared, pairs, variables, root, placed>>
inputVars == <<manifest, declared, pairs, variables>>

Bundle == [resources |-> pairs, environment |-> variables]
-------------------------------------------------------------------------------
ArtifactInit ==
  /\ step = "manifest"
  /\ manifest = <<>> /\ declared = <<>>
  /\ pairs = <<>> /\ variables = <<>>
  /\ root = EmptyRoot /\ placed = 0

ValidateManifest(m, d) ==
  /\ step = "manifest"
  /\ manifest' = m /\ declared' = d
  /\ step' = IF BinaryAccepts(m) /\ d # <<>> THEN "bundle" ELSE "refused"
  /\ UNCHANGED <<pairs, variables, root, placed>>

\* One turn of validate_bundle's first loop: the record's file is the first
\* declared resource that no earlier record used and whose path ends in the
\* source.
ResourceFits(r, index) ==
  /\ RelPath(r.source) /\ RelPath(r.path)
  /\ \A d \in ManifestDestinations(manifest) : ~PathsOverlap(Components(r.path), Components(d))
  /\ \A i \in DOMAIN pairs : pairs[i].source # r.source /\ pairs[i].path # r.path
  /\ index # 0 /\ r.digest = declared[index]
BundleResource(r) ==
  /\ step = "bundle" /\ Len(pairs) < Len(declared)
  /\ LET index == Pick(r.source, declared, {pairs[i].index : i \in DOMAIN pairs})
     IN IF ResourceFits(r, index)
        THEN step' = step /\ pairs' = Append(pairs, [source |-> r.source, path |-> r.path, index |-> index])
        ELSE step' = "refused" /\ UNCHANGED pairs
  /\ UNCHANGED <<manifest, declared, variables, root, placed>>

\* One turn of its second loop.
VariableFits(v) ==
  /\ v.kind = "relative_path" => RelPath(v.value) /\ \E i \in DOMAIN pairs : pairs[i].path = v.value
  /\ \A i \in DOMAIN variables : variables[i].name # v.name
BundleVariable(v) ==
  /\ step = "bundle" /\ Len(pairs) = Len(declared)
  /\ IF VariableFits(v)
     THEN step' = step /\ variables' = Append(variables, v)
     ELSE step' = "refused" /\ UNCHANGED variables
  /\ UNCHANGED <<manifest, declared, pairs, root, placed>>

\* The calls that led to t were made; the run goes on unless one failed.
Reached(t, next) == root' = t /\ step' = IF t.ok THEN next ELSE "refused"

\* A copy to a path as it is spelled: no file is made at one that ends in a
\* slash.  And the working directory: at one that ends in "/." none is made.
CopyTo(t, spelled, c) == IF Last(spelled) \in NoName THEN Failed(t) ELSE Apply(t, c)
WorkingDirectory(t) ==
  LET path == Components(manifest.working_directory)
      ending == Last(SelectSeq(manifest.working_directory, LAMBDA c : c # ""))
  IN IF ending = "." /\ path \notin DOMAIN t.files THEN Failed(t) ELSE Apply(t, Dir(path))

ExecutableCopy == Call("copy", Components(manifest.executable), <<"artifact">>)
StageExecutable ==
  /\ step = "bundle" /\ Len(pairs) = Len(declared)
  /\ Reached(WorkingDirectory(CopyTo(root, manifest.executable, ExecutableCopy)), "resources")
  /\ UNCHANGED <<inputVars, placed>>

DeclaredCopy(i) == Call("copy", Components(pairs[i].path), <<"resource", declared[pairs[i].index]>>)
StageResource ==
  /\ step = "resources" /\ placed < Len(pairs)
  /\ Reached(CopyTo(root, pairs[placed + 1].path, DeclaredCopy(placed + 1)), "resources")
  /\ placed' = placed + 1
  /\ UNCHANGED inputVars
ResourcesStaged ==
  /\ step = "resources" /\ placed = Len(pairs)
  /\ step' = "runtime_inputs" /\ placed' = 0
  /\ UNCHANGED <<inputVars, root>>

RuntimeCopy(i) == Call("copy", Components(manifest.runtime_inputs[i]), <<"runtime_resource">>)
StageRuntimeInput ==
  /\ step = "runtime_inputs" /\ placed < Len(manifest.runtime_inputs)
  /\ Reached(CopyTo(root, manifest.runtime_inputs[placed + 1], RuntimeCopy(placed + 1)), "runtime_inputs")
  /\ placed' = placed + 1
  /\ UNCHANGED inputVars

\* synthesize: the workspace and its metadata, then a copy of whatever the
\* executable's place holds; a file copied over itself is emptied.
Dispatched == <<"target", "debug", "deps", "buck2_nextest_rust_test">>
MakeWorkspaceOf(t) ==
  LET dirs == Apply(Apply(Apply(Apply(t, Dir(<<"workspace", "src">>)), Dir(<<"workspace", ".config">>)),
                          Dir(<<"target", "debug", "deps">>)), Dir(<<"meta">>))
  IN Apply(Apply(dirs, Call("write", <<"workspace", "Cargo.toml">>, <<"package">>)),
           Call("write", <<"workspace", ".config", "nextest.toml">>, <<"configuration">>))
WriteMetadataTo(t) ==
  Apply(Apply(Apply(t, Call("write", <<"meta", "cargo-metadata.json">>, <<"cargo_metadata">>)),
              Call("write", <<"meta", "binaries-metadata.json">>, <<"binaries_metadata">>)),
        Call("write", <<"meta", "tests-metadata.json">>, <<"tests_metadata">>))
Synthesize ==
  LET made == WriteMetadataTo(MakeWorkspaceOf(root))
      executable == Components(manifest.executable)
      content == IF executable = Dispatched THEN <<"empty">> ELSE made.files[executable]
  IN /\ step = "runtime_inputs" /\ placed = Len(manifest.runtime_inputs)
     /\ Reached(IF made.ok THEN Apply(made, Call("copy", Dispatched, content)) ELSE made, "synthesized")
     /\ UNCHANGED <<inputVars, placed>>

\* The directories of the commands, and the log of the first probe.
MakeHomes ==
  /\ step = "synthesized"
  /\ Reached(Apply(Apply(Apply(Apply(root, Dir(<<"home">>)), Dir(<<"cargo-home">>)), Dir(<<"tmp">>)),
                   Call("write", <<"probe.log">>, <<"help">>)), "ready")
  /\ UNCHANGED <<inputVars, placed>>

\* An error of the system, or a resource that is no regular file; before the
\* manifest is read nothing has happened.
ArtifactGivesUp ==
  /\ step \notin {"manifest", "ready", "refused"}
  /\ step' = "refused"
  /\ UNCHANGED <<inputVars, root, placed>>

ArtifactNext ==
  \/ \E m \in Manifests, d \in DeclaredLists : ValidateManifest(m, d)
  \/ \E r \in ArtifactResources : BundleResource(r)
  \/ \E v \in ArtifactVariables : BundleVariable(v)
  \/ StageExecutable \/ StageResource \/ ResourcesStaged \/ StageRuntimeInput
  \/ Synthesize \/ MakeHomes \/ ArtifactGivesUp

ArtifactSpec == ArtifactInit /\ [][ArtifactNext]_artifactVars
-------------------------------------------------------------------------------
\* The library and the artifact adapter accept the same manifests, but for
\* exactly the differences ManifestsAgreeOn states: the spelling of paths, an
\* executable below the working directory, an empty name and a NUL on one
\* side, a foreign field, another identity and the pinned names on the other.
\* And both take what emit-manifest writes (validate_manifest,
\* ManifestV1::validate, emit_manifest).
ManifestsAgree == step # "manifest" => ManifestsAgreeOn(manifest)

\* The files the adapter writes into the root itself, before and after it
\* copies the executable.
SynthesizedFiles ==
  {<<"workspace", "Cargo.toml">>, <<"workspace", ".config", "nextest.toml">>, <<"meta", "cargo-metadata.json">>,
   <<"meta", "binaries-metadata.json">>, <<"meta", "tests-metadata.json">>}
OwnFiles == SynthesizedFiles \cup {Dispatched, <<"probe.log">>}

Placed(c) == c.path \in DOMAIN root.files /\ root.files[c.path] = c.by

\* What takes the executable's place before it is copied for nextest: a
\* runtime input of the same components, or a file of the adapter's.
Displaced ==
  \/ ExecutableCopy.path \in SynthesizedFiles \cup {Dispatched}
  \/ \E i \in DOMAIN manifest.runtime_inputs : RuntimeCopy(i).path = ExecutableCopy.path

\* What the adapter starts nextest on, for every manifest and bundle it
\* accepts.  It starts the declared artifact exactly when nothing displaced
\* it, and nothing in the code refuses a manifest that has it displaced: no
\* error is reported and another file, or an empty one, is run.  A resource
\* is in its place unless a later resource has another spelling of that place
\* or a file of the adapter's is there; a runtime input, unless a file of the
\* adapter's is there: the two lists, checked apart from each other, never
\* meet.  And of the names the manifest check keeps, the variables that the
\* adapter sets have its values, or the bundle's, which nothing refuses, and
\* never the manifest's (validate_bundle, run_buck_artifact, synthesize,
\* env_for).
ArtifactAsDeclared ==
  step = "ready" =>
    /\ Placed(Call("copy", Dispatched, <<"artifact">>)) <=> ~Displaced
    /\ \A i \in DOMAIN pairs :
         \/ Placed(DeclaredCopy(i)) \/ DeclaredCopy(i).path \in OwnFiles
         \/ \E j \in DOMAIN pairs : j > i /\ DeclaredCopy(j).path = DeclaredCopy(i).path
    /\ \A i \in DOMAIN manifest.runtime_inputs : Placed(RuntimeCopy(i)) \/ RuntimeCopy(i).path \in OwnFiles
    /\ \A n \in (Pinned \cup Prefixed) \cap AdapterSets :
         EnvFor(manifest, Bundle)[n] =
           IF n \in DOMAIN BundleVariables(Bundle) THEN BundleVariables(Bundle)[n] ELSE <<"adapter">>
===============================================================================
