SPECIFICATION Spec
CONSTANTS
    Cwd <- Project
    BinaryName <- NameOf
    Names = {"testsuites", "testsuite", "testcase"}
    MaxEvents = 5
    Records <- StagedRecords
    Bundles <- BundleLists
    Inputs <- StagedInputs
    Declared <- StagedDeclared
    MaxRecords = 3
    Manifests <- AdapterManifests
    ArtifactResources <- AdapterResources
    ArtifactVariables <- AdapterVariables
    DeclaredLists <- AdapterDeclared
    Arguments <- ExecutorArguments
    MaxEntries = 1
    I32Max = 3
    I64Max = 7
    U64Max = 15
    SuiteVariables <- SuiteItems
    ToolchainVariables <- BundleItems
    Toolchains <- EnvironmentBundles
    ToolchainDeclared <- EnvironmentDeclared
    MaxVariables = 4
    Rounds <- LineRounds
    MaxRounds = 3
    Identities <- AnIdentity
    MaxIdentities = 2
INVARIANTS NamesAreOwn ValidatorsAgree StagedAsDeclared EnvironmentAsGiven ManifestsAgree ArtifactAsDeclared OptionsMeanOneThing ExecutorLineIsBucks
CHECK_DEADLOCK FALSE
