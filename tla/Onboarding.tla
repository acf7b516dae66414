----------------------------- MODULE Onboarding -----------------------------
(***************************************************************************)
(* The scripts of scripts/imx/onboarding, which make a collection on IMX   *)
(* of a layer that Deployment has put on the chain: register a user, create *)
(* a project, create a collection, add a metadata schema.  The operator     *)
(* runs one script at a time and copies ids and addresses from one to the   *)
(* next by editing onboarding/config.ts.  A call to IMX may fail without    *)
(* effect, or take effect and lose its answer; the operator then runs the   *)
(* script again.                                                           *)
(*                                                                         *)
(* IMX is external: what is said of it here is what the scripts count on.  *)
(***************************************************************************)
EXTENDS Deployment

VARIABLES
    imxUser,        \* the operator's user is registered with IMX
    starkUser,      \* and with the contract of IMX
    projects,       \* how many projects IMX has; they have ids 1, 2, ...
    logged,         \* project ids create_project has logged
    collections,    \* collections of IMX: [contract, project]
    schemas,        \* metadata schemas of IMX: [contract, kind]
    config          \* onboarding/config.ts: project_id, the contract_address of the
                    \* collection and that of the schema

imxVars == <<imxUser, starkUser, projects, logged, collections, schemas>>
vars == <<deploymentVars, imxVars, config>>

\* Mutant of imxConfig: both networks use the contract of the main one.
imxConfigOfMainnet == [mainnet |-> [stark_contract_address |-> "0x5FDC"],
                       ropsten |-> [stark_contract_address |-> "0x5FDC"]]

\* scripts/imx/config.ts: other networks are refused.
imxConfig == [mainnet |-> [stark_contract_address |-> "0x5FDC"],
              ropsten |-> [stark_contract_address |-> "0x4527"]]

\* "PROJECT_ID" and "COLLECTION_ADDRESS", as the repository has them.
Placeholder == 0

Init ==
    /\ DeploymentInit
    /\ imxUser = FALSE /\ starkUser = FALSE
    /\ projects = 0 /\ logged = {}
    /\ collections = {} /\ schemas = {}
    /\ config = [project_id |-> Placeholder, contract_address |-> Placeholder,
                 schema_address |-> Placeholder]

\* The scripts, each with the main that starts it.
register_user == << <<"client">>, <<"getUser">>, <<"registerImx">> >>
register_user_onchain == << <<"client">>, <<"getSignableRegistration">>, <<"registerStark">> >>
create_project == << <<"client">>, <<"createProject">> >>
create_collection == << <<"client">>, <<"getProject">>, <<"createCollection">> >>
add_metadata_schema == << <<"client">>, <<"getCollection">>, <<"addMetadataSchema">> >>

onboarding ==
    [register_user |-> register_user, register_user_onchain |-> register_user_onchain,
     create_project |-> create_project, create_collection |-> create_collection,
     add_metadata_schema |-> add_metadata_schema]

ASSUME OnboardingAssumption == \A s \in Settings : s.onboarding \subseteq DOMAIN onboarding

StartOnboarding(s) ==
    /\ begin({s}, onboarding[s])
    /\ UNCHANGED <<runs, imxVars, config>>

layersOnRecord ==
    {deployments[proxy(p)] : p \in {"PortraitLayer", "AccessoryLayer"}} \ {0}

\* The operator copies a project id from the log, or the address of a layer.
EditConfig ==
    /\ status # "running"
    /\ \/ \E id \in logged : config' = [config EXCEPT !.project_id = id]
       \/ \E address \in layersOnRecord :
            \/ config' = [config EXCEPT !.contract_address = address]
            \/ config' = [config EXCEPT !.schema_address = address]
    /\ UNCHANGED <<deploymentVars, imxVars>>

-----------------------------------------------------------------------------
(* Steps of the scripts.                                                   *)

unchangedButRun == UNCHANGED <<setting, codeVars, chainVars, locals, config>>

\* get_imx_client_from_wallet, with the configuration of the network.
BuildClient ==
    /\ running("client")
    /\ IF network \in DOMAIN imxConfig THEN stepDone ELSE throws /\ UNCHANGED failures
    /\ unchangedButRun /\ UNCHANGED imxVars

\* Mutant of onGetUserError: the call is repeated until it succeeds.
onGetUserErrorRetried == UNCHANGED todo
onGetUserError == todo' = Tail(todo)

\* Any error is taken for a user that is not registered.
GetUser ==
    /\ running("getUser")
    /\ \/ imxUser /\ todo' = <<>> /\ UNCHANGED failures
       \/ ~imxUser /\ onGetUserError /\ UNCHANGED failures
       \/ imxUser /\ failures < setting.failures /\ failures' = failures + 1 /\ onGetUserError
    /\ UNCHANGED <<status, scripts, runs>>
    /\ unchangedButRun /\ UNCHANGED imxVars

\* The checks made before a collection or a schema is created.
found ==
    \/ next[1] = "getProject" /\ config.project_id \in 1 .. projects
    \/ next[1] = "getCollection" /\ \E c \in collections : c.contract = config.schema_address
    \/ next[1] = "getSignableRegistration"
CheckFirst ==
    /\ \E check \in {"getProject", "getCollection", "getSignableRegistration"} : running(check)
    /\ IF found THEN stepDone ELSE throws /\ UNCHANGED failures
    /\ unchangedButRun /\ UNCHANGED imxVars

registerImx ==
    /\ ~imxUser /\ imxUser' = TRUE
    /\ UNCHANGED <<starkUser, projects, collections, schemas>>
registerStark ==
    /\ ~starkUser /\ starkUser' = TRUE
    /\ UNCHANGED <<imxUser, projects, collections, schemas>>
createProject ==
    /\ imxUser /\ projects < setting.projects /\ projects' = projects + 1
    /\ UNCHANGED <<imxUser, starkUser, collections, schemas>>
createCollection ==
    /\ config.contract_address # Placeholder
    /\ \A c \in collections : c.contract # config.contract_address
    /\ collections' = collections \cup
        {[contract |-> config.contract_address, project |-> config.project_id]}
    /\ UNCHANGED <<imxUser, starkUser, projects, schemas>>

\* ILLUVITAR_COLLECTION names the schema.
addMetadataSchema ==
    /\ \E kind \in {"portrait", "accessory"} :
        schemas' = schemas \cup {[contract |-> config.schema_address, kind |-> kind]}
    /\ UNCHANGED <<imxUser, starkUser, projects, collections>>

request ==
    \/ running("registerImx") /\ registerImx
    \/ running("registerStark") /\ registerStark
    \/ running("createProject") /\ createProject
    \/ running("createCollection") /\ createCollection
    \/ running("addMetadataSchema") /\ addMetadataSchema

\* create_project logs the id it is told.
CallImx ==
    /\ request
    /\ stepDone
    /\ logged' = IF next[1] = "createProject" THEN logged \cup {projects'} ELSE logged
    /\ unchangedButRun

AnswerLost ==
    /\ request
    /\ failures < setting.failures /\ failures' = failures + 1
    /\ throws
    /\ UNCHANGED logged
    /\ unchangedButRun

calls == {"registerImx", "registerStark", "createProject", "createCollection", "addMetadataSchema"}
\* Mutant of CallRefused: the error is logged and passed over.
CallRefusedQuietly ==
    /\ \E call \in calls : running(call)
    /\ ~ENABLED request
    /\ stepDone
    /\ unchangedButRun /\ UNCHANGED imxVars

CallRefused ==
    /\ \E call \in calls : running(call)
    /\ ~ENABLED request
    /\ throws
    /\ unchangedButRun /\ UNCHANGED <<imxVars, failures>>

OnboardingStep == BuildClient \/ GetUser \/ CheckFirst \/ CallImx \/ CallRefused

Next ==
    \/ DeploymentNext /\ UNCHANGED <<imxVars, config>>
    \/ \E s \in setting.onboarding : StartOnboarding(s)
    \/ EditConfig
    \/ OnboardingStep \/ AnswerLost

Spec == Init /\ [][Next]_vars

\* A run that is under way goes on, and IMX answers or refuses.
FairSpec ==
    Spec /\ WF_vars(FairDeployStep /\ UNCHANGED <<imxVars, config>>) /\ WF_vars(OnboardingStep)

-----------------------------------------------------------------------------
(* Properties.                                                             *)

\* A script that returns has brought about what it is for, with the ids and
\* addresses it was configured with and whichever calls and answers were lost
\* in the runs before it: a collection of the configured contract under the
\* configured project, a schema for the configured collection.
done(s) ==
    CASE s = "register_user" -> imxUser
      [] s = "register_user_onchain" -> starkUser
      [] s = "create_project" -> projects \in logged
      [] s = "create_collection" ->
            /\ config.project_id \in logged
            /\ \E c \in collections : c.contract = config.contract_address /\ c.project = config.project_id
      [] s = "add_metadata_schema" ->
            /\ \E c \in collections : c.contract = config.schema_address
            /\ \E d \in schemas : d.contract = config.schema_address
ScriptsDoWhatTheyReturnFor ==
    [][status = "running" /\ status' = "ended"
        => \A s \in scripts \cap DOMAIN onboarding : done(s)]_vars

\* Every collection is one of a layer that accepts mints from the very
\* contract that the scripts of its network withdraw tokens through.
CollectionsCanBeWithdrawn ==
    \A c \in collections :
        chain[c.contract].args[2] = imxConfig[network].stark_contract_address

\* A run ends, if only with an exception, unless it waits for a deployment
\* that is never mined: that is all that a run waits for without limit.
RunsEnd == <>[](status = "running") => <>[]awaitsMining
=============================================================================
