---------------------------- MODULE ConfigReload ----------------------------
(***************************************************************************)
(* The configuration file: it is edited while the server runs, the watcher *)
(* thread looks for changes of its MD5 sum, and REST requests ask for a    *)
(* reload.  A load reads the file, twice if it must, and applies it in     *)
(* steps: custom loaders, models, removed models, custom node libraries    *)
(* and pipelines, and once more the models that a pipeline had blocked.    *)
(* Each look at the file is a step of its own; configMtx is taken for the  *)
(* whole cycle by the watcher and three times, one after the other, by a   *)
(* request.                                                                *)
(*                                                                         *)
(* A server started with a model on the command line has no file: its      *)
(* watcher and the requests only apply the settings of the model again.    *)
(*                                                                         *)
(* How versions are listed and loaded is ModelVersions' subject, pipelines *)
(* are PipelineDefinition's: here a model serves or not, the pipelines are *)
(* the set of the models they use, which are models of the same content,   *)
(* no pipeline has the name of a model, and the MD5 sum of a content is    *)
(* the content.                                                            *)
(***************************************************************************)
EXTENDS ModelConfig, FiniteSets, SequencesExt

CONSTANTS
    Requests,      \* the REST requests for a reload
    Names,         \* the names of models
    Contents,      \* what the file may contain
    Parsed,        \* each content as the parser understands it
    Initial,       \* the content the server was started with
    CommandLines,  \* the models that may be given on the command line
    Missing,       \* there is no file
    None,          \* nobody holds configMtx
    MAX_CONFIG_JSON_READ_RETRY_COUNT,
    MaxEdits,      \* bound on the edits of the file
    MaxFailures    \* bound on the models, loaders and libraries that cannot be loaded

Watcher == "watcher"
Threads == Requests \cup {Watcher}

\* A function with the value at one argument set.
With(f, x, y) == [z \in DOMAIN f \cup {x} |-> IF z = x THEN y ELSE f[z]]

\* The entries of a content as loadModelsConfig sees them.
Seen(v) ==
    [name |-> v.name, valid |-> NodeValid(v), supported |-> validatePluginConfiguration(parseNode(v)), config |-> parseNode(v)]
Entries == [c \in Contents |-> [i \in DOMAIN Parsed[c].models |-> Seen(Parsed[c].models[i])]]
Configs == [c \in Contents |-> {e.config : e \in Range(Entries[c])}]
Accepted(e) == e.valid /\ e.supported

Good == {c \in Contents :
    /\ Parsed[c].kind = "ok"
    /\ \A i, j \in DOMAIN Parsed[c].models : i # j => Parsed[c].models[i].name # Parsed[c].models[j].name
    /\ \A e \in Range(Entries[c]) :
         Accepted(e) /\ ~(isDynamicParameterEnabled(e.config) /\ (e.config.stateful \/ e.name \in Parsed[c].pipes))}

ASSUME ConfigAssumption ==
    /\ Missing \notin Contents /\ None \notin Threads /\ Watcher \notin Requests /\ Initial \in Good
    /\ MAX_CONFIG_JSON_READ_RETRY_COUNT \in Nat \ {0} /\ {MaxEdits, MaxFailures} \subseteq Nat
    /\ \A c \in Contents :
         /\ Len(Parsed[c].models) \in Nat /\ DOMAIN Parsed[c].models = 1 .. Len(Parsed[c].models)
         /\ Parsed[c].kind \in {"ok", "notJson", "notSchema"}
         /\ \A e \in Range(Entries[c]) : e.name \in Names
         /\ Parsed[c].pipes \subseteq {e.name : e \in {d \in Range(Entries[c]) : Accepted(d)}}
    /\ \A v \in CommandLines :
         /\ v.name \in Names /\ v.loader = "absent" /\ v.sequences # "tooMany"
         /\ v.stateful \in {"absent", "false", "true"}

VARIABLES
    line,       \* the model of the command line, if the server was started with one
    file,       \* the content of the file, or Missing
    written,    \* the contents it has had
    restored,   \* whether it has got a content it had had before
    edits,      \* how often it was edited
    failures,   \* how many models, loaders and libraries could not be loaded
    md5,        \* lastConfigFileMD5
    status,     \* lastLoadConfigStatus: whether it is OK
    holder,     \* who holds configMtx
    pc,         \* where each thread is
    load,       \* the load in progress
    model,      \* the models: their kind once they are made, whether they serve, and with which settings
    served,     \* servedModelConfigs
    pipes,      \* the models that pipelines use
    loaders,    \* the custom loaders
    libraries,  \* the custom node libraries
    applied,    \* the content of the last load without an error
    dropped,    \* whether a blocked configuration was given up
    past,       \* the contents of the file since a request arrived
    answer      \* the answer to each request, and what was applied then
store == <<line, file, written, restored, edits>>
server == <<model, served, pipes, loaders, libraries>>
history == <<applied, dropped, past, answer>>
vars == <<store, failures, md5, status, holder, pc, load, server, history>>

cli == line # {}
NoLoad == [attempt |-> 0, content |-> Missing, todo |-> <<>>, seen |-> {}, new |-> <<>>, gated |-> <<>>, ok |-> TRUE]
NoAnswer == [given |-> FALSE, ok |-> FALSE, applied |-> Missing]

TypeOK ==
    /\ file \in Contents \cup {Missing} /\ md5 \in Contents \cup {Missing}
    /\ holder \in Threads \cup {None}
    /\ \A t \in Threads : holder # t => pc[t] \in {"idle", "check", "load", "last", "answered"}
    /\ load.attempt < MAX_CONFIG_JSON_READ_RETRY_COUNT
    /\ \A n \in DOMAIN served : served[n].name = n
    /\ \A n \in DOMAIN load.new : n \in load.seen

-----------------------------------------------------------------------------
\* Loading one model

\* reloadModelWithVersions for the settings c.  A stateful model is not dynamic,
\* another has no low latency transformation, whether a model is stateful cannot
\* change, and one used by a pipeline can become neither stateful nor dynamic.
KindOf(c) == IF c.stateful THEN "stateful" ELSE "stateless"
Contradictory(c) ==
    \/ c.stateful /\ isDynamicParameterEnabled(c)
    \/ ~c.stateful /\ c.sequences = "lowLatency"
Refused(c) ==
    \/ Contradictory(c)
    \/ model[c.name].kind \notin {"none", KindOf(c)}
Gated(c) == (isDynamicParameterEnabled(c) \/ c.stateful) /\ c.name \in pipes
Rejected(c) == Refused(c) \/ Gated(c)

\* Without its custom loader a model is retired, and that is no error; one that
\* serves with these settings is left alone, another is loaded.
LoaderGone(c) == c.loader # "absent" /\ c.loader \notin loaders
Needed(c) ==
    ~Rejected(c) /\ ~LoaderGone(c) /\ ~(model[c.name].serves /\ ~isReloadRequired(model[c.name].config, c))
MayFail(c) == IF Needed(c) /\ failures < MaxFailures THEN BOOLEAN ELSE {FALSE}
Reloaded_Unchanged(c, fails) ==
    IF Needed(c) THEN [kind |-> KindOf(c), serves |-> ~fails, config |-> c]
    ELSE IF ~Rejected(c) /\ model[c.name].serves /\ isReloadRequired(model[c.name].config, c) THEN [model[c.name] EXCEPT !.kind = KindOf(c), !.serves = FALSE]
    ELSE model[c.name]
Reloaded(c, fails) ==
    IF Needed(c) THEN [kind |-> KindOf(c), serves |-> ~fails, config |-> c]
    ELSE IF ~Rejected(c) /\ LoaderGone(c) THEN [model[c.name] EXCEPT !.kind = KindOf(c), !.serves = FALSE]
    ELSE model[c.name]

-----------------------------------------------------------------------------
\* Whether a load is needed

Go(t, place) == pc' = [pc EXCEPT ![t] = place]

Answer(r, ok) == answer' = [answer EXCEPT ![r] = [given |-> TRUE, ok |-> ok, applied |-> applied]]

Arrive(r) ==
    /\ pc[r] = "idle" /\ ~answer[r].given
    /\ Go(r, IF cli THEN "last" ELSE "check")
    /\ past' = [past EXCEPT ![r] = {file}]
    /\ UNCHANGED <<store, failures, md5, status, holder, load, server, applied, dropped, answer>>

Lock(t) ==
    /\ holder = None
    /\ \/ t = Watcher /\ pc[t] = "idle" /\ Go(t, IF cli THEN "update" ELSE "exists")
       \/ pc[t] = "check" /\ Go(t, "exists")
       \/ pc[t] = "load" /\ Go(t, "md5")
       \/ pc[t] = "last" /\ Go(t, "update")
    /\ holder' = t
    /\ UNCHANGED <<store, failures, md5, status, load, server, history>>

\* configFileReloadNeeded: without a file the watcher goes on with the versions
\* and a request is refused.
Exists(t) ==
    /\ holder = t /\ pc[t] = "exists"
    /\ \/ file # Missing /\ Go(t, "compare") /\ UNCHANGED <<holder, answer>>
       \/ file = Missing /\ t = Watcher /\ Go(t, "update") /\ UNCHANGED <<holder, answer>>
       \/ file = Missing /\ t # Watcher /\ Go(t, "answered") /\ holder' = None /\ Answer(t, FALSE)
    /\ UNCHANGED <<store, failures, md5, status, load, server, applied, dropped, past>>

\* A request also loads when the last load failed, and gives the mutex back.
Checked(t) ==
    \/ t = Watcher /\ Go(t, IF md5 # file THEN "md5" ELSE "update") /\ UNCHANGED holder
    \/ t # Watcher /\ Go(t, IF md5 # file \/ ~status THEN "load" ELSE "last") /\ holder' = None

Compare(t) ==
    /\ holder = t /\ pc[t] = "compare"
    /\ Checked(t)
    /\ UNCHANGED <<store, failures, md5, status, load, server, history>>

-----------------------------------------------------------------------------
\* loadConfig

TakeMD5(t) ==
    /\ holder = t /\ pc[t] = "md5"
    /\ md5' = file /\ load' = NoLoad
    /\ Go(t, "read")
    /\ UNCHANGED <<store, failures, status, holder, server, history>>

\* The end of a load: the watcher goes on with the versions in any case, a
\* request only when the load has succeeded.
Succeeded(t) ==
    /\ status' = TRUE /\ applied' = load.content
    /\ IF t = Watcher THEN Go(t, "update") /\ UNCHANGED holder ELSE Go(t, "last") /\ holder' = None
    /\ UNCHANGED answer
Failed(t) ==
    /\ status' = FALSE
    /\ IF t = Watcher THEN Go(t, "update") /\ UNCHANGED <<holder, answer>>
       ELSE Go(t, "answered") /\ holder' = None /\ Answer(t, FALSE)
    /\ UNCHANGED applied

\* The file is read again when it cannot be read or parsed, but not when it
\* does not fit the schema.
Kind == IF file = Missing THEN "notJson" ELSE Parsed[file].kind
Unreadable == Kind = "notJson"
Again == Unreadable /\ load.attempt + 1 < MAX_CONFIG_JSON_READ_RETRY_COUNT

Read(t) ==
    /\ holder = t /\ pc[t] = "read"
    /\ \/ /\ Kind = "ok"
          /\ load' = [load EXCEPT !.content = file, !.todo = Entries[file]]
          /\ Go(t, "loaders")
          /\ UNCHANGED <<status, holder, applied, answer>>
       \/ /\ Again
          /\ load' = [load EXCEPT !.attempt = @ + 1]
          /\ UNCHANGED <<status, holder, pc, applied, answer>>
       \/ /\ Kind # "ok" /\ ~Again
          /\ load' = NoLoad /\ Failed(t)
    /\ UNCHANGED <<store, failures, md5, server, dropped, past>>

\* loadCustomLoadersConfig: loaders that are there are kept, others loaded,
\* the rest removed; without a list nothing changes.
\* createCustomLoader looks for the loader among those there were; finalize
\* leaves those that were found or made.
Finalized(items, lost) == (items \cap loaders) \cup (items \ (loaders \cup lost))
Losses(items) == {l \in SUBSET items : failures + Cardinality(l) <= MaxFailures}

LoadLoaders(t) ==
    /\ holder = t /\ pc[t] = "loaders"
    /\ LET list == Parsed[load.content].loaders
       IN  IF ~list.present THEN UNCHANGED <<loaders, failures, load>>
           ELSE \E lost \in Losses(list.items \ loaders) :
                  /\ loaders' = Finalized(list.items, lost)
                  /\ failures' = failures + Cardinality(lost)
                  /\ load' = [load EXCEPT !.ok = @ /\ lost = {}]
    /\ Go(t, "models")
    /\ UNCHANGED <<store, md5, status, holder, model, served, pipes, libraries, history>>

\* loadModelsConfig: the entries are looked at in order.
Entry(t, e) == holder = t /\ pc[t] = "models" /\ load.todo # <<>> /\ e = Head(load.todo)
Next1 == [load EXCEPT !.todo = Tail(@)]

\* An entry that cannot be parsed, or whose name has been seen, is skipped.
SkipEntry(t, e) ==
    /\ Entry(t, e) /\ (~e.valid \/ (Accepted(e) /\ e.name \in load.seen))
    /\ load' = [Next1 EXCEPT !.ok = FALSE]
    /\ UNCHANGED <<store, failures, md5, status, holder, pc, server, history>>

\* Unsupported plugin keys end it all: what came before has been applied, the
\* configurations are not kept, the removed models not retired.
BadPlugin(t, e) ==
    /\ Entry(t, e) /\ e.valid /\ ~e.supported
    /\ load' = [Next1 EXCEPT !.ok = FALSE]
    /\ Go(t, "pipelines")
    /\ UNCHANGED <<store, failures, md5, status, holder, server, history>>

Blocked(c) == ~Refused(c) /\ Gated(c)

\* A blocked configuration is put aside and the one before it kept, if there
\* is one.
BlockedEntry(t, e) ==
    /\ Entry(t, e) /\ Accepted(e) /\ e.name \notin load.seen /\ Blocked(e.config)
    /\ LET skipped == [Next1 EXCEPT !.seen = @ \cup {e.name}, !.ok = FALSE]
       IN  load' = IF e.name \notin DOMAIN served THEN skipped
                   ELSE [skipped EXCEPT !.gated = Append(@, e.config), !.new = With(@, e.name, served[e.name])]
    /\ served' = Restrict(served, DOMAIN served \ {e.name})
    /\ UNCHANGED <<store, failures, md5, status, holder, pc, model, pipes, loaders, libraries, history>>

\* The configuration is kept also when the model cannot be loaded.
Kept_IfLoaded(c, fails) == IF fails THEN load.new ELSE With(load.new, c.name, c)
Kept(c, fails) == With(load.new, c.name, c)

LoadModel(t, e) ==
    /\ Entry(t, e) /\ Accepted(e) /\ e.name \notin load.seen /\ ~Blocked(e.config)
    /\ \E fails \in MayFail(e.config) :
         /\ load' = [Next1 EXCEPT !.seen = @ \cup {e.name}, !.ok = @ /\ ~fails /\ ~Refused(e.config), !.new = Kept(e.config, fails)]
         /\ model' = [model EXCEPT ![e.name] = Reloaded(e.config, fails)]
         /\ failures' = IF fails THEN failures + 1 ELSE failures
    /\ UNCHANGED <<store, md5, status, holder, pc, served, pipes, loaders, libraries, history>>

\* retireModelsRemovedFromConfigFile: of the models there are, not only of
\* those whose configurations are kept.
Removed == Names \ load.seen

RetireRemoved(t) ==
    /\ holder = t /\ pc[t] = "models" /\ load.todo = <<>>
    /\ model' = [n \in Names |-> IF n \in Removed THEN [model[n] EXCEPT !.serves = FALSE] ELSE model[n]]
    /\ served' = load.new
    /\ Go(t, "pipelines")
    /\ UNCHANGED <<store, failures, md5, status, holder, load, pipes, loaders, libraries, history>>

\* A pipeline is valid when its models serve.
Valid(m, used) == \A n \in used : m[n].serves

\* A library is loaded unless it is there from the same path; when that fails, the
\* one of this name there was remains.  Those not in the list are dropped.
Libraries(items, lost) ==
    (items \ lost) \cup {l \in libraries : \E k \in lost : k.name = l.name}

\* loadCustomNodeLibrariesConfig and loadPipelinesConfig.  That a library could
\* not be loaded is not noticed here.
LoadPipelines(t) ==
    /\ holder = t /\ pc[t] = "pipelines"
    /\ LET list == Parsed[load.content].libraries
       IN  IF ~list.present THEN UNCHANGED <<libraries, failures>>
           ELSE \E lost \in Losses(list.items \ libraries) :
                  /\ libraries' = Libraries(list.items, lost)
                  /\ failures' = failures + Cardinality(lost)
    /\ pipes' = Parsed[load.content].pipes
    /\ load' = [load EXCEPT !.ok = @ /\ Valid(model, pipes')]
    /\ Go(t, "gated")
    /\ UNCHANGED <<store, md5, status, holder, model, served, loaders, history>>

\* tryReloadGatedModelConfigs: a configuration that is blocked again or cannot
\* be loaded is given up; only a kept one is replaced.
LoadGated(t) ==
    /\ holder = t /\ pc[t] = "gated" /\ load.gated # <<>>
    /\ LET c == Head(load.gated)
       IN  \E fails \in MayFail(c) :
             /\ model' = [model EXCEPT ![c.name] = Reloaded(c, fails)]
             /\ failures' = IF fails THEN failures + 1 ELSE failures
             /\ served' = IF fails \/ Rejected(c) \/ c.name \notin DOMAIN served THEN served ELSE [served EXCEPT ![c.name] = c]
             /\ dropped' = (dropped \/ served' = served)
    /\ load' = [load EXCEPT !.gated = Tail(@)]
    /\ UNCHANGED <<store, md5, status, holder, pc, pipes, loaders, libraries, applied, past, answer>>

EndLoad_NewMD5(t) ==
    /\ holder = t /\ pc[t] = "gated" /\ load.gated = <<>>
    /\ IF load.ok THEN Succeeded(t) ELSE Failed(t)
    /\ load' = NoLoad /\ md5' = file
    /\ UNCHANGED <<store, failures, server, dropped, past>>

EndLoad(t) ==
    /\ holder = t /\ pc[t] = "gated" /\ load.gated = <<>>
    /\ IF load.ok THEN Succeeded(t) ELSE Failed(t)
    /\ load' = NoLoad
    /\ UNCHANGED <<store, failures, md5, server, dropped, past>>

-----------------------------------------------------------------------------
\* updateConfigurationWithoutConfigFile: every configuration kept is applied
\* again and the pipelines validated; the answer of a request depends on it.

Update(t) ==
    /\ holder = t /\ pc[t] = "update"
    /\ \E lost \in Losses({n \in DOMAIN served : Needed(served[n])}) :
         /\ model' = [n \in Names |-> IF n \in DOMAIN served THEN Reloaded(served[n], n \in lost) ELSE model[n]]
         /\ failures' = failures + Cardinality(lost)
         /\ IF t = Watcher THEN Go(t, "idle") /\ UNCHANGED answer
            ELSE Go(t, "answered") /\ Answer(t, lost = {} /\ Valid(model', pipes) /\ \A n \in DOMAIN served : ~Rejected(served[n]))
    /\ holder' = None
    /\ UNCHANGED <<store, md5, status, load, served, pipes, loaders, libraries, applied, dropped, past>>

-----------------------------------------------------------------------------
\* Someone writes or removes the file.
Edit(c) ==
    /\ ~cli /\ edits < MaxEdits /\ c # file
    /\ UNCHANGED line /\ file' = c /\ edits' = edits + 1
    /\ written' = written \cup {c} /\ restored' = (restored \/ c \in written)
    /\ past' = [r \in Requests |-> IF pc[r] \in {"idle", "answered"} THEN past[r] ELSE past[r] \cup {c}]
    /\ UNCHANGED <<failures, md5, status, holder, pc, load, server, applied, dropped, answer>>

Started(c) == [kind |-> KindOf(c), serves |-> ~LoaderGone(c), config |-> c]
Absent == [kind |-> "none", serves |-> FALSE, config |-> <<>>]

StartFromFile ==
    /\ line = {} /\ file = Initial
    /\ served = [n \in {c.name : c \in Configs[Initial]} |-> CHOOSE c \in Configs[Initial] : c.name = n]
    /\ pipes = Parsed[Initial].pipes
    /\ loaders = Parsed[Initial].loaders.items /\ libraries = Parsed[Initial].libraries.items

StartFromConfig ==
    /\ file = Missing
    /\ \E v \in CommandLines :
         /\ line = {v}
         /\ CliValid(v) /\ ~Contradictory(startFromConfig(v))
         /\ served = [n \in {v.name} |-> startFromConfig(v)]
    /\ pipes = {} /\ loaders = {} /\ libraries = {}

Init ==
    /\ StartFromFile \/ StartFromConfig
    /\ written = {file} /\ restored = FALSE /\ edits = 0 /\ failures = 0
    /\ md5 = file /\ status = TRUE /\ applied = file
    /\ holder = None /\ pc = [t \in Threads |-> "idle"] /\ load = NoLoad
    /\ model = [n \in Names |-> IF n \in DOMAIN served THEN Started(served[n]) ELSE Absent]
    /\ dropped = FALSE
    /\ past = [r \in Requests |-> {}] /\ answer = [r \in Requests |-> NoAnswer]

Apply(t) ==
    \/ Exists(t) \/ Compare(t) \/ TakeMD5(t) \/ Read(t) \/ LoadLoaders(t)
    \/ \E e \in Range(load.todo) : (SkipEntry(t, e) \/ BadPlugin(t, e) \/ BlockedEntry(t, e) \/ LoadModel(t, e))
    \/ RetireRemoved(t) \/ LoadPipelines(t) \/ LoadGated(t) \/ EndLoad(t) \/ Update(t)

Next ==
    \/ \E t \in Threads : Lock(t) \/ Apply(t)
    \/ \E r \in Requests : Arrive(r)
    \/ \E c \in Contents \cup {Missing} : Edit(c)

\* A thread that has the mutex goes on.  The watcher sleeps at least a second
\* between two cycles, so a request that waits for the mutex gets it.
Fairness ==
    /\ \A t \in Threads : WF_vars(Apply(t))
    /\ WF_vars(Lock(Watcher))
    /\ \A r \in Requests : SF_vars(Lock(r))

Spec == Init /\ [][Next]_vars
FairSpec == Spec /\ Fairness

-----------------------------------------------------------------------------
\* Properties

\* Exactly the models of a content serve, with its settings, but for models
\* without their custom loader.
Same(c, d) == [f \in DOMAIN c \ {"policy"} |-> c[f]] = [f \in DOMAIN d \ {"policy"} |-> d[f]]
Serves(content) ==
    \A n \in Names :
        LET cs == {c \in Configs[content] : c.name = n}
        IN  IF model[n].serves THEN \E c \in cs : Same(model[n].config, c) /\ ~LoaderGone(c)
            ELSE \A c \in cs : LoaderGone(c)

\* OK is true.  Between two cycles, when the status is OK, whatever loads failed
\* half-way before, exactly the models, the loaders and the pipelines of the last
\* content loaded are there, no library but its own is, and the configurations
\* kept for the watcher are its own.  And a reload request that is answered with
\* OK has seen to it that a content is applied that the file had while the
\* request was served, unless the file was given an earlier content again, which
\* a MD5 sum taken before the read can hide.
OkIsTrue ==
    /\ ~cli /\ holder = None /\ status =>
        /\ Serves(applied) /\ pipes = Parsed[applied].pipes
        /\ Range(served) = Configs[applied]
        /\ Parsed[applied].loaders.present => loaders = Parsed[applied].loaders.items
        /\ Parsed[applied].libraries.present =>
             \A l \in libraries : \E k \in Parsed[applied].libraries.items : k.name = l.name
    /\ \A r \in Requests : answer[r].ok /\ ~restored => answer[r].applied \in past[r]

\* A model on the command line gets the settings that the same entry would give
\* it in a file, unless it has a number 0 as its batch size, a shape under the
\* name that stands for no name, or options for sequences beside a stateful flag
\* that is false: config.cpp asks only whether the flag was given.
CliAgrees ==
    \A v \in line :
        \/ v.batch.form = "number" /\ v.batch.value = 0
        \/ ~v.shape.anonymous /\ ANONYMOUS_INPUT_NAME \in DOMAIN v.shape.of
        \/ v.stateful = "false" /\ v.sequences # "absent"
        \/ NodeValid(v) /\ served[v.name] = parseNode(v)

\* A model whose custom loader is gone does not serve for long: the next update
\* retires it, also when the load that took its loader away ended before the
\* models.  It keeps serving only if its new settings are rejected, or if no
\* settings are kept for it to be applied again: a load that came to unsupported
\* plugin keys had loaded the model, or taken out its settings, and no load has
\* succeeded since.
Forgotten(n) == ~status /\ n \notin DOMAIN served
LoadersSettle ==
    \A n \in Names : []<>(\/ ~model[n].serves \/ ~LoaderGone(model[n].config)
                          \/ n \in DOMAIN served /\ Rejected(served[n])
                          \/ Forgotten(n))

\* The watcher brings the server to the content the file is left with, also
\* when models could not be loaded at first, but for blocked configurations
\* that were given up and models that would have to change their kind.  And
\* every request for a reload is answered, whatever the file contains.
Converges ==
    /\ <>[](\/ cli \/ restored \/ dropped \/ file \notin Good
            \/ Serves(file) \/ \E c \in Configs[file] : Refused(c))
    /\ \A r \in Requests : pc[r] = "check" ~> pc[r] = "answered"
=============================================================================
