------------------------ MODULE ConfigReload_proofs ------------------------
(***************************************************************************)
(* For all contents of the file, models, requests and bounds: the status   *)
(* OK is true, a reload request answered with OK has had a content applied *)
(* that the file had meanwhile, and the command line gives a model the     *)
(* settings that a file would.                                             *)
(*                                                                         *)
(* The status speaks of a load that ended long ago.  That it is still true *)
(* rests on what a load has done so far (Progress: as long as nothing was  *)
(* wrong, the entries looked at are the models that serve and the          *)
(* configurations to be kept) and on the updates between two loads finding *)
(* nothing to do (Settled).  The answer to a request rests on the MD5 sum: *)
(* a content the file never had before differs from the sum taken earlier  *)
(* (Sums), so a request that finds them equal finds the file applied, and  *)
(* what is loaded after that was in the file while the request was served  *)
(* (Fresh).                                                                *)
(***************************************************************************)
EXTENDS ConfigReload, SequenceTheorems, TLAPS

-----------------------------------------------------------------------------
\* The types

AnyContent == Contents \cup {Missing}
AnyEntry == UNION {Range(Entries[c]) : c \in Contents}
AnyConfig == (UNION {Configs[k] : k \in Contents}) \cup {startFromConfig(v) : v \in CommandLines}
Fields == Compared \cup {"policy"}

\* Functions from some names to settings.
Maps == UNION {[ns -> AnyConfig] : ns \in SUBSET Names}

Load == [attempt : Nat, content : AnyContent, todo : Seq(AnyEntry), seen : SUBSET Names, new : Maps,
         gated : Seq(AnyConfig), ok : BOOLEAN]
AnAnswer == [given : BOOLEAN, ok : BOOLEAN, applied : AnyContent]
Model == [kind : {"none", "stateful", "stateless"}, serves : BOOLEAN, config : AnyConfig \cup {<<>>}]

AfterRead == {"loaders", "models", "pipelines", "gated"}
LoadPCs == AfterRead \cup {"md5", "read"}
HolderPCs == LoadPCs \cup {"exists", "compare", "update"}
WaitPCs == {"idle", "check", "load", "last", "answered"}
PCs == HolderPCs \cup WaitPCs

Types ==
    /\ file \in AnyContent /\ written \subseteq AnyContent /\ restored \in BOOLEAN
    /\ md5 \in AnyContent /\ status \in BOOLEAN
    /\ holder \in Threads \cup {None} /\ pc \in [Threads -> PCs]
    /\ load \in Load /\ load.attempt < MAX_CONFIG_JSON_READ_RETRY_COUNT
    /\ model \in [Names -> Model] /\ \A n \in Names : model[n].serves => model[n].config \in AnyConfig
    /\ served \in Maps /\ applied \in AnyContent
    /\ past \in [Requests -> SUBSET AnyContent] /\ answer \in [Requests -> AnAnswer]

\* Only the thread that holds configMtx is at a place that needs it.
Mutex == \A t \in Threads : pc[t] \in HolderPCs <=> holder = t

\* The thread that loads the configuration, if there is one, and whether it has
\* read the file.
Loading == \E t \in Threads : pc[t] \in LoadPCs
HasRead == \E t \in Threads : pc[t] \in AfterRead

Named ==
    /\ \A n \in DOMAIN served : served[n].name = n
    /\ \A n \in DOMAIN load.new : load.new[n].name = n /\ n \in load.seen

-----------------------------------------------------------------------------
\* The status

\* What OK promises of a content.
Truth(c) ==
    /\ Serves(c) /\ pipes = Parsed[c].pipes
    /\ Range(served) = Configs[c]
    /\ Parsed[c].loaders.present => loaders = Parsed[c].loaders.items
    /\ Parsed[c].libraries.present =>
         \A l \in libraries : \E k \in Parsed[c].libraries.items : k.name = l.name
Distinct(c) == \A i, j \in DOMAIN Entries[c] : Entries[c][i].name = Entries[c][j].name => i = j

Settled ==
    ~cli => /\ applied \in Contents
            /\ status /\ ~Loading => Truth(applied) /\ Distinct(applied)

\* The model of an entry that was loaded without an error.
Follows(e) ==
    IF model[e.name].serves THEN Same(model[e.name].config, e.config) /\ ~LoaderGone(e.config)
    ELSE LoaderGone(e.config)

\* The entries a load has looked at, when nothing was wrong so far.
Done == Len(Entries[load.content]) - Len(load.todo)
InOrder ==
    /\ Len(load.todo) <= Len(Entries[load.content])
    /\ \A i \in 1 .. Len(load.todo) : load.todo[i] = Entries[load.content][Done + i]
LookedAt ==
    /\ load.seen = {Entries[load.content][i].name : i \in 1 .. Done}
    /\ \A i, j \in 1 .. Done : Entries[load.content][i].name = Entries[load.content][j].name => i = j
    /\ \A i \in 1 .. Done : Follows(Entries[load.content][i])
    /\ DOMAIN load.new = load.seen
    /\ \A i \in 1 .. Done : load.new[Entries[load.content][i].name] = Entries[load.content][i].config
LoadersDone == Parsed[load.content].loaders.present => loaders = Parsed[load.content].loaders.items

\* What is known of the load at each of its places.
At(p) ==
    /\ p = "read" => load.ok /\ load.seen = {} /\ load.new = <<>> /\ load.gated = <<>>
    /\ p \in AfterRead => load.content \in Contents /\ (load.ok => load.gated = <<>>)
    /\ p = "loaders" => /\ load.todo = Entries[load.content] /\ load.ok
                        /\ load.seen = {} /\ load.new = <<>>
    /\ p = "models" => InOrder /\ (load.ok => LookedAt /\ LoadersDone)
    /\ p = "pipelines" /\ load.ok =>
         LoadersDone /\ Serves(load.content) /\ Range(served) = Configs[load.content] /\ Distinct(load.content)
    /\ p = "gated" /\ load.ok => Truth(load.content) /\ Distinct(load.content)
Progress == \A t \in Threads : At(pc[t])

-----------------------------------------------------------------------------
\* The answers

\* As long as no earlier content comes back, a sum that fits the file was taken
\* of this content, and so was what has been read and applied since.
Sums ==
    /\ file \in written /\ md5 \in written
    /\ ~restored /\ md5 = file =>
         /\ HasRead => load.content = file
         /\ ~Loading /\ status => applied = file

\* What is loaded, or was loaded last, when a request no longer needs a load of
\* its own, was in the file while the request was served.
Fresh ==
    \A r \in Requests :
        /\ pc[r] \notin {"idle", "answered"} => file \in past[r]
        /\ pc[r] \in AfterRead => load.content \in past[r]
        /\ ~restored /\ pc[r] \in {"last", "update"} =>
             applied \in past[r] /\ (HasRead => load.content \in past[r])
        /\ answer[r].ok => answer[r].given
        /\ ~restored /\ answer[r].ok => answer[r].applied \in past[r]

\* Without a file there is nothing to load.
CommandLine ==
    \A v \in line :
        /\ v \in CommandLines /\ CliValid(v)
        /\ served = [n \in {v.name} |-> startFromConfig(v)]
        /\ \A t \in Threads : pc[t] \in {"idle", "last", "update", "answered"}
        /\ file = Missing /\ applied = Missing

ReloadInv == Types /\ Mutex /\ Named /\ Settled /\ Progress /\ Sums /\ Fresh /\ CommandLine

-----------------------------------------------------------------------------
\* Settings, entries and maps

\* Settings have the same fields, wherever they come from.
LEMMA SettingsFields ==
    ASSUME NEW v, NEW b, NEW s
    PROVE  DOMAIN Settings(v, b, s) = Fields /\ Settings(v, b, s).name = v.name
BY DEF Settings, Fields, Compared

\* The entries of a content.
LEMMA EntriesAre ==
    ASSUME NEW c \in Contents
    PROVE  /\ Entries[c] = [i \in 1 .. Len(Parsed[c].models) |-> Seen(Parsed[c].models[i])]
           /\ Entries[c] \in Seq(AnyEntry) /\ Len(Entries[c]) \in Nat
           /\ DOMAIN Entries[c] = 1 .. Len(Entries[c])
<1>1. Len(Parsed[c].models) \in Nat /\ DOMAIN Parsed[c].models = 1 .. Len(Parsed[c].models)
  BY ConfigAssumption
<1>2. Entries[c] = [i \in 1 .. Len(Parsed[c].models) |-> Seen(Parsed[c].models[i])]
  BY <1>1 DEF Entries
<1>3. \A i \in 1 .. Len(Parsed[c].models) : Entries[c][i] \in AnyEntry
  BY <1>2 DEF AnyEntry, Range
<1>4. Entries[c] \in Seq(AnyEntry)
  <2>1. PICK m, f : m = Len(Parsed[c].models) /\ f = Entries[c]
    OBVIOUS
  <2>2. m \in Nat /\ f \in [1 .. m -> AnyEntry]
    BY <1>1, <1>2, <1>3, <2>1
  <2> QED
    BY <2>1, <2>2
<1> QED
  BY <1>2, <1>4, LenProperties

\* An entry of a content has a name of Names and settings with all the fields.
LEMMA EntryIs ==
    ASSUME NEW c \in Contents, NEW i \in 1 .. Len(Entries[c])
    PROVE  /\ Entries[c][i] \in AnyEntry /\ Entries[c][i].name \in Names
           /\ Entries[c][i].config.name = Entries[c][i].name
           /\ Entries[c][i].config \in Configs[c]
           /\ Entries[c][i].config \in AnyConfig /\ DOMAIN Entries[c][i].config = Fields
<1>1. i \in DOMAIN Entries[c] /\ i \in 1 .. Len(Parsed[c].models)
  BY EntriesAre
<1>2. Entries[c][i] \in Range(Entries[c])
  BY <1>1 DEF Range
<1>3. Entries[c][i].name \in Names
  BY <1>2, ConfigAssumption
<1>4. Entries[c][i] = Seen(Parsed[c].models[i])
  BY <1>1, EntriesAre
<1>5. /\ Entries[c][i].name = Parsed[c].models[i].name
      /\ Entries[c][i].config = parseNode(Parsed[c].models[i])
  BY <1>4 DEF Seen
<1>6. Entries[c][i].config.name = Entries[c][i].name /\ DOMAIN Entries[c][i].config = Fields
  BY <1>5, SettingsFields DEF parseNode
<1>7. Entries[c][i].config \in Configs[c]
  BY <1>2 DEF Configs
<1> QED
  BY <1>2, <1>3, <1>6, <1>7 DEF AnyEntry, AnyConfig

\* The settings of a content are those of its entries.
LEMMA ConfigOfEntry ==
    ASSUME NEW c \in Contents, NEW k \in Configs[c]
    PROVE  \E i \in 1 .. Len(Entries[c]) : k = Entries[c][i].config
<1>1. PICK e \in Range(Entries[c]) : k = e.config
  BY DEF Configs
<1>2. PICK i \in DOMAIN Entries[c] : e = Entries[c][i]
  BY <1>1 DEF Range
<1> QED
  BY <1>1, <1>2, EntriesAre

\* The same of an entry, whichever content it is of.
LEMMA AnyEntryIs ==
    ASSUME NEW e \in AnyEntry
    PROVE  /\ e.name \in Names /\ e.config.name = e.name
           /\ e.config \in AnyConfig /\ DOMAIN e.config = Fields
<1>1. PICK c \in Contents : e \in Range(Entries[c])
  BY DEF AnyEntry
<1>2. PICK i \in DOMAIN Entries[c] : e = Entries[c][i]
  BY <1>1 DEF Range
<1> QED
  BY <1>2, EntriesAre, EntryIs

\* Settings from a file or from the command line have the same fields and a name.
LEMMA AnyConfigIs ==
    ASSUME NEW c \in AnyConfig
    PROVE  DOMAIN c = Fields /\ c.name \in Names
<1>1. CASE \E k \in Contents : c \in Configs[k]
  <2>1. PICK k \in Contents : c \in Configs[k]
    BY <1>1
  <2>2. PICK i \in 1 .. Len(Entries[k]) : c = Entries[k][i].config
    BY <2>1, ConfigOfEntry
  <2> QED
    BY <2>2, EntryIs
<1>2. CASE \E v \in CommandLines : c = startFromConfig(v)
  BY <1>2, SettingsFields, ConfigAssumption DEF startFromConfig
<1>3. c \in (UNION {Configs[k] : k \in Contents}) \/ c \in {startFromConfig(v) : v \in CommandLines}
  BY DEF AnyConfig
<1>4. c \in (UNION {Configs[k] : k \in Contents}) => \E k \in Contents : c \in Configs[k]
  OBVIOUS
<1> QED
  BY <1>1, <1>2, <1>3, <1>4

\* What the code compares one by one is all of the settings but the policy.
LEMMA SameIsNotReloaded ==
    ASSUME NEW c, NEW d, DOMAIN c = Fields, DOMAIN d = Fields
    PROVE  Same(c, d) <=> ~isReloadRequired(c, d)
<1>1. Fields \ {"policy"} = Compared
  BY DEF Fields, Compared
<1>2. Same(c, d) <=> [f \in Compared |-> c[f]] = [f \in Compared |-> d[f]]
  BY <1>1 DEF Same
<1>3. isReloadRequired(c, d) <=> \E f \in Compared : c[f] # d[f]
  BY DEF isReloadRequired
<1> HIDE DEF Compared
<1> QED
  BY <1>2, <1>3

\* A map is a function from names to settings.
LEMMA MapIs ==
    ASSUME NEW f \in Maps
    PROVE  /\ DOMAIN f \subseteq Names /\ f = [n \in DOMAIN f |-> f[n]]
           /\ \A n \in DOMAIN f : f[n] \in AnyConfig
<1>1. PICK ns \in SUBSET Names : f \in [ns -> AnyConfig]
  BY DEF Maps
<1> QED
  BY <1>1

\* A function from some names to settings is a map.
LEMMA IsMap ==
    ASSUME NEW ns \in SUBSET Names, NEW f \in [ns -> AnyConfig]
    PROVE  f \in Maps
BY DEF Maps

\* No settings at all are a map.
LEMMA EmptyMap == <<>> \in Maps /\ DOMAIN <<>> = {}
<1>1. <<>> \in [{} -> AnyConfig] /\ DOMAIN <<>> = {}
  OBVIOUS
<1> QED
  BY <1>1, IsMap

\* A map with the settings of one name set (newModelConfigs).
LEMMA WithMap ==
    ASSUME NEW f \in Maps, NEW x \in Names, NEW y \in AnyConfig
    PROVE  /\ With(f, x, y) \in Maps /\ DOMAIN With(f, x, y) = DOMAIN f \cup {x}
           /\ With(f, x, y)[x] = y
           /\ \A n \in DOMAIN f : n # x => With(f, x, y)[n] = f[n]
<1>1. DOMAIN f \subseteq Names /\ \A n \in DOMAIN f : f[n] \in AnyConfig
  BY MapIs
<1>2. With(f, x, y) \in [DOMAIN f \cup {x} -> AnyConfig]
  BY <1>1 DEF With
<1>3. With(f, x, y) \in Maps
  BY <1>1, <1>2, IsMap
<1> QED
  BY <1>3 DEF With

\* A map without some of its names (servedModelConfigs.erase).
LEMMA RestrictMap ==
    ASSUME NEW f \in Maps, NEW ns \in SUBSET DOMAIN f
    PROVE  /\ Restrict(f, ns) \in Maps /\ DOMAIN Restrict(f, ns) = ns
           /\ \A n \in ns : Restrict(f, ns)[n] = f[n]
<1>1. DOMAIN f \subseteq Names /\ \A n \in DOMAIN f : f[n] \in AnyConfig
  BY MapIs
<1>2. Restrict(f, ns) \in [ns -> AnyConfig]
  BY <1>1 DEF Restrict
<1>3. ns \in SUBSET Names
  BY <1>1
<1> QED
  BY <1>2, <1>3, IsMap DEF Restrict

-----------------------------------------------------------------------------
\* Who holds the mutex

\* No place where configMtx is held is one where it is not.
LEMMA Disjoint ==
    /\ AfterRead \subseteq LoadPCs /\ LoadPCs \subseteq HolderPCs /\ HolderPCs \subseteq PCs
    /\ WaitPCs \subseteq PCs /\ WaitPCs \cap HolderPCs = {}
BY DEF AfterRead, LoadPCs, HolderPCs, WaitPCs, PCs

\* A step of the thread that holds the mutex, or takes it: nobody else is in a
\* place that needs it.
LEMMA Alone ==
    ASSUME Types, Mutex, NEW t \in Threads, holder = t \/ holder = None,
           NEW p \in PCs, Go(t, p)
    PROVE  /\ pc'[t] = p /\ pc' \in [Threads -> PCs]
           /\ \A u \in Threads : u # t => pc'[u] = pc[u] /\ pc[u] \notin HolderPCs
           /\ Loading <=> pc[t] \in LoadPCs
           /\ Loading' <=> p \in LoadPCs
           /\ HasRead <=> pc[t] \in AfterRead
           /\ HasRead' <=> p \in AfterRead
<1>1. pc \in [Threads -> PCs]
  BY DEF Types
<1>2. pc'[t] = p /\ pc' \in [Threads -> PCs] /\ \A u \in Threads : u # t => pc'[u] = pc[u]
  BY <1>1 DEF Go
<1>3. \A u \in Threads : u # t => pc[u] \notin HolderPCs
  BY ConfigAssumption DEF Mutex
<1>4. \A u \in Threads : u # t => pc[u] \notin LoadPCs /\ pc[u] \notin AfterRead
  BY <1>3, Disjoint
<1>5. (Loading <=> pc[t] \in LoadPCs) /\ (HasRead <=> pc[t] \in AfterRead)
  BY <1>4 DEF Loading, HasRead
<1>6. (Loading' <=> p \in LoadPCs) /\ (HasRead' <=> p \in AfterRead)
  BY <1>2, <1>4 DEF Loading, HasRead
<1> QED
  BY <1>2, <1>3, <1>5, <1>6

\* It keeps the mutex, or gives it back.
LEMMA MutexKept ==
    ASSUME Types, Mutex, NEW t \in Threads, holder = t \/ holder = None, NEW p \in PCs, Go(t, p),
           \/ p \in HolderPCs /\ holder' = t
           \/ p \in WaitPCs /\ holder' = None
    PROVE  Mutex'
<1>1. pc'[t] = p /\ \A u \in Threads : u # t => pc'[u] = pc[u] /\ pc[u] \notin HolderPCs
  BY Alone
<1>2. p \in WaitPCs => p \notin HolderPCs
  BY Disjoint
<1> QED
  BY <1>1, <1>2, ConfigAssumption DEF Mutex

\* What is known at a place that is none of a load is nothing.
LEMMA AtOther ==
    ASSUME NEW p, p \notin LoadPCs
    PROVE  At(p)
BY DEF At, LoadPCs, AfterRead

\* So only the thread that moves matters.
LEMMA ProgressAt ==
    ASSUME Types, Mutex, NEW t \in Threads, holder = t \/ holder = None,
           NEW p \in PCs, Go(t, p), At(p)'
    PROVE  Progress'
<1>1. pc'[t] = p /\ \A u \in Threads : u # t => pc'[u] = pc[u] /\ pc[u] \notin HolderPCs
  BY Alone
<1>2. \A u \in Threads : u # t => pc'[u] \notin LoadPCs
  BY <1>1, Disjoint
<1>3. \A u \in Threads : u # t => At(pc[u])'
  BY <1>2 DEF At, LoadPCs, AfterRead
<1>4. At(pc[t])'
  BY <1>1 DEF At
<1> QED
  BY <1>3, <1>4 DEF Progress

\* Who looks at the file was not started without one.
LEMMA NotCli ==
    ASSUME CommandLine, NEW t \in Threads, pc[t] \notin {"idle", "last", "update", "answered"}
    PROVE  line = {} /\ ~cli
BY DEF CommandLine, cli

\* An answer leaves the others.
LEMMA AnswerIs ==
    ASSUME Types, NEW r \in Requests, NEW ok \in BOOLEAN, Answer(r, ok)
    PROVE  /\ answer' \in [Requests -> AnAnswer]
           /\ answer'[r] = [given |-> TRUE, ok |-> ok, applied |-> applied]
           /\ \A q \in Requests : q # r => answer'[q] = answer[q]
BY DEF Types, Answer, AnAnswer

\* What is known of a load does not depend on the rest of the state.
LEMMA AtSame ==
    ASSUME UNCHANGED <<load, model, served, pipes, loaders, libraries>>, NEW p, At(p)
    PROVE  At(p)'
<1>1. Distinct(load.content)' <=> Distinct(load.content)
  BY DEF Distinct
<1>2. Serves(load.content)' <=> Serves(load.content)
  BY DEF Serves, LoaderGone
<1>3. Truth(load.content)' <=> Truth(load.content)
  BY <1>2 DEF Truth
<1>4. LoadersDone' <=> LoadersDone
  BY DEF LoadersDone
<1>5. Done' = Done
  BY DEF Done
<1>6. InOrder' <=> InOrder
  BY <1>5 DEF InOrder
<1>7. \A e : Follows(e)' <=> Follows(e)
  BY DEF Follows, LoaderGone
<1>8. LookedAt' <=> LookedAt
  BY <1>5, <1>7 DEF LookedAt
<1> QED
  BY <1>1, <1>2, <1>3, <1>4, <1>6, <1>8 DEF At

-----------------------------------------------------------------------------
\* Between the loads

\* Steps that only move a thread, outside of a load.
LEMMA QuietStep ==
    ASSUME ReloadInv, NEW t \in Threads, holder = t \/ holder = None, NEW p \in PCs, Go(t, p),
           \/ p \in HolderPCs /\ holder' = t
           \/ p \in WaitPCs /\ holder' = None,
           pc[t] \notin LoadPCs, p \notin LoadPCs \/ p = "md5",
           UNCHANGED <<line, file, written, restored, md5, status, load, model, served, pipes, loaders, libraries, applied, past>>,
           UNCHANGED answer \/ (t \in Requests /\ Answer(t, FALSE)),
           t \in Requests /\ p \notin {"idle", "answered"} => pc[t] \notin {"idle", "answered"},
           t \in Requests /\ p \in {"last", "update"} /\ ~restored => applied \in past[t],
           line = {} \/ p \in {"idle", "last", "update", "answered"}
    PROVE  ReloadInv'
<1> USE DEF ReloadInv
<1>1. /\ pc'[t] = p /\ pc' \in [Threads -> PCs]
      /\ \A u \in Threads : u # t => pc'[u] = pc[u] /\ pc[u] \notin HolderPCs
      /\ ~Loading /\ ~HasRead /\ ~HasRead'
      /\ Loading' <=> p \in LoadPCs
  <2>1. p \notin AfterRead /\ pc[t] \notin AfterRead
    BY DEF LoadPCs, AfterRead
  <2> QED
    BY <2>1, Alone
<1>2. /\ answer' \in [Requests -> AnAnswer]
      /\ \A r \in Requests : answer'[r] = answer[r] \/ (answer'[r].given /\ ~answer'[r].ok)
  <2>1. CASE UNCHANGED answer
    BY <2>1 DEF Types
  <2>2. CASE t \in Requests /\ Answer(t, FALSE)
    <3>1. /\ answer' \in [Requests -> AnAnswer]
          /\ answer'[t] = [given |-> TRUE, ok |-> FALSE, applied |-> applied]
          /\ \A r \in Requests : r # t => answer'[r] = answer[r]
      BY <2>2, AnswerIs
    <3>2. answer'[t].given /\ ~answer'[t].ok
      BY <3>1
    <3> QED
      BY <3>1, <3>2
  <2> QED
    BY <2>1, <2>2
<1>3. Types'
  BY <1>1, <1>2 DEF Types
<1>4. Mutex'
  BY MutexKept
<1>5. Named'
  BY DEF Named
<1>6. Settled'
  <2>1. cli' = cli
    BY DEF cli
  <2>2. ~cli => applied \in Contents /\ (status => Truth(applied) /\ Distinct(applied))
    BY <1>1 DEF Settled
  <2>3. Truth(applied) => Truth(applied)'
    BY DEF Truth, Serves, LoaderGone
  <2>4. Distinct(applied) => Distinct(applied)'
    BY DEF Distinct
  <2> QED
    BY <2>1, <2>2, <2>3, <2>4 DEF Settled
<1>7. Progress'
  <2>1. At(p)'
    BY DEF At, LoadPCs, AfterRead
  <2> QED
    BY <2>1, ProgressAt
<1>8. Sums'
  BY <1>1 DEF Sums
<1>9. Fresh'
  <2> SUFFICES ASSUME NEW r \in Requests
               PROVE  /\ pc'[r] \notin {"idle", "answered"} => file \in past[r]
                      /\ pc'[r] \notin AfterRead
                      /\ ~restored /\ pc'[r] \in {"last", "update"} => applied \in past[r]
                      /\ answer'[r].ok => answer'[r].given
                      /\ ~restored /\ answer'[r].ok => answer'[r].applied \in past[r]
    BY <1>1 DEF Fresh
  <2>1. r \in Threads
    BY DEF Threads
  <2>2. pc'[r] \notin AfterRead
    BY <1>1, <2>1 DEF HasRead
  <2>3. pc'[r] \notin {"idle", "answered"} => file \in past[r]
    BY <1>1, <2>1 DEF Fresh
  <2>4. ~restored /\ pc'[r] \in {"last", "update"} => applied \in past[r]
    BY <1>1, <2>1 DEF Fresh
  <2>5. (answer'[r].ok => answer'[r].given) /\ (~restored /\ answer'[r].ok => answer'[r].applied \in past[r])
    BY <1>2 DEF Fresh
  <2> QED
    BY <2>2, <2>3, <2>4, <2>5
<1>10. CommandLine'
  BY <1>1 DEF CommandLine
<1> QED
  BY <1>3, <1>4, <1>5, <1>6, <1>7, <1>8, <1>9, <1>10

\* Taking configMtx, by the watcher or by a request for one of its three parts.
LEMMA LockKeeps ==
    ASSUME ReloadInv, NEW t \in Threads, Lock(t)
    PROVE  ReloadInv'
<1>1. PICK p : /\ Go(t, p)
               /\ \/ pc[t] = "idle" /\ t = Watcher /\ p = (IF cli THEN "update" ELSE "exists")
                  \/ pc[t] = "check" /\ p = "exists"
                  \/ pc[t] = "load" /\ p = "md5"
                  \/ pc[t] = "last" /\ p = "update"
  BY DEF Lock
<1>2. holder = None /\ holder' = t
  BY DEF Lock
<1>3. /\ p \in PCs /\ p \in HolderPCs /\ pc[t] \notin LoadPCs /\ (p \notin LoadPCs \/ p = "md5")
      /\ p \notin {"idle", "answered"}
  BY <1>1 DEF PCs, HolderPCs, LoadPCs, AfterRead
<1>4. UNCHANGED <<line, file, written, restored, md5, status, load, model, served, pipes, loaders, libraries, applied, past>>
  BY DEF Lock, store, server, history
<1>5. UNCHANGED answer
  BY DEF Lock, history
<1>6. t \in Requests => t # Watcher
  BY ConfigAssumption
<1>7. t \in Requests /\ p \in {"last", "update"} /\ ~restored => applied \in past[t]
  <2>1. t \in Requests /\ p \in {"last", "update"} => pc[t] = "last"
    BY <1>1, <1>6
  <2> QED
    BY <2>1 DEF ReloadInv, Fresh
<1>8. line = {} \/ p \in {"idle", "last", "update", "answered"}
  <2>1. CASE pc[t] \in {"check", "load"}
    BY <2>1, NotCli DEF ReloadInv
  <2> QED
    BY <1>1, <2>1 DEF cli
<1>9. t \in Requests => pc[t] \notin {"idle", "answered"}
  BY <1>1, <1>6
<1> QED
  BY <1>1, <1>2, <1>3, <1>4, <1>5, <1>7, <1>8, <1>9, QuietStep

\* Looking whether there is a file (configFileReloadNeeded).
LEMMA ExistsKeeps ==
    ASSUME ReloadInv, NEW t \in Threads, Exists(t)
    PROVE  ReloadInv'
<1>1. holder = t /\ pc[t] = "exists" /\ pc[t] \notin LoadPCs
  BY DEF Exists, LoadPCs, AfterRead
<1>2. UNCHANGED <<line, file, written, restored, md5, status, load, model, served, pipes, loaders, libraries, applied, past>>
  BY DEF Exists, store, server
<1>3. line = {}
  BY <1>1, NotCli DEF ReloadInv
<1>4. t \in Requests => t # Watcher
  BY ConfigAssumption
<1>5. t # Watcher => t \in Requests
  BY DEF Threads
<1>6. /\ "compare" \in PCs /\ "compare" \in HolderPCs /\ "compare" \notin LoadPCs
      /\ "update" \in PCs /\ "update" \in HolderPCs /\ "update" \notin LoadPCs
      /\ "answered" \in PCs /\ "answered" \in WaitPCs /\ "answered" \notin LoadPCs
  BY DEF PCs, HolderPCs, WaitPCs, LoadPCs, AfterRead
<1>7. CASE Go(t, "compare") /\ UNCHANGED <<holder, answer>>
  BY <1>1, <1>2, <1>3, <1>6, <1>7, QuietStep
<1>8. CASE t = Watcher /\ Go(t, "update") /\ UNCHANGED <<holder, answer>>
  BY <1>1, <1>2, <1>3, <1>4, <1>6, <1>8, QuietStep
<1>9. CASE t # Watcher /\ Go(t, "answered") /\ holder' = None /\ Answer(t, FALSE)
  BY <1>1, <1>2, <1>3, <1>5, <1>6, <1>9, QuietStep
<1> QED
  BY <1>7, <1>8, <1>9 DEF Exists

\* A request that finds the sum equal and the status OK finds the file applied.
LEMMA CompareKeeps ==
    ASSUME ReloadInv, NEW t \in Threads, Compare(t)
    PROVE  ReloadInv'
<1>1. holder = t /\ pc[t] = "compare" /\ pc[t] \notin LoadPCs /\ pc[t] \notin {"idle", "answered"}
  BY DEF Compare, LoadPCs, AfterRead
<1>2. UNCHANGED <<line, file, written, restored, md5, status, load, model, served, pipes, loaders, libraries, applied, past>>
  BY DEF Compare, store, server, history
<1>3. line = {} /\ UNCHANGED answer
  BY <1>1, NotCli DEF ReloadInv, Compare, history
<1>4. t \in Requests <=> t # Watcher
  BY ConfigAssumption DEF Threads
<1>5. PICK p : /\ Go(t, p)
               /\ \/ t = Watcher /\ p = (IF md5 # file THEN "md5" ELSE "update") /\ UNCHANGED holder
                  \/ t # Watcher /\ p = (IF md5 # file \/ ~status THEN "load" ELSE "last") /\ holder' = None
  BY DEF Compare, Checked
<1>6. /\ p \in PCs /\ (p \notin LoadPCs \/ p = "md5")
      /\ t = Watcher => p \in HolderPCs
      /\ t # Watcher => p \in WaitPCs
  BY <1>5 DEF PCs, HolderPCs, WaitPCs, LoadPCs, AfterRead
<1>7. ASSUME t \in Requests, p \in {"last", "update"}, ~restored
      PROVE  applied \in past[t]
  <2>1. md5 = file /\ status
    BY <1>4, <1>5, <1>7
  <2>2. ~Loading
    <3>1. \A u \in Threads : pc[u] \in LoadPCs => u = t
      BY <1>1, Disjoint DEF ReloadInv, Mutex
    <3> QED
      BY <1>1, <3>1 DEF Loading
  <2>3. applied = file
    BY <1>7, <2>1, <2>2 DEF ReloadInv, Sums
  <2> QED
    BY <1>1, <1>7, <2>3 DEF ReloadInv, Fresh
<1> QED
  BY <1>1, <1>2, <1>3, <1>4, <1>5, <1>6, <1>7, QuietStep

-----------------------------------------------------------------------------
\* Arrivals and edits

\* A request arrives: of the past of the file it has seen what is there now.
LEMMA ArriveKeeps ==
    ASSUME ReloadInv, NEW r \in Requests, Arrive(r)
    PROVE  ReloadInv'
<1> USE DEF ReloadInv
<1>1. PICK p \in {"last", "check"} : p = (IF cli THEN "last" ELSE "check") /\ Go(r, p)
  BY DEF Arrive
<1>2. /\ pc[r] = "idle" /\ ~answer[r].given
      /\ past' = [past EXCEPT ![r] = {file}]
      /\ UNCHANGED <<line, file, written, restored, md5, status, holder, load, model, served, pipes, loaders, libraries, applied, answer>>
  BY DEF Arrive, store, server
<1>3. r \in Threads /\ p \in PCs /\ p \notin HolderPCs /\ pc[r] \notin HolderPCs
  BY <1>1, <1>2 DEF Threads, PCs, WaitPCs, HolderPCs, LoadPCs, AfterRead
<1>4. pc' \in [Threads -> PCs] /\ pc'[r] = p /\ \A u \in Threads : u # r => pc'[u] = pc[u]
  BY <1>1, <1>3 DEF Go, Types
<1>5. /\ p \notin LoadPCs /\ pc[r] \notin LoadPCs /\ p \notin AfterRead /\ pc[r] \notin AfterRead
  BY <1>3, Disjoint
<1>6. (Loading' <=> Loading) /\ (HasRead' <=> HasRead)
  BY <1>3, <1>4, <1>5 DEF Loading, HasRead
<1>7. past' \in [Requests -> SUBSET AnyContent] /\ past'[r] = {file} /\ \A q \in Requests : q # r => past'[q] = past[q]
  BY <1>2 DEF Types
<1>8. Types'
  BY <1>2, <1>4, <1>7 DEF Types
<1>9. Mutex'
  BY <1>2, <1>3, <1>4 DEF Mutex
<1>10. Named'
  BY <1>2 DEF Named
<1>11. Settled'
  <2>1. (cli' <=> cli) /\ (Truth(applied) => Truth(applied)') /\ (Distinct(applied) => Distinct(applied)')
    BY <1>2 DEF cli, Truth, Serves, LoaderGone, Distinct
  <2> QED
    BY <1>2, <1>6, <2>1 DEF Settled
<1>12. Progress'
  <2>1. \A u \in Threads : u # r => At(pc[u])'
    <3> TAKE u \in Threads
    <3>1. At(pc[u])
      BY DEF Progress
    <3>2. UNCHANGED <<load, model, served, pipes, loaders, libraries>>
      BY <1>2
    <3>3. u # r => pc'[u] = pc[u]
      BY <1>4
    <3>4. PICK q : q = pc[u]
      OBVIOUS
    <3>5. At(q)'
      BY <3>1, <3>2, <3>4, AtSame
    <3> QED
      BY <3>3, <3>4, <3>5 DEF At
  <2>2. At(pc[r])'
    BY <1>4, <1>5 DEF At, LoadPCs, AfterRead
  <2> QED
    BY <2>1, <2>2 DEF Progress
<1>13. Sums'
  BY <1>2, <1>6 DEF Sums
<1>14. Fresh'
  <2>1. \A q \in Requests : q \in Threads /\ (q # r => pc'[q] = pc[q] /\ past'[q] = past[q])
    BY <1>4, <1>7 DEF Threads
  <2>2. p = "last" => applied = file /\ ~HasRead
    <3>1. p = "last" => line # {}
      BY <1>1 DEF cli
    <3>2. line # {} => applied = file /\ ~HasRead
      BY DEF CommandLine, HasRead, AfterRead
    <3> QED
      BY <3>1, <3>2
  <2>3. ~answer[r].ok
    BY <1>2 DEF Fresh
  <2> QED
    BY <1>1, <1>2, <1>4, <1>5, <1>6, <1>7, <2>1, <2>2, <2>3 DEF Fresh
<1>15. CommandLine'
  BY <1>1, <1>2, <1>4 DEF CommandLine, cli
<1> QED
  BY <1>8, <1>9, <1>10, <1>11, <1>12, <1>13, <1>14, <1>15

\* A content that is new to the file has another sum than any before.
LEMMA EditKeeps ==
    ASSUME ReloadInv, NEW c \in Contents \cup {Missing}, Edit(c)
    PROVE  ReloadInv'
<1> USE DEF ReloadInv
<1>1. /\ ~cli /\ line = {} /\ file' = c /\ written' = written \cup {c} /\ restored' = (restored \/ c \in written)
      /\ UNCHANGED <<line, md5, status, holder, pc, load, model, served, pipes, loaders, libraries, applied, answer>>
  BY DEF Edit, server, cli
<1>2. past' = [r \in Requests |-> IF pc[r] \in {"idle", "answered"} THEN past[r] ELSE past[r] \cup {c}]
  BY DEF Edit
<1>3. (Loading' <=> Loading) /\ (HasRead' <=> HasRead)
  BY <1>1 DEF Loading, HasRead
<1>4. /\ past' \in [Requests -> SUBSET AnyContent]
      /\ \A r \in Requests : past[r] \subseteq past'[r] /\ (pc[r] \notin {"idle", "answered"} => c \in past'[r])
  BY <1>2 DEF Types, AnyContent
<1>5. Types'
  BY <1>1, <1>4 DEF Types, AnyContent
<1>6. Mutex'
  BY <1>1 DEF Mutex
<1>7. Named'
  BY <1>1 DEF Named
<1>8. Settled'
  <2>1. (Truth(applied) => Truth(applied)') /\ (Distinct(applied) => Distinct(applied)')
    BY <1>1 DEF Truth, Serves, LoaderGone, Distinct
  <2> QED
    BY <1>1, <1>3, <2>1 DEF Settled
<1>9. Progress'
  <2>1. UNCHANGED <<load, model, served, pipes, loaders, libraries>>
    BY <1>1
  <2> SUFFICES ASSUME NEW u \in Threads
               PROVE  At(pc[u])'
    BY DEF Progress
  <2>2. PICK q : q = pc[u]
    OBVIOUS
  <2>3. At(q)
    BY <2>2 DEF Progress
  <2>4. At(q)'
    BY <2>1, <2>3, AtSame
  <2>5. pc'[u] = q
    BY <1>1, <2>2
  <2> QED
    BY <2>4, <2>5 DEF At
<1>10. Sums'
  BY <1>1, <1>3 DEF Sums
<1>11. Fresh'
  <2>1. ~restored' => ~restored
    BY <1>1 DEF Types
  <2> QED
    BY <1>1, <1>3, <1>4, <2>1 DEF Fresh
<1>12. CommandLine'
  BY <1>1 DEF CommandLine
<1> QED
  BY <1>5, <1>6, <1>7, <1>8, <1>9, <1>10, <1>11, <1>12

-----------------------------------------------------------------------------
\* The beginning and the end of a load

\* Before the first read there is no load.
LEMMA NoLoadIs == NoLoad \in Load /\ NoLoad.attempt = 0 /\ 0 < MAX_CONFIG_JSON_READ_RETRY_COUNT
<1>1. <<>> \in Seq(AnyEntry) /\ <<>> \in Seq(AnyConfig) /\ {} \in SUBSET Names /\ Missing \in AnyContent
  BY DEF AnyContent
<1> QED
  BY <1>1, EmptyMap, ConfigAssumption DEF NoLoad, Load

\* The sum is that of the file, and nothing has been read yet.
LEMMA TakeMD5Keeps ==
    ASSUME ReloadInv, NEW t \in Threads, TakeMD5(t)
    PROVE  ReloadInv'
<1> USE DEF ReloadInv
<1>1. /\ holder = t /\ pc[t] = "md5" /\ Go(t, "read") /\ md5' = file /\ load' = NoLoad
      /\ UNCHANGED <<line, file, written, restored, status, holder, model, served, pipes, loaders, libraries, applied, past, answer>>
  BY DEF TakeMD5, store, server, history
<1>2. /\ "read" \in PCs /\ "read" \in HolderPCs /\ "read" \in LoadPCs /\ "read" \notin AfterRead
      /\ "md5" \in LoadPCs /\ "md5" \notin AfterRead
  BY DEF PCs, HolderPCs, LoadPCs, AfterRead
<1>3. /\ pc'[t] = "read" /\ pc' \in [Threads -> PCs] /\ Loading' /\ ~HasRead'
      /\ \A u \in Threads : u # t => pc'[u] = pc[u] /\ pc[u] \notin HolderPCs
  BY <1>1, <1>2, Alone
<1>4. line = {} /\ ~cli
  BY <1>1, NotCli
<1>5. Types'
  BY <1>1, <1>3, NoLoadIs DEF Types
<1>6. Mutex'
  BY <1>1, <1>2, MutexKept
<1>7. Named'
  BY <1>1, EmptyMap DEF Named, NoLoad
<1>8. Settled'
  BY <1>1, <1>3, <1>4 DEF Settled, cli
<1>9. Progress'
  <2>1. At("read")'
    BY <1>1, <1>2 DEF At, NoLoad
  <2> QED
    BY <1>1, <1>2, <2>1, ProgressAt
<1>10. Sums'
  BY <1>1, <1>3 DEF Sums
<1>11. Fresh'
  <2> SUFFICES ASSUME NEW r \in Requests
               PROVE  /\ pc'[r] \notin {"idle", "answered"} => file \in past[r]
                      /\ pc'[r] \notin AfterRead
                      /\ ~restored /\ pc'[r] \in {"last", "update"} => applied \in past[r]
                      /\ answer[r].ok => answer[r].given
                      /\ ~restored /\ answer[r].ok => answer[r].applied \in past[r]
    BY <1>1, <1>3 DEF Fresh
  <2>1. r \in Threads
    BY DEF Threads
  <2>2. pc'[r] \notin AfterRead
    BY <1>3, <2>1 DEF HasRead
  <2> QED
    BY <1>1, <1>3, <2>1, <2>2 DEF Fresh
<1>12. CommandLine'
  BY <1>1, <1>4 DEF CommandLine
<1> QED
  BY <1>5, <1>6, <1>7, <1>8, <1>9, <1>10, <1>11, <1>12

\* A load that ends with an error, after the read or after all the steps.
LEMMA FailedKeeps ==
    ASSUME ReloadInv, NEW t \in Threads, holder = t, pc[t] \in {"read", "gated"}, Failed(t), load' = NoLoad,
           UNCHANGED <<line, file, written, restored, md5, model, served, pipes, loaders, libraries, past>>
    PROVE  ReloadInv'
<1> USE DEF ReloadInv
<1>1. t \in Requests <=> t # Watcher
  BY ConfigAssumption DEF Threads
<1>2. PICK p \in {"update", "answered"} :
         /\ Go(t, p)
         /\ \/ t = Watcher /\ p = "update" /\ UNCHANGED <<holder, answer>>
            \/ t \in Requests /\ p = "answered" /\ holder' = None /\ Answer(t, FALSE)
  BY <1>1 DEF Failed
<1>3. ~status' /\ status' \in BOOLEAN /\ applied' = applied
  BY DEF Failed
<1>4. /\ p \in PCs /\ p \notin LoadPCs /\ p \notin AfterRead
      /\ p = "update" => p \in HolderPCs
      /\ p = "answered" => p \in WaitPCs
  BY <1>2 DEF PCs, HolderPCs, WaitPCs, LoadPCs, AfterRead
<1>5. /\ pc'[t] = p /\ pc' \in [Threads -> PCs] /\ ~Loading' /\ ~HasRead'
      /\ \A u \in Threads : u # t => pc'[u] = pc[u] /\ pc[u] \notin HolderPCs
  BY <1>2, <1>4, Alone
<1>6. line = {} /\ ~cli
  BY NotCli
<1>7. /\ answer' \in [Requests -> AnAnswer]
      /\ \A r \in Requests : answer'[r] = answer[r] \/ (answer'[r].given /\ ~answer'[r].ok)
  <2>1. CASE UNCHANGED answer
    BY <2>1 DEF Types
  <2>2. CASE t \in Requests /\ Answer(t, FALSE)
    <3>1. /\ answer' \in [Requests -> AnAnswer]
          /\ answer'[t] = [given |-> TRUE, ok |-> FALSE, applied |-> applied]
          /\ \A r \in Requests : r # t => answer'[r] = answer[r]
      BY <2>2, AnswerIs
    <3>2. answer'[t].given /\ ~answer'[t].ok
      BY <3>1
    <3> QED
      BY <3>1, <3>2
  <2> QED
    BY <1>2, <2>1, <2>2
<1>8. Types'
  <2>1. holder' \in Threads \cup {None}
    BY <1>2
  <2> QED
    BY <1>3, <1>5, <1>7, <2>1, NoLoadIs DEF Types
<1>9. Mutex'
  BY <1>2, <1>4, MutexKept
<1>10. Named'
  BY EmptyMap DEF Named, NoLoad
<1>11. Settled'
  BY <1>3, <1>6 DEF Settled, cli
<1>12. Progress'
  <2>1. At(p)'
    BY <1>4 DEF At, LoadPCs
  <2> QED
    BY <1>2, <1>4, <2>1, ProgressAt
<1>13. Sums'
  BY <1>3, <1>5 DEF Sums
<1>14. Fresh'
  <2> SUFFICES ASSUME NEW r \in Requests
               PROVE  /\ pc'[r] \notin {"idle", "answered"} => file \in past[r]
                      /\ pc'[r] \notin AfterRead
                      /\ ~restored /\ pc'[r] \in {"last", "update"} => applied \in past[r]
                      /\ answer'[r].ok => answer'[r].given
                      /\ ~restored /\ answer'[r].ok => answer'[r].applied \in past[r]
    BY <1>3, <1>5 DEF Fresh
  <2>1. r \in Threads
    BY DEF Threads
  <2>2. pc'[r] \notin AfterRead
    BY <1>5, <2>1 DEF HasRead
  <2>3. r = t => pc'[r] = "answered"
    BY <1>1, <1>2, <1>5
  <2>4. (answer'[r].ok => answer'[r].given) /\ (~restored /\ answer'[r].ok => answer'[r].applied \in past[r])
    BY <1>7 DEF Fresh
  <2> QED
    BY <1>5, <2>1, <2>2, <2>3, <2>4 DEF Fresh
<1>15. CommandLine'
  BY <1>6 DEF CommandLine
<1> QED
  BY <1>8, <1>9, <1>10, <1>11, <1>12, <1>13, <1>14, <1>15

\* A load that ends without one: what it has read is applied.
LEMMA SucceededKeeps ==
    ASSUME ReloadInv, NEW t \in Threads, holder = t, pc[t] = "gated", load.ok, Succeeded(t), load' = NoLoad,
           UNCHANGED <<line, file, written, restored, md5, model, served, pipes, loaders, libraries, past>>
    PROVE  ReloadInv'
<1> USE DEF ReloadInv
<1>1. t \in Requests <=> t # Watcher
  BY ConfigAssumption DEF Threads
<1>2. PICK p \in {"update", "last"} :
         /\ Go(t, p)
         /\ \/ p = "update" /\ UNCHANGED holder
            \/ p = "last" /\ holder' = None
  BY <1>1 DEF Succeeded
<1>3. status' = TRUE /\ applied' = load.content /\ UNCHANGED answer
  BY DEF Succeeded
<1>4. /\ p \in PCs /\ p \notin LoadPCs /\ p \notin AfterRead
      /\ p = "update" => p \in HolderPCs
      /\ p = "last" => p \in WaitPCs
      /\ pc[t] \in AfterRead
  BY <1>2 DEF PCs, HolderPCs, WaitPCs, LoadPCs, AfterRead
<1>5. /\ pc'[t] = p /\ pc' \in [Threads -> PCs] /\ ~Loading' /\ ~HasRead' /\ HasRead
      /\ \A u \in Threads : u # t => pc'[u] = pc[u] /\ pc[u] \notin HolderPCs
  BY <1>2, <1>4, Alone
<1>6. line = {} /\ ~cli
  BY NotCli
<1>7. load.content \in Contents /\ Truth(load.content) /\ Distinct(load.content)
  <2>1. At("gated")
    BY DEF Progress
  <2> QED
    BY <2>1 DEF At, AfterRead
<1>8. Types'
  <2>1. holder' \in Threads \cup {None} /\ applied' \in AnyContent
    BY <1>2, <1>3, <1>7 DEF AnyContent
  <2> QED
    BY <1>3, <1>5, <2>1, NoLoadIs DEF Types
<1>9. Mutex'
  BY <1>2, <1>4, MutexKept
<1>10. Named'
  BY EmptyMap DEF Named, NoLoad
<1>11. Settled'
  <2>1. PICK k : k = load.content
    OBVIOUS
  <2>2. Truth(k)'
    BY <1>7, <2>1 DEF Truth, Serves, LoaderGone
  <2>3. Distinct(k)
    BY <1>7, <2>1
  <2> QED
    BY <1>3, <1>7, <2>1, <2>2, <2>3 DEF Settled, Truth, Serves, Distinct
<1>12. Progress'
  <2>1. At(p)'
    BY <1>4 DEF At, LoadPCs
  <2> QED
    BY <1>2, <1>4, <2>1, ProgressAt
<1>13. Sums'
  BY <1>3, <1>5 DEF Sums
<1>14. Fresh'
  <2> SUFFICES ASSUME NEW r \in Requests
               PROVE  /\ pc'[r] \notin {"idle", "answered"} => file \in past[r]
                      /\ pc'[r] \notin AfterRead
                      /\ ~restored /\ pc'[r] \in {"last", "update"} => load.content \in past[r]
                      /\ answer[r].ok => answer[r].given
                      /\ ~restored /\ answer[r].ok => answer[r].applied \in past[r]
    BY <1>3, <1>5 DEF Fresh
  <2>1. r \in Threads
    BY DEF Threads
  <2>2. pc'[r] \notin AfterRead
    BY <1>5, <2>1 DEF HasRead
  <2>3. ~restored /\ pc'[r] \in {"last", "update"} => load.content \in past[r]
    BY <1>4, <1>5, <2>1 DEF Fresh
  <2>4. pc'[r] \notin {"idle", "answered"} => file \in past[r]
    <3>1. r = t => pc[r] \notin {"idle", "answered"}
      OBVIOUS
    <3> QED
      BY <1>5, <2>1, <3>1 DEF Fresh
  <2> QED
    BY <2>2, <2>3, <2>4 DEF Fresh
<1>15. CommandLine'
  BY <1>6 DEF CommandLine
<1> QED
  BY <1>8, <1>9, <1>10, <1>11, <1>12, <1>13, <1>14, <1>15

\* The end of loadConfig.
LEMMA EndLoadKeeps ==
    ASSUME ReloadInv, NEW t \in Threads, EndLoad(t)
    PROVE  ReloadInv'
<1>1. /\ holder = t /\ pc[t] = "gated" /\ load' = NoLoad
      /\ UNCHANGED <<line, file, written, restored, md5, model, served, pipes, loaders, libraries, past>>
  BY DEF EndLoad, store, server
<1>2. CASE load.ok /\ Succeeded(t)
  BY <1>1, <1>2, SucceededKeeps
<1>3. CASE Failed(t)
  BY <1>1, <1>3, FailedKeeps
<1> QED
  BY <1>2, <1>3 DEF EndLoad

\* What is read is in the file now, so it fits a sum that fits the file, and it
\* is new to every request that is being served.
LEMMA ReadOkKeeps ==
    ASSUME ReloadInv, NEW t \in Threads, holder = t, pc[t] = "read", Kind = "ok",
           load' = [load EXCEPT !.content = file, !.todo = Entries[file]], Go(t, "loaders"),
           UNCHANGED <<line, file, written, restored, md5, status, holder, model, served, pipes, loaders, libraries,
                       applied, past, answer>>
    PROVE  ReloadInv'
<1> USE DEF ReloadInv
<1>1. file \in Contents
  BY DEF Kind, Types, AnyContent
<1>2. Entries[file] \in Seq(AnyEntry)
  BY <1>1, EntriesAre
<1>3. At("read")
  BY DEF Progress
<1>4. load.ok /\ load.seen = {} /\ load.new = <<>> /\ load.gated = <<>>
  BY <1>3 DEF At
<1>5. PICK es : es = Entries[file]
  OBVIOUS
<1>6. /\ load' \in Load /\ load'.attempt = load.attempt /\ load'.content = file /\ load'.todo = es
      /\ load'.ok = load.ok /\ load'.seen = load.seen /\ load'.new = load.new /\ load'.gated = load.gated
  BY <1>1, <1>2, <1>5 DEF Types, Load, AnyContent
<1>7. /\ "loaders" \in PCs /\ "loaders" \in HolderPCs /\ "loaders" \in LoadPCs /\ "loaders" \in AfterRead
      /\ "read" \in LoadPCs
  BY DEF PCs, HolderPCs, LoadPCs, AfterRead
<1>8. /\ pc'[t] = "loaders" /\ pc' \in [Threads -> PCs] /\ Loading' /\ HasRead'
      /\ \A u \in Threads : u # t => pc'[u] = pc[u] /\ pc[u] \notin HolderPCs
  BY <1>7, Alone
<1>9. line = {} /\ ~cli
  BY NotCli
<1>10. Types'
  BY <1>6, <1>8 DEF Types
<1>11. Mutex'
  BY <1>7, MutexKept
<1>12. Named'
  BY <1>6 DEF Named
<1>13. Settled'
  BY <1>8 DEF Settled, cli
<1>14. Progress'
  <2>1. At("loaders")'
    BY <1>1, <1>4, <1>5, <1>6 DEF At, AfterRead
  <2> QED
    BY <1>7, <2>1, ProgressAt
<1>15. Sums'
  BY <1>6, <1>8 DEF Sums
<1>16. Fresh'
  <2> SUFFICES ASSUME NEW r \in Requests
               PROVE  /\ pc'[r] \notin {"idle", "answered"} => file \in past[r]
                      /\ ~restored /\ pc'[r] \in {"last", "update"} => applied \in past[r]
                      /\ answer[r].ok => answer[r].given
                      /\ ~restored /\ answer[r].ok => answer[r].applied \in past[r]
    BY <1>6 DEF Fresh, AfterRead
  <2>1. r \in Threads
    BY DEF Threads
  <2>2. r = t => pc[r] \notin {"idle", "answered"} /\ pc'[r] \notin {"last", "update"}
    BY <1>8
  <2> QED
    BY <1>8, <2>1, <2>2 DEF Fresh
<1>17. CommandLine'
  BY <1>9 DEF CommandLine
<1> QED
  BY <1>10, <1>11, <1>12, <1>13, <1>14, <1>15, <1>16, <1>17

\* The reads of the file: a good one, one that is tried again, and one that ends the
\* load with an error.
LEMMA ReadKeeps ==
    ASSUME ReloadInv, NEW t \in Threads, Read(t)
    PROVE  ReloadInv'
<1>1. /\ holder = t /\ pc[t] = "read"
      /\ UNCHANGED <<line, file, written, restored, md5, model, served, pipes, loaders, libraries, past>>
  BY DEF Read, store, server
<1>2. CASE /\ Kind = "ok"
           /\ load' = [load EXCEPT !.content = file, !.todo = Entries[file]]
           /\ Go(t, "loaders")
           /\ UNCHANGED <<status, holder, applied, answer>>
  BY <1>1, <1>2, ReadOkKeeps
<1>3. CASE /\ Again
           /\ load' = [load EXCEPT !.attempt = @ + 1]
           /\ UNCHANGED <<status, holder, pc, applied, answer>>
  <2> USE DEF ReloadInv
  <2>1. At("read")
    BY <1>1 DEF Progress
  <2>2. load.ok /\ load.seen = {} /\ load.new = <<>> /\ load.gated = <<>>
    BY <2>1 DEF At
  <2>3. /\ load' \in Load /\ load'.attempt = load.attempt + 1 /\ load'.content = load.content
        /\ load'.ok = load.ok /\ load'.seen = load.seen /\ load'.new = load.new /\ load'.gated = load.gated
    BY <1>3 DEF Types, Load
  <2>4. (Loading' <=> Loading) /\ (HasRead' <=> HasRead)
    BY <1>3 DEF Loading, HasRead
  <2>5. "read" \in LoadPCs /\ "read" \notin AfterRead /\ "read" \in PCs
    BY DEF PCs, HolderPCs, LoadPCs, AfterRead
  <2>6. Loading
    BY <1>1, <2>5 DEF Loading
  <2>7. Types'
    BY <1>1, <1>3, <2>3 DEF Types, Again
  <2>8. Mutex'
    BY <1>3 DEF Mutex
  <2>9. Named'
    BY <1>1, <2>3 DEF Named
  <2>10. Settled'
    BY <1>1, <1>3, <2>4, <2>6 DEF Settled, cli
  <2>11. Progress'
    <3>1. At("read")'
      BY <2>2, <2>3, <2>5 DEF At
    <3>2. Go(t, "read")
      BY <1>1, <1>3 DEF Go, Types
    <3> QED
      BY <1>1, <2>5, <3>1, <3>2, ProgressAt
  <2>12. Sums'
    BY <1>1, <1>3, <2>3, <2>4 DEF Sums
  <2>13. Fresh'
    BY <1>1, <1>3, <2>3, <2>4 DEF Fresh
  <2>14. CommandLine'
    BY <1>1, <1>3 DEF CommandLine
  <2> QED
    BY <2>7, <2>8, <2>9, <2>10, <2>11, <2>12, <2>13, <2>14
<1>4. CASE load' = NoLoad /\ Failed(t)
  BY <1>1, <1>4, FailedKeeps
<1> QED
  BY <1>2, <1>3, <1>4 DEF Read

-----------------------------------------------------------------------------
\* The steps of a load

\* Once the file is read, a step of the load matters only for what it does to
\* the server.
LEMMA LoadStep ==
    ASSUME ReloadInv, NEW t \in Threads, holder = t, pc[t] \in AfterRead, NEW p \in AfterRead, Go(t, p),
           UNCHANGED <<line, file, written, restored, md5, status, holder, applied, past, answer>>,
           load' \in Load, load'.attempt = load.attempt, load'.content = load.content,
           model' \in [Names -> Model], \A n \in Names : model'[n].serves => model'[n].config \in AnyConfig,
           served' \in Maps, Named', At(p)'
    PROVE  ReloadInv'
<1> USE DEF ReloadInv
<1>1. p \in PCs /\ p \in HolderPCs /\ p \in LoadPCs
  BY Disjoint
<1>2. /\ pc'[t] = p /\ pc' \in [Threads -> PCs] /\ Loading' /\ HasRead' /\ HasRead
      /\ \A u \in Threads : u # t => pc'[u] = pc[u] /\ pc[u] \notin HolderPCs
  BY <1>1, Alone
<1>3. line = {} /\ ~cli
  <2>1. pc[t] \notin {"idle", "last", "update", "answered"}
    BY DEF AfterRead
  <2> QED
    BY <2>1, NotCli
<1>4. Types'
  BY <1>2 DEF Types
<1>5. Mutex'
  BY <1>1, MutexKept
<1>6. Settled'
  BY <1>2 DEF Settled, cli
<1>7. Progress'
  BY <1>1, ProgressAt
<1>8. Sums'
  BY <1>2 DEF Sums
<1>9. Fresh'
  <2> SUFFICES ASSUME NEW r \in Requests
               PROVE  /\ pc'[r] \notin {"idle", "answered"} => file \in past[r]
                      /\ pc'[r] \in AfterRead => load.content \in past[r]
                      /\ ~restored /\ pc'[r] \in {"last", "update"} => applied \in past[r] /\ load.content \in past[r]
                      /\ answer[r].ok => answer[r].given
                      /\ ~restored /\ answer[r].ok => answer[r].applied \in past[r]
    BY DEF Fresh
  <2>1. r \in Threads
    BY DEF Threads
  <2>2. r = t => pc[r] \notin {"idle", "answered"} /\ pc'[r] \notin {"last", "update"} /\ pc[r] \in AfterRead
    BY <1>2 DEF AfterRead
  <2> QED
    BY <1>2, <2>1, <2>2 DEF Fresh
<1>10. CommandLine'
  BY <1>3 DEF CommandLine
<1> QED
  BY <1>4, <1>5, <1>6, <1>7, <1>8, <1>9, <1>10

\* A step that leaves the thread at the same place.
LEMMA Stay ==
    ASSUME Types, NEW t \in Threads, UNCHANGED pc
    PROVE  Go(t, pc[t])
BY DEF Go, Types

\* The custom loaders.  When none is lost, they are those of the list.
LEMMA LoadLoadersKeeps ==
    ASSUME ReloadInv, NEW t \in Threads, LoadLoaders(t)
    PROVE  ReloadInv'
<1> USE DEF ReloadInv
<1>1. /\ holder = t /\ pc[t] = "loaders" /\ Go(t, "models")
      /\ UNCHANGED <<line, file, written, restored, md5, status, holder, model, served, pipes, libraries, applied, past, answer>>
  BY DEF LoadLoaders, store, history
<1>2. "loaders" \in AfterRead /\ "models" \in AfterRead
  BY DEF AfterRead
<1>3. At("loaders")
  BY <1>1 DEF Progress
<1>4. /\ load.content \in Contents /\ load.gated = <<>> /\ load.todo = Entries[load.content] /\ load.ok
      /\ load.seen = {} /\ load.new = <<>>
  BY <1>2, <1>3 DEF At
<1>5. /\ load' \in Load /\ load'.attempt = load.attempt /\ load'.content = load.content /\ load'.todo = load.todo
      /\ load'.seen = load.seen /\ load'.new = load.new /\ load'.gated = load.gated
      /\ load'.ok /\ Parsed[load.content].loaders.present => loaders' = Parsed[load.content].loaders.items
  <2>1. CASE ~Parsed[load.content].loaders.present
    BY <2>1 DEF LoadLoaders, Types
  <2>2. CASE Parsed[load.content].loaders.present
    <3>1. PICK items : items = Parsed[load.content].loaders.items
      OBVIOUS
    <3>2. PICK lost : loaders' = Finalized(items, lost) /\ load' = [load EXCEPT !.ok = @ /\ lost = {}]
      BY <2>2, <3>1 DEF LoadLoaders
    <3>3. /\ load' \in Load /\ load'.attempt = load.attempt /\ load'.content = load.content /\ load'.todo = load.todo
          /\ load'.seen = load.seen /\ load'.new = load.new /\ load'.gated = load.gated
          /\ load'.ok => lost = {}
      BY <3>2 DEF Types, Load
    <3>4. lost = {} => loaders' = items
      BY <3>2 DEF Finalized
    <3> QED
      BY <3>1, <3>3, <3>4
  <2> QED
    BY <2>1, <2>2
<1>6. Named'
  BY <1>1, <1>5 DEF Named
<1>7. At("models")'
  <2>1. Len(Entries[load.content]) \in Nat
    BY <1>4, EntriesAre
  <2>2. Done' = 0
    BY <1>4, <1>5, <2>1 DEF Done
  <2>3. 1 .. 0 = {}
    OBVIOUS
  <2>4. InOrder'
    BY <1>4, <1>5, <2>1, <2>2 DEF InOrder
  <2>5. LookedAt'
    BY <1>4, <1>5, <2>2, <2>3, EmptyMap DEF LookedAt
  <2>6. load'.ok => LoadersDone'
    BY <1>5 DEF LoadersDone
  <2> QED
    BY <1>4, <1>5, <2>4, <2>5, <2>6 DEF At
<1> QED
  BY <1>1, <1>2, <1>5, <1>6, <1>7, LoadStep DEF Types

\* The next entry.
LEMMA NextEntry ==
    ASSUME Types, InOrder, load.content \in Contents, load.todo # <<>>,
           load'.todo = Tail(load.todo), load'.content = load.content
    PROVE  /\ Done \in Nat /\ Done + 1 \in 1 .. Len(Entries[load.content])
           /\ Head(load.todo) = Entries[load.content][Done + 1]
           /\ InOrder' /\ Done' = Done + 1
<1>1. load.todo \in Seq(AnyEntry)
  BY DEF Types, Load
<1>2. PICK n, m : n = Len(Entries[load.content]) /\ m = Len(load.todo)
  OBVIOUS
<1>3. n \in Nat /\ m \in Nat /\ m # 0
  <2>1. n \in Nat
    BY <1>2, EntriesAre
  <2>2. m \in Nat /\ m # 0
    BY <1>1, <1>2
  <2> QED
    BY <2>1, <2>2
<1>4. /\ Len(Tail(load.todo)) = m - 1 /\ Head(load.todo) = load.todo[1]
      /\ \A i \in 1 .. m - 1 : Tail(load.todo)[i] = load.todo[i + 1]
  BY <1>1, <1>2
<1>5. m <= n /\ Done = n - m /\ \A i \in 1 .. m : load.todo[i] = Entries[load.content][Done + i]
  BY <1>2 DEF InOrder, Done
<1>6. Done' = n - (m - 1)
  BY <1>2, <1>4 DEF Done
<1>7. \A i \in 1 .. m - 1 : Tail(load.todo)[i] = Entries[load.content][(n - (m - 1)) + i]
  <2> TAKE i \in 1 .. m - 1
  <2>1. i + 1 \in 1 .. m /\ (n - m) + (i + 1) = (n - (m - 1)) + i
    BY <1>3
  <2> QED
    BY <1>4, <1>5, <2>1
<1>8. InOrder'
  <2>1. m - 1 <= n
    BY <1>3, <1>5
  <2>2. load'.todo = Tail(load.todo) /\ load'.content = load.content /\ Len(load'.todo) = m - 1
    BY <1>4
  <2> QED
    BY <1>2, <1>6, <1>7, <2>1, <2>2 DEF InOrder
<1>9. n - m \in Nat /\ (n - m) + 1 \in 1 .. n /\ n - (m - 1) = (n - m) + 1 /\ 1 \in 1 .. m
  BY <1>3, <1>5
<1> QED
  BY <1>2, <1>4, <1>5, <1>6, <1>8, <1>9

\* What is known where the entries are looked at.
LEMMA AtEntry ==
    ASSUME ReloadInv, NEW t \in Threads, NEW e, Entry(t, e)
    PROVE  /\ holder = t /\ pc[t] = "models" /\ pc[t] \in AfterRead /\ e = Head(load.todo)
           /\ load.content \in Contents /\ (load.ok => load.gated = <<>>)
           /\ InOrder /\ (load.ok => LookedAt /\ LoadersDone)
           /\ load.todo # <<>> /\ e \in AnyEntry /\ load.todo \in Seq(AnyEntry) /\ Tail(load.todo) \in Seq(AnyEntry)
<1>1. holder = t /\ pc[t] = "models" /\ load.todo # <<>> /\ e = Head(load.todo)
  BY DEF Entry
<1>2. At("models") /\ "models" \in AfterRead
  BY <1>1 DEF ReloadInv, Progress, AfterRead
<1>3. load.todo \in Seq(AnyEntry)
  BY DEF ReloadInv, Types, Load
<1>4. Head(load.todo) \in AnyEntry /\ Tail(load.todo) \in Seq(AnyEntry)
  BY <1>1, <1>3
<1> QED
  BY <1>1, <1>2, <1>3, <1>4 DEF At

\* An entry that is wrong: the load will end with an error.
LEMMA SkipEntryKeeps ==
    ASSUME ReloadInv, NEW t \in Threads, NEW e, SkipEntry(t, e)
    PROVE  ReloadInv'
<1> USE DEF ReloadInv
<1>1. Entry(t, e) /\ load' = [Next1 EXCEPT !.ok = FALSE] /\ UNCHANGED pc
  BY DEF SkipEntry
<1>2. UNCHANGED <<line, file, written, restored, md5, status, holder, model, served, pipes, loaders, libraries, applied, past, answer>>
  BY DEF SkipEntry, store, server, history
<1>3. PICK es \in Seq(AnyEntry) : es = Tail(load.todo)
  BY <1>1, AtEntry
<1>4. /\ load' \in Load /\ load'.attempt = load.attempt /\ load'.content = load.content /\ load'.todo = es
      /\ load'.seen = load.seen /\ load'.new = load.new /\ load'.ok = FALSE
  BY <1>1, <1>3 DEF Next1, Types, Load
<1>5. Named'
  BY <1>2, <1>4 DEF Named
<1>6. InOrder'
  BY <1>1, <1>3, <1>4, AtEntry, NextEntry
<1>7. At("models")'
  BY <1>1, <1>4, <1>6, AtEntry DEF At
<1> QED
  BY <1>1, <1>2, <1>4, <1>5, <1>7, AtEntry, Stay, LoadStep DEF Types

\* An entry with unsupported plugin keys: the entries after it are not looked at.
LEMMA BadPluginKeeps ==
    ASSUME ReloadInv, NEW t \in Threads, NEW e, BadPlugin(t, e)
    PROVE  ReloadInv'
<1> USE DEF ReloadInv
<1>1. Entry(t, e) /\ load' = [Next1 EXCEPT !.ok = FALSE] /\ Go(t, "pipelines")
  BY DEF BadPlugin
<1>2. UNCHANGED <<line, file, written, restored, md5, status, holder, model, served, pipes, loaders, libraries, applied, past, answer>>
  BY DEF BadPlugin, store, server, history
<1>3. PICK es \in Seq(AnyEntry) : es = Tail(load.todo)
  BY <1>1, AtEntry
<1>4. /\ load' \in Load /\ load'.attempt = load.attempt /\ load'.content = load.content
      /\ load'.seen = load.seen /\ load'.new = load.new /\ load'.ok = FALSE
  BY <1>1, <1>3 DEF Next1, Types, Load
<1>5. Named'
  BY <1>2, <1>4 DEF Named
<1>6. "pipelines" \in AfterRead /\ At("pipelines")'
  BY <1>1, <1>4, AtEntry DEF At, AfterRead
<1> QED
  BY <1>1, <1>2, <1>4, <1>5, <1>6, AtEntry, LoadStep DEF Types

\* A blocked entry: the configuration there was is carried over under its name.
LEMMA BlockedEntryKeeps ==
    ASSUME ReloadInv, NEW t \in Threads, NEW e, BlockedEntry(t, e)
    PROVE  ReloadInv'
<1> USE DEF ReloadInv
<1>1. Entry(t, e) /\ UNCHANGED pc /\ served' = Restrict(served, DOMAIN served \ {e.name})
  BY DEF BlockedEntry
<1>2. UNCHANGED <<line, file, written, restored, md5, status, holder, model, pipes, loaders, libraries, applied, past, answer>>
  BY DEF BlockedEntry, store, history
<1>3. PICK es \in Seq(AnyEntry) : es = Tail(load.todo)
  BY <1>1, AtEntry
<1>4. e \in AnyEntry /\ e.name \in Names /\ e.config \in AnyConfig
  BY <1>1, AtEntry, AnyEntryIs
<1>5. served \in Maps /\ load \in Load /\ load.new \in Maps
  BY DEF Types, Load
<1>6. /\ load' \in Load /\ load'.attempt = load.attempt /\ load'.content = load.content /\ load'.todo = es
      /\ load'.seen = load.seen \cup {e.name} /\ load'.ok = FALSE
      /\ \/ load'.new = load.new
         \/ e.name \in DOMAIN served /\ load'.new = With(load.new, e.name, served[e.name])
  <2>1. PICK skipped : skipped = [Next1 EXCEPT !.seen = @ \cup {e.name}, !.ok = FALSE]
    OBVIOUS
  <2>2. load' = IF e.name \notin DOMAIN served THEN skipped
                ELSE [skipped EXCEPT !.gated = Append(@, e.config), !.new = With(@, e.name, served[e.name])]
    BY <2>1 DEF BlockedEntry
  <2>3. /\ skipped \in Load /\ skipped.attempt = load.attempt /\ skipped.content = load.content /\ skipped.todo = es
        /\ skipped.seen = load.seen \cup {e.name} /\ skipped.new = load.new /\ skipped.gated = load.gated /\ skipped.ok = FALSE
    BY <1>3, <1>4, <1>5, <2>1 DEF Next1, Load
  <2>4. CASE e.name \notin DOMAIN served
    BY <2>2, <2>3, <2>4
  <2>5. CASE e.name \in DOMAIN served
    <3>1. served[e.name] \in AnyConfig
      BY <1>5, <2>5, MapIs
    <3>2. PICK new \in Maps : new = With(load.new, e.name, served[e.name])
      BY <1>4, <1>5, <3>1, WithMap
    <3>3. PICK gated \in Seq(AnyConfig) : gated = Append(load.gated, e.config)
      <4>1. load.gated \in Seq(AnyConfig)
        BY <1>5 DEF Load
      <4>2. Append(load.gated, e.config) \in Seq(AnyConfig)
        BY <1>4, <4>1, AppendProperties
      <4> QED
        BY <4>2
    <3>4. load' = [skipped EXCEPT !.gated = gated, !.new = new]
      BY <2>2, <2>3, <2>5, <3>2, <3>3
    <3>5. /\ load' \in Load /\ load'.attempt = skipped.attempt /\ load'.content = skipped.content
          /\ load'.todo = skipped.todo /\ load'.seen = skipped.seen /\ load'.ok = skipped.ok /\ load'.new = new
      BY <2>3, <3>4 DEF Load
    <3> QED
      BY <2>3, <2>5, <3>2, <3>5
  <2> QED
    BY <2>4, <2>5
<1>7. /\ served' \in Maps /\ DOMAIN served' \subseteq DOMAIN served
      /\ \A n \in DOMAIN served' : served'[n] = served[n]
  BY <1>1, <1>5, RestrictMap
<1>8. Named'
  <2>1. \A n \in DOMAIN served' : served'[n].name = n
    BY <1>7 DEF Named
  <2>2. CASE load'.new = load.new
    BY <1>6, <2>1, <2>2 DEF Named
  <2>3. CASE e.name \in DOMAIN served /\ load'.new = With(load.new, e.name, served[e.name])
    <3>1. /\ DOMAIN load'.new = DOMAIN load.new \cup {e.name} /\ load'.new[e.name] = served[e.name]
          /\ \A n \in DOMAIN load.new : n # e.name => load'.new[n] = load.new[n]
      <4>1. served[e.name] \in AnyConfig
        BY <1>5, <2>3, MapIs
      <4>2. PICK new : new = With(load.new, e.name, served[e.name])
        OBVIOUS
      <4>3. /\ DOMAIN new = DOMAIN load.new \cup {e.name} /\ new[e.name] = served[e.name]
            /\ \A n \in DOMAIN load.new : n # e.name => new[n] = load.new[n]
        BY <4>2 DEF With
      <4>4. load'.new = new
        BY <2>3, <4>2
      <4> QED
        BY <4>3, <4>4
    <3>2. served[e.name].name = e.name
      BY <2>3 DEF Named
    <3> QED
      BY <1>6, <2>1, <3>1, <3>2 DEF Named
  <2> QED
    BY <1>6, <2>2, <2>3
<1>9. InOrder'
  BY <1>1, <1>3, <1>6, AtEntry, NextEntry
<1>10. At("models")'
  BY <1>1, <1>6, <1>9, AtEntry DEF At
<1> QED
  BY <1>1, <1>2, <1>6, <1>7, <1>8, <1>10, AtEntry, Stay, LoadStep DEF Types

\* A model that is loaded, left alone or retired has the type of a model.
LEMMA ReloadedIs ==
    ASSUME Types, NEW c \in AnyConfig, NEW fails \in BOOLEAN
    PROVE  /\ Reloaded(c, fails) \in Model
           /\ Reloaded(c, fails).serves => Reloaded(c, fails).config \in AnyConfig
<1>1. PICK m : m = model[c.name]
  OBVIOUS
<1>2. m \in Model /\ (m.serves => m.config \in AnyConfig)
  BY <1>1, AnyConfigIs DEF Types
<1>3. PICK k \in {"stateful", "stateless"} : k = KindOf(c)
  BY DEF KindOf
<1>4. PICK r : r = Reloaded(c, fails)
  OBVIOUS
<1>5. \/ r = [kind |-> k, serves |-> ~fails, config |-> c]
      \/ r = [m EXCEPT !.kind = k, !.serves = FALSE]
      \/ r = m
  BY <1>1, <1>3, <1>4 DEF Reloaded
<1>6. r \in Model /\ (r.serves => r.config \in AnyConfig)
  <2>1. CASE r = [kind |-> k, serves |-> ~fails, config |-> c]
    <3>1. PICK s \in BOOLEAN : s = ~fails
      OBVIOUS
    <3>2. r = [kind |-> k, serves |-> s, config |-> c]
      BY <2>1, <3>1
    <3> QED
      BY <1>3, <3>1, <3>2 DEF Model
  <2>2. CASE r = [m EXCEPT !.kind = k, !.serves = FALSE]
    BY <1>2, <1>3, <2>2 DEF Model
  <2>3. CASE r = m
    BY <1>2, <2>3
  <2> QED
    BY <1>5, <2>1, <2>2, <2>3
<1> QED
  BY <1>4, <1>6

\* The model of an accepted entry that neither fails nor is rejected follows it.
LEMMA ReloadedFollows ==
    ASSUME Types, NEW c \in AnyConfig, ~Rejected(c), NEW r, r = Reloaded(c, FALSE)
    PROVE  IF r.serves THEN Same(r.config, c) /\ ~LoaderGone(c) ELSE LoaderGone(c)
<1>1. PICK m : m = model[c.name]
  OBVIOUS
<1>2. m \in Model /\ (m.serves => m.config \in AnyConfig) /\ DOMAIN c = Fields
  BY <1>1, AnyConfigIs DEF Types
<1>3. CASE Needed(c)
  <2>1. r.serves /\ r.config = c
    BY <1>3 DEF Reloaded
  <2> QED
    BY <1>3, <2>1 DEF Needed, Same
<1>4. CASE ~Needed(c) /\ LoaderGone(c)
  <2>1. PICK k : k = KindOf(c)
    OBVIOUS
  <2>2. r = [m EXCEPT !.kind = k, !.serves = FALSE]
    BY <1>1, <1>4, <2>1 DEF Reloaded
  <2>3. ~r.serves
    BY <1>2, <2>2 DEF Model
  <2> QED
    BY <1>4, <2>3
<1>5. CASE ~Needed(c) /\ ~LoaderGone(c)
  <2>1. r = m /\ m.serves /\ ~isReloadRequired(m.config, c)
    BY <1>1, <1>5 DEF Reloaded, Needed
  <2>2. DOMAIN m.config = Fields
    BY <1>2, <2>1, AnyConfigIs
  <2> QED
    BY <1>2, <1>5, <2>1, <2>2, SameIsNotReloaded
<1> QED
  BY <1>3, <1>4, <1>5

\* An entry that is accepted: its model follows it, unless the load has gone
\* wrong; the models of the entries before have other names.
LEMMA LoadModelKeeps ==
    ASSUME ReloadInv, NEW t \in Threads, NEW e, LoadModel(t, e)
    PROVE  ReloadInv'
<1> USE DEF ReloadInv
<1>1. Entry(t, e) /\ UNCHANGED pc /\ e.name \notin load.seen /\ ~Blocked(e.config)
  BY DEF LoadModel
<1>2. UNCHANGED <<line, file, written, restored, md5, status, holder, served, pipes, loaders, libraries, applied, past, answer>>
  BY DEF LoadModel, store, history
<1>3. PICK es \in Seq(AnyEntry) : es = Tail(load.todo)
  BY <1>1, AtEntry
<1>4. e \in AnyEntry /\ e.name \in Names /\ e.config \in AnyConfig /\ e.config.name = e.name
  BY <1>1, AtEntry, AnyEntryIs
<1>5. load \in Load /\ load.new \in Maps
  BY DEF Types, Load
<1>6. PICK fails \in BOOLEAN :
         /\ load' = [Next1 EXCEPT !.seen = @ \cup {e.name}, !.ok = @ /\ ~fails /\ ~Refused(e.config), !.new = Kept(e.config, fails)]
         /\ model' = [model EXCEPT ![e.name] = Reloaded(e.config, fails)]
  BY DEF LoadModel, MayFail
<1>7. PICK new \in Maps : new = Kept(e.config, fails)
  BY <1>4, <1>5, WithMap DEF Kept
<1>8. /\ DOMAIN new = DOMAIN load.new \cup {e.name} /\ new[e.name] = e.config
      /\ \A n \in DOMAIN load.new : n # e.name => new[n] = load.new[n]
  BY <1>4, <1>7 DEF Kept, With
<1>9. PICK good \in BOOLEAN : good = (load.ok /\ ~fails /\ ~Refused(e.config))
  OBVIOUS
<1>10. PICK m : m = Reloaded(e.config, fails)
  OBVIOUS
<1>11. m \in Model /\ (m.serves => m.config \in AnyConfig)
  BY <1>4, <1>10, ReloadedIs
<1>12. /\ load' \in Load /\ load'.attempt = load.attempt /\ load'.content = load.content /\ load'.todo = es
       /\ load'.seen = load.seen \cup {e.name} /\ load'.ok = good /\ load'.new = new /\ load'.gated = load.gated
  <2>1. PICK d : d = Next1
    OBVIOUS
  <2>2. /\ d \in Load /\ d.attempt = load.attempt /\ d.content = load.content /\ d.todo = es
        /\ d.seen = load.seen /\ d.ok = load.ok /\ d.new = load.new /\ d.gated = load.gated
    BY <1>3, <1>5, <2>1 DEF Next1, Load
  <2>3. PICK seen \in SUBSET Names : seen = load.seen \cup {e.name}
    BY <1>4, <1>5 DEF Load
  <2>4. load' = [d EXCEPT !.seen = seen, !.ok = good, !.new = new]
    BY <1>6, <1>7, <1>9, <2>1, <2>2, <2>3
  <2>5. /\ load' \in Load /\ load'.attempt = d.attempt /\ load'.content = d.content /\ load'.todo = d.todo
        /\ load'.seen = seen /\ load'.ok = good /\ load'.new = new /\ load'.gated = d.gated
    BY <2>2, <2>4 DEF Load
  <2> QED
    BY <2>2, <2>3, <2>5
<1>13. /\ model' \in [Names -> Model] /\ model'[e.name] = m
       /\ \A n \in Names : n # e.name => model'[n] = model[n]
       /\ \A n \in Names : model'[n].serves => model'[n].config \in AnyConfig
  BY <1>4, <1>6, <1>10, <1>11 DEF Types
<1>14. Named'
  BY <1>2, <1>4, <1>8, <1>12 DEF Named
<1>15. /\ InOrder /\ load.content \in Contents /\ load.todo # <<>> /\ e = Head(load.todo)
       /\ load.ok => LookedAt /\ LoadersDone /\ load.gated = <<>>
  BY <1>1, AtEntry
<1>16. PICK d : d = Done
  OBVIOUS
<1>17. /\ d \in Nat /\ d + 1 \in 1 .. Len(Entries[load.content]) /\ e = Entries[load.content][d + 1]
       /\ InOrder' /\ Done' = d + 1
  BY <1>3, <1>12, <1>15, <1>16, NextEntry
<1>18. ASSUME load'.ok
       PROVE  LookedAt'
  <2>1. load.ok /\ ~fails /\ ~Refused(e.config)
    BY <1>9, <1>12, <1>18
  <2>2. ~Rejected(e.config)
    BY <1>1, <2>1 DEF Rejected, Blocked
  <2>3. Follows(e)'
    <3>1. m = Reloaded(e.config, FALSE)
      BY <1>10, <2>1
    <3>2. IF m.serves THEN Same(m.config, e.config) /\ ~LoaderGone(e.config) ELSE LoaderGone(e.config)
      BY <1>4, <2>2, <3>1, ReloadedFollows
    <3> QED
      BY <1>2, <1>13, <3>2 DEF Follows, LoaderGone
  <2>4. PICK E : E = Entries[load.content]
    OBVIOUS
  <2>5. /\ load.seen = {E[i].name : i \in 1 .. d}
        /\ \A i, j \in 1 .. d : E[i].name = E[j].name => i = j
        /\ \A i \in 1 .. d : Follows(E[i])
        /\ DOMAIN load.new = load.seen
        /\ \A i \in 1 .. d : load.new[E[i].name] = E[i].config
    BY <1>15, <1>16, <2>1, <2>4 DEF LookedAt
  <2>6. \A i \in 1 .. d + 1 : i \in 1 .. d \/ i = d + 1
    BY <1>17
  <2>7. d + 1 \in 1 .. d + 1 /\ \A i \in 1 .. d : i \in 1 .. d + 1
    BY <1>17
  <2>8. e = E[d + 1] /\ \A i \in 1 .. d : E[i].name # e.name /\ E[i].name \in load.seen
    BY <1>1, <1>17, <2>4, <2>5
  <2>9. load'.seen = {E[i].name : i \in 1 .. d + 1}
    BY <1>12, <2>5, <2>6, <2>7, <2>8
  <2>10. \A i, j \in 1 .. d + 1 : E[i].name = E[j].name => i = j
    BY <2>5, <2>6, <2>8
  <2>11. \A i \in 1 .. d + 1 : Follows(E[i])'
    <3> SUFFICES ASSUME NEW i \in 1 .. d
                 PROVE  Follows(E[i])'
      BY <2>3, <2>6, <2>8 DEF Follows
    <3>1. PICK f : f = E[i]
      OBVIOUS
    <3>2. Follows(f) /\ f.name # e.name
      BY <2>5, <2>8, <3>1
    <3>3. f.name \in Names
      <4>1. i \in 1 .. Len(E)
        BY <1>17, <2>4, EntriesAre, <1>15
      <4> QED
        BY <1>15, <2>4, <3>1, <4>1, EntryIs
    <3>4. model'[f.name] = model[f.name]
      BY <1>13, <3>2, <3>3
    <3>5. Follows(f)'
      BY <1>2, <3>2, <3>4 DEF Follows, LoaderGone
    <3> QED
      BY <3>1, <3>5 DEF Follows
  <2>12. DOMAIN load'.new = load'.seen
    BY <1>8, <1>12, <2>5
  <2>13. \A i \in 1 .. d + 1 : load'.new[E[i].name] = E[i].config
    BY <1>8, <1>12, <2>5, <2>6, <2>8
  <2> QED
    BY <1>12, <1>17, <2>4, <2>9, <2>10, <2>11, <2>12, <2>13 DEF LookedAt, Follows
<1>19. load'.ok => LoadersDone'
  BY <1>2, <1>9, <1>12, <1>15 DEF LoadersDone
<1>20. At("models")'
  BY <1>9, <1>12, <1>15, <1>17, <1>18, <1>19 DEF At
<1> QED
  BY <1>1, <1>2, <1>12, <1>13, <1>14, <1>20, AtEntry, Stay, LoadStep DEF Types

\* At the end of the entries, the models that follow them are all there are.
LEMMA RetireRemovedKeeps ==
    ASSUME ReloadInv, NEW t \in Threads, RetireRemoved(t)
    PROVE  ReloadInv'
<1> USE DEF ReloadInv
<1>1. holder = t /\ pc[t] = "models" /\ load.todo = <<>> /\ Go(t, "pipelines") /\ served' = load.new
  BY DEF RetireRemoved
<1>2. UNCHANGED <<line, file, written, restored, md5, status, holder, load, pipes, loaders, libraries, applied, past, answer>>
  BY DEF RetireRemoved, store, history
<1>3. "models" \in AfterRead /\ "pipelines" \in AfterRead
  BY DEF AfterRead
<1>4. At("models")
  BY <1>1 DEF Progress
<1>5. load.content \in Contents /\ InOrder /\ (load.ok => load.gated = <<>> /\ LookedAt /\ LoadersDone)
  BY <1>3, <1>4 DEF At
<1>6. load \in Load /\ load.new \in Maps
  BY DEF Types, Load
<1>7. /\ model' \in [Names -> Model]
      /\ \A n \in Names : model'[n] = IF n \in load.seen THEN model[n] ELSE [model[n] EXCEPT !.serves = FALSE]
  <2>1. model' = [n \in Names |-> IF n \in Removed THEN [model[n] EXCEPT !.serves = FALSE] ELSE model[n]]
    BY DEF RetireRemoved
  <2>2. \A n \in Names : model[n] \in Model /\ [model[n] EXCEPT !.serves = FALSE] \in Model
    BY DEF Types, Model
  <2>3. \A n \in Names : n \in Removed <=> n \notin load.seen
    BY DEF Removed
  <2> QED
    BY <2>1, <2>2, <2>3
<1>8. /\ \A n \in load.seen \cap Names : model'[n] = model[n]
      /\ \A n \in Names \ load.seen : ~model'[n].serves
  <2>1. \A n \in Names : ~[model[n] EXCEPT !.serves = FALSE].serves
    BY DEF Types, Model
  <2> QED
    BY <1>7, <2>1
<1>9. \A n \in Names : model'[n].serves => model'[n].config \in AnyConfig
  BY <1>8 DEF Types
<1>10. Named'
  BY <1>1, <1>2 DEF Named
<1>11. ASSUME load.ok
       PROVE  Serves(load.content)' /\ Range(served)' = Configs[load.content]' /\ Distinct(load.content)'
  <2>1. PICK k \in Contents : k = load.content
    BY <1>5
  <2>2. PICK d \in Nat : d = Len(Entries[k])
    BY EntriesAre
  <2>3. Done = d
    BY <1>1, <2>1, <2>2 DEF Done
  <2>4. /\ load.seen = {Entries[k][i].name : i \in 1 .. d}
        /\ \A i, j \in 1 .. d : Entries[k][i].name = Entries[k][j].name => i = j
        /\ \A i \in 1 .. d : Follows(Entries[k][i])
        /\ DOMAIN load.new = load.seen
        /\ \A i \in 1 .. d : load.new[Entries[k][i].name] = Entries[k][i].config
    BY <1>5, <1>11, <2>1, <2>3 DEF LookedAt
  <2>5. DOMAIN Entries[k] = 1 .. d
    BY <2>2, EntriesAre
  <2>6. Distinct(k)
    BY <2>4, <2>5 DEF Distinct
  <2>7. /\ \A i \in 1 .. d : /\ Entries[k][i].config \in Configs[k] /\ Entries[k][i].name \in Names
                             /\ Entries[k][i].config.name = Entries[k][i].name
        /\ \A c \in Configs[k] : \E i \in 1 .. d : c = Entries[k][i].config
    BY <2>2, EntryIs, ConfigOfEntry
  <2>8. Range(load.new) = Configs[k]
    <3>1. \A x \in Range(load.new) : x \in Configs[k]
      BY <2>4, <2>7 DEF Range
    <3>2. \A x \in Configs[k] : x \in Range(load.new)
      BY <2>4, <2>7 DEF Range
    <3> QED
      BY <3>1, <3>2
  <2>9. Serves(k)'
    <3> SUFFICES ASSUME NEW n \in Names
                 PROVE  LET cs == {c \in Configs[k] : c.name = n}
                        IN  IF model'[n].serves THEN \E c \in cs : Same(model'[n].config, c) /\ ~LoaderGone(c)'
                            ELSE \A c \in cs : LoaderGone(c)'
      BY DEF Serves
    <3>1. \A c : LoaderGone(c)' <=> LoaderGone(c)
      BY <1>2 DEF LoaderGone
    <3>2. CASE n \notin load.seen
      <4>1. \A c \in Configs[k] : c.name # n
        BY <2>4, <2>7, <3>2
      <4> QED
        BY <1>8, <3>2, <4>1
    <3>3. CASE n \in load.seen
      <4>1. PICK i \in 1 .. d : n = Entries[k][i].name
        BY <2>4, <3>3
      <4>2. PICK e : e = Entries[k][i]
        OBVIOUS
      <4>3. \A c \in Configs[k] : c.name = n => c = e.config
        BY <2>4, <2>7, <4>1, <4>2
      <4>4. e.config \in Configs[k] /\ e.config.name = n /\ e.name = n
        BY <2>7, <4>1, <4>2
      <4>5. Follows(e)
        BY <2>4, <4>1, <4>2
      <4>6. IF model[n].serves THEN Same(model[n].config, e.config) /\ ~LoaderGone(e.config) ELSE LoaderGone(e.config)
        BY <4>4, <4>5 DEF Follows
      <4>7. model'[n] = model[n]
        BY <1>8, <3>3
      <4> QED
        BY <3>1, <4>3, <4>4, <4>6, <4>7
    <3> QED
      BY <3>2, <3>3
  <2>10. load'.content = k /\ load.content = k
    BY <1>2, <2>1
  <2>11. Serves(load.content)'
    BY <2>9, <2>10 DEF Serves
  <2>12. Range(served)' = Configs[load.content]'
    BY <1>1, <2>8, <2>10
  <2>13. Distinct(load.content)'
    BY <2>6, <2>10 DEF Distinct
  <2> QED
    BY <2>11, <2>12, <2>13
<1>12. load.ok => LoadersDone'
  BY <1>2, <1>5 DEF LoadersDone
<1>13. At("pipelines")'
  BY <1>2, <1>3, <1>5, <1>11, <1>12 DEF At
<1> QED
  BY <1>1, <1>2, <1>3, <1>6, <1>7, <1>9, <1>10, <1>13, LoadStep

\* The custom node libraries and the pipelines.  A library that stays has the
\* name of one of the list, whether that one could be loaded or not.
LEMMA LoadPipelinesKeeps ==
    ASSUME ReloadInv, NEW t \in Threads, LoadPipelines(t)
    PROVE  ReloadInv'
<1> USE DEF ReloadInv
<1>1. /\ holder = t /\ pc[t] = "pipelines" /\ Go(t, "gated") /\ pipes' = Parsed[load.content].pipes
      /\ load' = [load EXCEPT !.ok = @ /\ Valid(model, pipes')]
  BY DEF LoadPipelines
<1>2. UNCHANGED <<line, file, written, restored, md5, status, holder, model, served, loaders, applied, past, answer>>
  BY DEF LoadPipelines, store, history
<1>3. "pipelines" \in AfterRead /\ "gated" \in AfterRead
  BY DEF AfterRead
<1>4. At("pipelines")
  BY <1>1 DEF Progress
<1>5. PICK k \in Contents : k = load.content
  BY <1>3, <1>4 DEF At
<1>6. load.ok => /\ load.gated = <<>> /\ LoadersDone /\ Serves(k) /\ Range(served) = Configs[k] /\ Distinct(k)
  BY <1>3, <1>4, <1>5 DEF At
<1>7. PICK good \in BOOLEAN : good = (load.ok /\ Valid(model, pipes'))
  OBVIOUS
<1>8. load' = [load EXCEPT !.ok = good] /\ load \in Load
  BY <1>1, <1>7 DEF Types
<1>9. /\ load' \in Load /\ load'.attempt = load.attempt /\ load'.content = load.content
      /\ load'.seen = load.seen /\ load'.new = load.new /\ load'.ok = good /\ load'.gated = load.gated
  BY <1>8 DEF Load
<1>10. Named'
  BY <1>2, <1>9 DEF Named
<1>11. Parsed[k].libraries.present => \A l \in libraries' : \E j \in Parsed[k].libraries.items : j.name = l.name
  <2> SUFFICES ASSUME Parsed[k].libraries.present
               PROVE  \A l \in libraries' : \E j \in Parsed[k].libraries.items : j.name = l.name
    OBVIOUS
  <2>1. PICK items : items = Parsed[k].libraries.items
    OBVIOUS
  <2>2. PICK lost \in SUBSET items : libraries' = Libraries(items, lost)
    BY <1>5, <2>1 DEF LoadPipelines, Losses
  <2> QED
    BY <2>1, <2>2 DEF Libraries
<1>12. good => Truth(k)'
  <2>1. load.ok => Serves(k)'
    BY <1>2, <1>6 DEF Serves, LoaderGone
  <2>2. good => load.ok
    BY <1>7
  <2>3. load.ok /\ Parsed[k].loaders.present => loaders' = Parsed[k].loaders.items
    BY <1>2, <1>5, <1>6 DEF LoadersDone
  <2> QED
    BY <1>1, <1>2, <1>5, <1>6, <1>11, <2>1, <2>2, <2>3 DEF Truth
<1>13. At("gated")'
  <2>1. load'.content = k /\ (good => load.ok)
    BY <1>5, <1>7, <1>9
  <2>2. good => Truth(load.content)'
    BY <1>12, <2>1 DEF Truth, Serves
  <2>3. good => Distinct(load.content)'
    BY <1>6, <2>1 DEF Distinct
  <2> QED
    BY <1>6, <1>9, <2>1, <2>2, <2>3 DEF At
<1> QED
  BY <1>1, <1>2, <1>3, <1>9, <1>10, <1>13, LoadStep DEF Types

\* A blocked configuration: there is one only after an error.
LEMMA LoadGatedKeeps ==
    ASSUME ReloadInv, NEW t \in Threads, LoadGated(t)
    PROVE  ReloadInv'
<1> USE DEF ReloadInv
<1>1. holder = t /\ pc[t] = "gated" /\ load.gated # <<>> /\ UNCHANGED pc
  BY DEF LoadGated
<1>2. UNCHANGED <<line, file, written, restored, md5, status, holder, pipes, loaders, libraries, applied, past, answer>>
  BY DEF LoadGated, store
<1>3. "gated" \in AfterRead
  BY DEF AfterRead
<1>4. At("gated")
  BY <1>1 DEF Progress
<1>5. load.content \in Contents /\ ~load.ok
  BY <1>1, <1>3, <1>4 DEF At
<1>6. load \in Load /\ load.gated \in Seq(AnyConfig) /\ served \in Maps
  BY DEF Types, Load
<1>7. PICK c \in AnyConfig : c = Head(load.gated)
  BY <1>1, <1>6
<1>8. PICK gs \in Seq(AnyConfig) : gs = Tail(load.gated)
  <2>1. Tail(load.gated) \in Seq(AnyConfig)
    BY <1>1, <1>6
  <2> QED
    BY <2>1
<1>9. /\ load' \in Load /\ load'.attempt = load.attempt /\ load'.content = load.content
      /\ load'.seen = load.seen /\ load'.new = load.new /\ load'.ok = load.ok
  <2>1. load' = [load EXCEPT !.gated = gs]
    BY <1>8 DEF LoadGated
  <2> QED
    BY <1>6, <2>1 DEF Load
<1>10. c.name \in Names
  BY AnyConfigIs
<1>11. PICK fails \in BOOLEAN :
         /\ model' = [model EXCEPT ![c.name] = Reloaded(c, fails)]
         /\ served' = IF fails \/ Rejected(c) \/ c.name \notin DOMAIN served THEN served ELSE [served EXCEPT ![c.name] = c]
  BY <1>7 DEF LoadGated, MayFail
<1>12. PICK m : m = Reloaded(c, fails)
  OBVIOUS
<1>13. m \in Model /\ (m.serves => m.config \in AnyConfig)
  BY <1>12, ReloadedIs
<1>14. /\ model' \in [Names -> Model]
       /\ \A n \in Names : model'[n].serves => model'[n].config \in AnyConfig
  BY <1>10, <1>11, <1>12, <1>13 DEF Types
<1>15. /\ served' \in Maps /\ DOMAIN served' = DOMAIN served
       /\ \A n \in DOMAIN served : served'[n] = served[n] \/ (n = c.name /\ served'[n] = c)
  <2>1. CASE served' = served
    BY <1>6, <2>1
  <2>2. CASE c.name \in DOMAIN served /\ served' = [served EXCEPT ![c.name] = c]
    <3>1. DOMAIN served \subseteq Names /\ \A n \in DOMAIN served : served[n] \in AnyConfig
      BY <1>6, MapIs
    <3>2. served' \in [DOMAIN served -> AnyConfig]
      BY <2>2, <3>1
    <3>3. served' \in Maps
      BY <3>1, <3>2, IsMap
    <3> QED
      BY <2>2, <3>3
  <2> QED
    BY <1>11, <2>1, <2>2
<1>16. Named'
  BY <1>9, <1>15 DEF Named
<1>17. At("gated")'
  BY <1>5, <1>9 DEF At
<1> QED
  BY <1>1, <1>2, <1>3, <1>9, <1>14, <1>15, <1>16, <1>17, Stay, LoadStep

-----------------------------------------------------------------------------
\* The updates between two loads

\* Of a content whose entries have different names, settings are found by the name.
LEMMA UniqueConfig ==
    ASSUME NEW c \in Contents, Distinct(c), NEW j \in Configs[c], NEW k \in Configs[c], j.name = k.name
    PROVE  j = k
<1>1. PICK a \in 1 .. Len(Entries[c]) : j = Entries[c][a].config
  BY ConfigOfEntry
<1>2. PICK b \in 1 .. Len(Entries[c]) : k = Entries[c][b].config
  BY ConfigOfEntry
<1>3. Entries[c][a].name = Entries[c][b].name
  BY <1>1, <1>2, EntryIs
<1>4. a \in DOMAIN Entries[c] /\ b \in DOMAIN Entries[c]
  BY EntriesAre
<1> QED
  BY <1>1, <1>2, <1>3, <1>4 DEF Distinct

\* Of a content that is there, an update has nothing to load and nothing to
\* retire.
LEMMA NothingToDo ==
    ASSUME Types, Named, NEW c \in Contents, Truth(c), Distinct(c), NEW n \in DOMAIN served,
           NEW fails, NEW r, r = Reloaded(served[n], fails)
    PROVE  (r.serves <=> model[n].serves) /\ r.config = model[n].config
<1>1. n \in Names /\ served[n] \in AnyConfig /\ served[n].name = n
  BY MapIs DEF Types, Named
<1>2. PICK k : k = served[n]
  OBVIOUS
<1>3. k \in Configs[c]
  BY <1>2 DEF Truth, Range
<1>4. PICK m : m = model[n]
  OBVIOUS
<1>5. m \in Model /\ (m.serves => m.config \in AnyConfig)
  BY <1>1, <1>4 DEF Types
<1>6. \A j \in Configs[c] : j.name = n => j = k
  BY <1>1, <1>2, <1>3, UniqueConfig
<1>7. IF m.serves THEN Same(m.config, k) /\ ~LoaderGone(k) ELSE LoaderGone(k)
  <2>1. LET cs == {j \in Configs[c] : j.name = n}
        IN  IF m.serves THEN \E j \in cs : Same(m.config, j) /\ ~LoaderGone(j) ELSE \A j \in cs : LoaderGone(j)
    BY <1>1, <1>4 DEF Truth, Serves
  <2> QED
    BY <1>1, <1>2, <1>3, <1>6, <2>1
<1>8. ~Needed(k)
  <2>1. m.serves => ~isReloadRequired(m.config, k)
    <3>1. DOMAIN k = Fields /\ (m.serves => DOMAIN m.config = Fields)
      BY <1>1, <1>2, <1>5, AnyConfigIs
    <3> QED
      BY <1>7, <3>1, SameIsNotReloaded
  <2> QED
    BY <1>1, <1>2, <1>4, <1>7, <2>1 DEF Needed
<1>9. PICK d : d = KindOf(k)
  OBVIOUS
<1>10. r = m \/ (LoaderGone(k) /\ r = [m EXCEPT !.kind = d, !.serves = FALSE])
  BY <1>1, <1>2, <1>4, <1>8, <1>9 DEF Reloaded
<1>11. CASE r = m
  BY <1>4, <1>11
<1>12. CASE LoaderGone(k) /\ r = [m EXCEPT !.kind = d, !.serves = FALSE]
  <2>1. ~m.serves
    BY <1>7, <1>12
  <2>2. ~r.serves /\ r.config = m.config
    BY <1>5, <1>12 DEF Model
  <2> QED
    BY <1>4, <2>1, <2>2
<1> QED
  BY <1>10, <1>11, <1>12

\* An update between two loads: it keeps what OK promises, and a request is answered
\* with what was applied while it was served.
LEMMA UpdateKeeps ==
    ASSUME ReloadInv, NEW t \in Threads, Update(t)
    PROVE  ReloadInv'
<1> USE DEF ReloadInv
<1>1. holder = t /\ pc[t] = "update" /\ holder' = None
  BY DEF Update
<1>2. UNCHANGED <<line, file, written, restored, md5, status, load, served, pipes, loaders, libraries, applied, past>>
  BY DEF Update, store
<1>3. t \in Requests <=> t # Watcher
  BY ConfigAssumption DEF Threads
<1>4. PICK lost :
         /\ model' = [n \in Names |-> IF n \in DOMAIN served THEN Reloaded(served[n], n \in lost) ELSE model[n]]
         /\ \/ t = Watcher /\ Go(t, "idle") /\ UNCHANGED answer
            \/ \E ok \in BOOLEAN : t \in Requests /\ Go(t, "answered") /\ Answer(t, ok)
  <2>1. PICK lost :
           /\ model' = [n \in Names |-> IF n \in DOMAIN served THEN Reloaded(served[n], n \in lost) ELSE model[n]]
           /\ IF t = Watcher THEN Go(t, "idle") /\ UNCHANGED answer
              ELSE Go(t, "answered") /\ Answer(t, lost = {} /\ Valid(model', pipes) /\ \A n \in DOMAIN served : ~Rejected(served[n]))
    BY DEF Update
  <2>2. PICK ok \in BOOLEAN : ok = (lost = {} /\ Valid(model', pipes) /\ \A n \in DOMAIN served : ~Rejected(served[n]))
    OBVIOUS
  <2>3. \/ t = Watcher /\ Go(t, "idle") /\ UNCHANGED answer
        \/ \E o \in BOOLEAN : t \in Requests /\ Go(t, "answered") /\ Answer(t, o)
    <3>1. CASE t = Watcher
      BY <2>1, <3>1
    <3>2. CASE t # Watcher
      <4>1. Go(t, "answered") /\ Answer(t, ok)
        BY <2>1, <2>2, <3>2
      <4> QED
        BY <1>3, <3>2, <4>1
    <3> QED
      BY <3>1, <3>2
  <2> QED
    BY <2>1, <2>3
<1>5. PICK p \in {"idle", "answered"} : Go(t, p)
  BY <1>4
<1>6. p \in PCs /\ p \in WaitPCs /\ p \notin LoadPCs /\ p \notin AfterRead /\ pc[t] \notin LoadPCs
  BY <1>1, <1>5 DEF PCs, WaitPCs, LoadPCs, AfterRead
<1>7. /\ pc'[t] = p /\ pc' \in [Threads -> PCs] /\ ~Loading /\ ~Loading' /\ ~HasRead'
      /\ \A u \in Threads : u # t => pc'[u] = pc[u] /\ pc[u] \notin HolderPCs
  BY <1>1, <1>5, <1>6, Alone
<1>8. /\ answer' \in [Requests -> AnAnswer]
      /\ \A r \in Requests : \/ answer'[r] = answer[r]
                             \/ r = t /\ answer'[r].given /\ answer'[r].applied = applied
  <2>1. CASE UNCHANGED answer
    BY <2>1 DEF Types
  <2>2. CASE \E ok \in BOOLEAN : t \in Requests /\ Answer(t, ok)
    <3>1. PICK ok \in BOOLEAN : t \in Requests /\ Answer(t, ok)
      BY <2>2
    <3>2. /\ answer' \in [Requests -> AnAnswer]
          /\ answer'[t] = [given |-> TRUE, ok |-> ok, applied |-> applied]
          /\ \A r \in Requests : r # t => answer'[r] = answer[r]
      BY <3>1, AnswerIs
    <3>3. answer'[t].given /\ answer'[t].applied = applied
      BY <3>2
    <3> QED
      BY <3>2, <3>3
  <2> QED
    BY <1>4, <2>1, <2>2
<1>9. \A n \in DOMAIN served : n \in Names /\ served[n] \in AnyConfig
  BY MapIs DEF Types
<1>10. \A n \in Names : model'[n] \in Model /\ (model'[n].serves => model'[n].config \in AnyConfig)
  <2> TAKE n \in Names
  <2>1. CASE n \in DOMAIN served
    <3>1. PICK f \in BOOLEAN : f = (n \in lost)
      <4>1. (n \in lost) \in BOOLEAN
        OBVIOUS
      <4> QED
        BY <4>1
    <3>2. model'[n] = Reloaded(served[n], f)
      BY <1>4, <2>1, <3>1
    <3> QED
      BY <1>9, <2>1, <3>2, ReloadedIs
  <2>2. CASE n \notin DOMAIN served
    BY <1>4, <2>2 DEF Types
  <2> QED
    BY <2>1, <2>2
<1>11. model' \in [Names -> Model]
  BY <1>4, <1>10
<1>12. Types'
  BY <1>1, <1>2, <1>7, <1>8, <1>10, <1>11 DEF Types
<1>13. Mutex'
  BY <1>1, <1>5, <1>6, MutexKept
<1>14. Named'
  BY <1>2 DEF Named
<1>15. Settled'
  <2> SUFFICES ASSUME ~cli
               PROVE  applied \in Contents /\ (status => Truth(applied)' /\ Distinct(applied)')
    BY <1>2 DEF Settled, cli
  <2>1. applied \in Contents /\ (status => Truth(applied) /\ Distinct(applied))
    BY <1>7 DEF Settled
  <2>2. ASSUME status
        PROVE  Truth(applied)' /\ Distinct(applied)'
    <3>1. PICK k \in Contents : k = applied
      BY <2>1
    <3>2. Truth(k) /\ Distinct(k)
      BY <2>1, <2>2, <3>1
    <3>3. \A n \in Names : (model'[n].serves <=> model[n].serves) /\ model'[n].config = model[n].config
      <4> TAKE n \in Names
      <4>1. CASE n \in DOMAIN served
        <5>1. PICK f : f = (n \in lost)
          OBVIOUS
        <5>2. model'[n] = Reloaded(served[n], f)
          BY <1>4, <4>1, <5>1
        <5> QED
          BY <3>2, <4>1, <5>2, NothingToDo
      <4>2. CASE n \notin DOMAIN served
        BY <1>4, <4>2
      <4> QED
        BY <4>1, <4>2
    <3>4. Serves(k)'
      <4>1. Serves(k)
        BY <3>2 DEF Truth
      <4> QED
        BY <1>2, <3>3, <4>1 DEF Serves, LoaderGone
    <3>5. Truth(k)'
      BY <1>2, <3>2, <3>4 DEF Truth
    <3>6. applied' = k
      BY <1>2, <3>1
    <3>7. Truth(applied)'
      BY <3>5, <3>6 DEF Truth, Serves
    <3>8. Distinct(applied)'
      BY <3>2, <3>6 DEF Distinct
    <3> QED
      BY <3>7, <3>8
  <2> QED
    BY <2>1, <2>2
<1>16. Progress'
  <2>1. At(p)'
    BY <1>6 DEF At, LoadPCs
  <2> QED
    BY <1>1, <1>5, <1>6, <2>1, ProgressAt
<1>17. Sums'
  BY <1>2, <1>7 DEF Sums
<1>18. Fresh'
  <2> SUFFICES ASSUME NEW r \in Requests
               PROVE  /\ pc'[r] \notin {"idle", "answered"} => file \in past[r]
                      /\ pc'[r] \notin AfterRead
                      /\ ~restored /\ pc'[r] \in {"last", "update"} => applied \in past[r]
                      /\ answer'[r].ok => answer'[r].given
                      /\ ~restored /\ answer'[r].ok => answer'[r].applied \in past[r]
    BY <1>2, <1>7 DEF Fresh
  <2>1. r \in Threads
    BY DEF Threads
  <2>2. pc'[r] \notin AfterRead
    BY <1>7, <2>1 DEF HasRead
  <2>3. pc'[r] \notin {"idle", "answered"} => pc'[r] = pc[r]
    BY <1>5, <1>7, <2>1
  <2>4. (answer'[r].ok => answer'[r].given) /\ (~restored /\ answer'[r].ok => answer'[r].applied \in past[r])
    <3>1. CASE answer'[r] = answer[r]
      BY <3>1 DEF Fresh
    <3>2. CASE r = t /\ answer'[r].given /\ answer'[r].applied = applied
      BY <1>1, <3>2 DEF Fresh
    <3> QED
      BY <1>8, <3>1, <3>2
  <2> QED
    BY <2>2, <2>3, <2>4 DEF Fresh
<1>19. CommandLine'
  BY <1>2, <1>5, <1>7 DEF CommandLine
<1> QED
  BY <1>12, <1>13, <1>14, <1>15, <1>16, <1>17, <1>18, <1>19

-----------------------------------------------------------------------------
\* The start

\* From a file: the models are those of the file, with their loaders.
LEMMA StartedFromFile ==
    ASSUME Init, StartFromFile
    PROVE  /\ Initial \in Contents /\ served \in Maps /\ \A n \in DOMAIN served : served[n].name = n
           /\ Truth(Initial) /\ Distinct(Initial)
<1>1. Initial \in Contents /\ \A i, j \in DOMAIN Parsed[Initial].models : i # j => Parsed[Initial].models[i].name # Parsed[Initial].models[j].name
  BY ConfigAssumption DEF Good
<1>2. Distinct(Initial)
  <2>1. /\ DOMAIN Entries[Initial] = DOMAIN Parsed[Initial].models
        /\ \A i \in DOMAIN Entries[Initial] : Entries[Initial][i].name = Parsed[Initial].models[i].name
    BY <1>1 DEF Entries, Seen
  <2> QED
    BY <1>1, <2>1 DEF Distinct
<1>3. \A c \in Configs[Initial] : c.name \in Names /\ c \in AnyConfig
  BY <1>1, ConfigOfEntry, EntryIs
<1>4. PICK ns \in SUBSET Names : ns = {c.name : c \in Configs[Initial]}
  BY <1>3
<1>5. served = [n \in ns |-> CHOOSE c \in Configs[Initial] : c.name = n]
  BY <1>4 DEF StartFromFile
<1>6. \A n \in ns : served[n] \in Configs[Initial] /\ served[n].name = n
  BY <1>4, <1>5
<1>7. served \in Maps /\ DOMAIN served = ns
  <2>1. served \in [ns -> AnyConfig]
    BY <1>3, <1>5, <1>6
  <2> QED
    BY <2>1, IsMap
<1>8. \A c \in Configs[Initial] : c.name \in ns /\ served[c.name] = c
  BY <1>1, <1>2, <1>4, <1>6, UniqueConfig
<1>9. Range(served) = Configs[Initial]
  <2>1. \A c \in Range(served) : c \in Configs[Initial]
    BY <1>6, <1>7 DEF Range
  <2>2. \A c \in Configs[Initial] : c \in Range(served)
    BY <1>7, <1>8 DEF Range
  <2> QED
    BY <2>1, <2>2
<1>10. model = [n \in Names |-> IF n \in ns THEN Started(served[n]) ELSE Absent]
  BY <1>7 DEF Init
<1>11. Serves(Initial)
  <2> SUFFICES ASSUME NEW n \in Names
               PROVE  LET cs == {c \in Configs[Initial] : c.name = n}
                      IN  IF model[n].serves THEN \E c \in cs : Same(model[n].config, c) /\ ~LoaderGone(c)
                          ELSE \A c \in cs : LoaderGone(c)
    BY DEF Serves
  <2>1. CASE n \in ns
    <3>1. PICK c \in Configs[Initial] : c = served[n] /\ c.name = n
      BY <1>6, <2>1
    <3>2. PICK k, s : k = KindOf(c) /\ s = ~LoaderGone(c)
      OBVIOUS
    <3>3. (model[n].serves <=> ~LoaderGone(c)) /\ model[n].config = c
      <4>1. model[n] = [kind |-> k, serves |-> s, config |-> c]
        BY <1>10, <2>1, <3>1, <3>2 DEF Started
      <4>2. model[n].serves = s /\ model[n].config = c
        BY <4>1
      <4> QED
        BY <3>2, <4>2, Zenon
    <3>4. \A d \in Configs[Initial] : d.name = n => d = c
      BY <1>8, <3>1
    <3>5. Same(c, c)
      BY DEF Same
    <3> QED
      BY <3>1, <3>3, <3>4, <3>5
  <2>2. CASE n \notin ns
    <3>1. ~model[n].serves
      BY <1>10, <2>2 DEF Absent
    <3> QED
      BY <1>8, <2>2, <3>1
  <2> QED
    BY <2>1, <2>2
<1>12. Truth(Initial)
  BY <1>9, <1>11 DEF Truth, StartFromFile
<1> QED
  BY <1>1, <1>2, <1>6, <1>7, <1>12

\* The invariant holds at the start, from a file and from the command line.
LEMMA ReloadInit ==
    ASSUME Init
    PROVE  ReloadInv
<1>1. /\ written = {file} /\ restored = FALSE /\ md5 = file /\ status = TRUE /\ applied = file
      /\ holder = None /\ pc = [t \in Threads |-> "idle"] /\ load = NoLoad
      /\ model = [n \in Names |-> IF n \in DOMAIN served THEN Started(served[n]) ELSE Absent]
      /\ past = [r \in Requests |-> {}] /\ answer = [r \in Requests |-> NoAnswer]
  BY DEF Init
<1>2. "idle" \in PCs /\ "idle" \notin HolderPCs /\ "idle" \notin LoadPCs /\ "idle" \notin AfterRead
  BY DEF PCs, WaitPCs, HolderPCs, LoadPCs, AfterRead
<1>3. /\ file \in AnyContent /\ served \in Maps /\ \A n \in DOMAIN served : served[n].name = n
  <2>1. CASE StartFromFile
    BY <2>1, StartedFromFile DEF StartFromFile, AnyContent
  <2>2. CASE StartFromConfig
    <3>1. PICK v \in CommandLines : served = [n \in {v.name} |-> startFromConfig(v)]
      BY <2>2 DEF StartFromConfig
    <3>2. v.name \in Names /\ startFromConfig(v) \in AnyConfig /\ startFromConfig(v).name = v.name
      BY ConfigAssumption, SettingsFields DEF AnyConfig, startFromConfig
    <3>3. served \in [{v.name} -> AnyConfig] /\ {v.name} \in SUBSET Names
      BY <3>1, <3>2
    <3>4. served \in Maps
      BY <3>3, IsMap
    <3> QED
      BY <2>2, <3>1, <3>2, <3>4 DEF StartFromConfig, AnyContent
  <2> QED
    BY <2>1, <2>2 DEF Init
<1>4. ~Loading /\ ~HasRead
  BY <1>1, <1>2 DEF Loading, HasRead
<1>5. Types
  <2>1. \A n \in Names : model[n] \in Model /\ (model[n].serves => model[n].config \in AnyConfig)
    <3> TAKE n \in Names
    <3>1. CASE n \in DOMAIN served
      <4>1. PICK c \in AnyConfig : c = served[n]
        BY <1>3, <3>1, MapIs
      <4>2. PICK k \in {"stateful", "stateless"}, s \in BOOLEAN : k = KindOf(c) /\ s = ~LoaderGone(c)
        BY DEF KindOf
      <4>3. model[n] = [kind |-> k, serves |-> s, config |-> c]
        BY <1>1, <3>1, <4>1, <4>2 DEF Started
      <4> QED
        BY <4>3 DEF Model
    <3>2. CASE n \notin DOMAIN served
      BY <1>1, <3>2 DEF Absent, Model
    <3> QED
      BY <3>1, <3>2
  <2>2. model \in [Names -> Model]
    BY <1>1, <2>1
  <2>3. NoAnswer \in AnAnswer
    BY DEF NoAnswer, AnAnswer, AnyContent
  <2>4. answer \in [Requests -> AnAnswer] /\ past \in [Requests -> SUBSET AnyContent] /\ pc \in [Threads -> PCs]
    BY <1>1, <1>2, <2>3
  <2> QED
    BY <1>1, <1>3, <2>1, <2>2, <2>4, NoLoadIs DEF Types
<1>6. Mutex
  BY <1>1, <1>2, ConfigAssumption DEF Mutex
<1>7. Named
  BY <1>1, <1>3, EmptyMap DEF Named, NoLoad
<1>8. Settled
  <2>1. CASE StartFromFile
    BY <1>1, <2>1, StartedFromFile DEF Settled, StartFromFile
  <2>2. CASE StartFromConfig
    BY <2>2 DEF Settled, StartFromConfig, cli
  <2> QED
    BY <2>1, <2>2 DEF Init
<1>9. Progress
  <2>1. At("idle")
    BY <1>2, AtOther
  <2> QED
    BY <1>1, <2>1 DEF Progress
<1>10. Sums
  BY <1>1, <1>4 DEF Sums
<1>11. Fresh
  <2>1. \A r \in Requests : r \in Threads /\ pc[r] = "idle" /\ ~answer[r].ok
    BY <1>1 DEF Threads, NoAnswer
  <2> QED
    BY <1>2, <2>1 DEF Fresh
<1>12. CommandLine
  <2>1. CASE StartFromFile
    BY <2>1 DEF CommandLine, StartFromFile
  <2>2. CASE StartFromConfig
    BY <1>1, <2>2 DEF CommandLine, StartFromConfig
  <2> QED
    BY <2>1, <2>2 DEF Init
<1> QED
  BY <1>5, <1>6, <1>7, <1>8, <1>9, <1>10, <1>11, <1>12 DEF ReloadInv

-----------------------------------------------------------------------------
\* The theorems

\* Every step of a thread that holds configMtx keeps the invariant.
LEMMA ApplyKeeps ==
    ASSUME ReloadInv, NEW t \in Threads, Apply(t)
    PROVE  ReloadInv'
<1>1. CASE \E e \in Range(load.todo) : (SkipEntry(t, e) \/ BadPlugin(t, e) \/ BlockedEntry(t, e) \/ LoadModel(t, e))
  BY <1>1, SkipEntryKeeps, BadPluginKeeps, BlockedEntryKeeps, LoadModelKeeps
<1>2. CASE Exists(t) \/ Compare(t) \/ TakeMD5(t) \/ Read(t) \/ LoadLoaders(t)
  BY <1>2, ExistsKeeps, CompareKeeps, TakeMD5Keeps, ReadKeeps, LoadLoadersKeeps
<1>3. CASE RetireRemoved(t) \/ LoadPipelines(t) \/ LoadGated(t) \/ EndLoad(t) \/ Update(t)
  BY <1>3, RetireRemovedKeeps, LoadPipelinesKeeps, LoadGatedKeeps, EndLoadKeeps, UpdateKeeps
<1> QED
  BY <1>1, <1>2, <1>3 DEF Apply

\* So does a step that changes nothing.
LEMMA StutterKeeps ==
    ASSUME ReloadInv, UNCHANGED vars
    PROVE  ReloadInv'
<1> USE DEF ReloadInv
<1>1. UNCHANGED <<line, file, written, restored, md5, status, holder, pc, load, model, served, pipes, loaders, libraries, applied, past, answer>>
  BY DEF vars, store, server, history
<1>2. (Loading' <=> Loading) /\ (HasRead' <=> HasRead)
  BY <1>1 DEF Loading, HasRead
<1>3. Types' /\ Mutex' /\ Named'
  BY <1>1 DEF Types, Mutex, Named
<1>4. Settled'
  <2>1. (Truth(applied) => Truth(applied)') /\ (Distinct(applied) => Distinct(applied)')
    BY <1>1 DEF Truth, Serves, LoaderGone, Distinct
  <2> QED
    BY <1>1, <1>2, <2>1 DEF Settled, cli
<1>5. Progress'
  <2> SUFFICES ASSUME NEW u \in Threads
               PROVE  At(pc[u])'
    BY DEF Progress
  <2>1. PICK q : q = pc[u]
    OBVIOUS
  <2>2. At(q)
    BY <2>1 DEF Progress
  <2>3. At(q)' /\ pc'[u] = q
    BY <1>1, <2>1, <2>2, AtSame
  <2> QED
    BY <2>3 DEF At
<1>6. Sums' /\ Fresh' /\ CommandLine'
  BY <1>1, <1>2 DEF Sums, Fresh, CommandLine
<1> QED
  BY <1>3, <1>4, <1>5, <1>6

\* The inductive invariant: at every step of a load, of an update, of a request
\* and of the file, what the status says of the content loaded last holds, and
\* what a request may rely on was in the file while it was served.
THEOREM ReloadInvariant == Spec => []ReloadInv
<1>1. Init => ReloadInv
  BY ReloadInit
<1>2. ReloadInv /\ [Next]_vars => ReloadInv'
  <2> SUFFICES ASSUME ReloadInv, [Next]_vars
               PROVE  ReloadInv'
    OBVIOUS
  <2>1. ASSUME NEW t \in Threads, Lock(t) \/ Apply(t)
        PROVE  ReloadInv'
    BY <2>1, LockKeeps, ApplyKeeps
  <2>2. ASSUME NEW r \in Requests, Arrive(r)
        PROVE  ReloadInv'
    BY <2>2, ArriveKeeps
  <2>3. ASSUME NEW c \in Contents \cup {Missing}, Edit(c)
        PROVE  ReloadInv'
    BY <2>3, EditKeeps
  <2>4. CASE UNCHANGED vars
    BY <2>4, StutterKeeps
  <2> QED
    BY <2>1, <2>2, <2>3, <2>4 DEF Next
<1> QED
  BY <1>1, <1>2, PTL DEF Spec

\* Only the thread that holds configMtx is inside loadConfig or an update, the
\* file is read no more often than the code allows, and the configurations kept
\* are under the names of their models.
THEOREM ReloadTypeCorrect == Spec => []TypeOK
<1>1. ReloadInv => TypeOK
  <2> SUFFICES ASSUME ReloadInv
               PROVE  TypeOK
    OBVIOUS
  <2> USE DEF ReloadInv
  <2>1. \A t \in Threads : holder # t => pc[t] \in {"idle", "check", "load", "last", "answered"}
    <3>1. \A t \in Threads : pc[t] \in HolderPCs \cup WaitPCs
      BY DEF Types, PCs
    <3> QED
      BY <3>1 DEF Mutex, WaitPCs
  <2> QED
    BY <2>1 DEF Types, Named, TypeOK, AnyContent
<1> QED
  BY <1>1, ReloadInvariant, PTL

\* OK is true: when configMtx is free and lastLoadConfigStatus is OK, the models,
\* pipelines, loaders, libraries and kept configurations are those of the content
\* loaded last; and a reload request answered with OK has had a content applied
\* that the file had while the request was served, unless the file got an earlier
\* content back.
THEOREM OkMeansApplied == Spec => []OkIsTrue
<1>1. ReloadInv => OkIsTrue
  <2> SUFFICES ASSUME ReloadInv
               PROVE  OkIsTrue
    OBVIOUS
  <2> USE DEF ReloadInv
  <2>1. ASSUME ~cli, holder = None, status
        PROVE  Truth(applied)
    <3>1. \A t \in Threads : pc[t] \notin LoadPCs
      BY <2>1, ConfigAssumption, Disjoint DEF Mutex
    <3>2. ~Loading
      BY <3>1 DEF Loading
    <3> QED
      BY <2>1, <3>2 DEF Settled
  <2>2. \A r \in Requests : answer[r].ok /\ ~restored => answer[r].applied \in past[r]
    BY DEF Fresh
  <2> QED
    BY <2>1, <2>2 DEF OkIsTrue, Truth
<1> QED
  BY <1>1, ReloadInvariant, PTL

\* What Config::validate lets pass is a valid entry, with the same settings, when
\* its options for sequences go with a stateful flag that is not false: a shape
\* that passes is not left out by parseNode, and a batch size is read the same
\* way from a text as from a number other than 0.
LEMMA CliIsNode ==
    ASSUME NEW v \in CommandLines, CliValid(v),
           ~(v.batch.form = "number" /\ v.batch.value = 0),
           v.shape.anonymous \/ ANONYMOUS_INPUT_NAME \notin DOMAIN v.shape.of,
           ~(v.stateful = "false" /\ v.sequences # "absent")
    PROVE  NodeValid(v) /\ startFromConfig(v) = parseNode(v)
<1>1. NodeValid(v)
  BY ConfigAssumption DEF CliValid, NodeValid
<1>2. NodeShapes(v.shape) = DOMAIN v.shape.of
  BY DEF CliValid, CliShapesValid, NodeShapes
<1>3. CliBatching(v.batch) = extractBatchingParams(v.batch)
  BY DEF CliBatching, extractBatchingParams
<1> QED
  BY <1>1, <1>2, <1>3 DEF startFromConfig, parseNode

\* A model on the command line has the settings that parseNode would read from a
\* file, but for the three exceptions CliAgrees names, however long the watcher and
\* the requests apply them again.
THEOREM CommandLineAgreesWithFile == Spec => []CliAgrees
<1>1. ReloadInv => CliAgrees
  <2> SUFFICES ASSUME ReloadInv, NEW v \in line,
                      ~(v.batch.form = "number" /\ v.batch.value = 0),
                      ~(~v.shape.anonymous /\ ANONYMOUS_INPUT_NAME \in DOMAIN v.shape.of),
                      ~(v.stateful = "false" /\ v.sequences # "absent")
               PROVE  NodeValid(v) /\ served[v.name] = parseNode(v)
    BY DEF CliAgrees
  <2>1. v \in CommandLines /\ CliValid(v) /\ served[v.name] = startFromConfig(v)
    BY DEF ReloadInv, CommandLine
  <2> QED
    BY <2>1, CliIsNode
<1> QED
  BY <1>1, ReloadInvariant, PTL
=============================================================================
