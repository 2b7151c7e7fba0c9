---------------------------- MODULE RemoteFiles ----------------------------
(***************************************************************************)
(* The copies of models kept in S3, in Google Cloud Storage, in Azure blob *)
(* containers ("az") and in Azure file shares ("azfs").  The versions to   *)
(* start or to reload are downloaded together into a new temporary         *)
(* directory; a model instance remembers where its copy is, and the copy   *)
(* is deleted when the version is retired or could not be loaded.          *)
(*                                                                         *)
(* Each request to the storage and each directory made is a step: between  *)
(* two of them the remote objects may change, and any of them may fail.    *)
(* A path is the sequence of its names below the base path of the model;   *)
(* a local one starts with the number of its temporary directory.          *)
(***************************************************************************)
EXTENDS Integers, Sequences, FiniteSets, SequencesExt, FiniteSetsExt, Functions

CONSTANTS
    Backends,      \* which storages are looked at
    Versions,      \* the versions, as names of directories
    Objects,       \* the paths at which there may be objects
    Stores,        \* the sets of objects that may be there at first
    Accepted,      \* the names with one of the accepted endings
    PageSize,      \* what a listing returns at most in one page
    MaxTemp,       \* bound on the temporary directories made
    MaxTroubles    \* bound on the requests that fail and the changes of objects

ASSUME FilesAssumption ==
    /\ Backends \subseteq {"s3", "gs", "az", "azfs"}
    /\ IsFiniteSet(Versions) /\ IsFiniteSet(Objects)
    /\ \A o \in Objects : o \in Seq(STRING) /\ Len(o) >= 2 /\ o[1] \in Versions
    /\ \A os \in Stores : os \subseteq Objects
    /\ {PageSize, MaxTemp, MaxTroubles} \subseteq Nat

VARIABLES
    backend,    \* the storage
    remote,     \* path of each remote object |-> the number of its last change
    changes,    \* how often the remote objects have changed
    calm,       \* whether they have not since the download began
    faults,     \* how many requests have failed
    failed,     \* which kinds have since the download began
    dirs,       \* the local directories of the temporary paths and versions
    copies,     \* local path of each file |-> what it was copied from
    temp,       \* the number of the last temporary path
    instance,   \* the model instances: their state and their local path
    config,     \* the local path in the configuration of the model
    op,         \* the operation of the model: its versions, done one by one
    load        \* the download: its versions, its result and its open folders
files == <<remote, changes, calm>>
vars == <<backend, remote, changes, calm, faults, failed, dirs, copies, temp, instance, config, op, load>>

NoPath == 0   \* the empty local path of a configuration that has only been read
Ok == "OK"
Failed == "failed"

Idle == [kind |-> "idle", todo |-> <<>>, batch |-> {}, moved |-> FALSE]
NoLoad == [phase |-> "none", todo |-> {}, version |-> "", result |-> Ok, stack |-> <<>>]

\* A function with the value at one argument set.
With(f, x, y) == [z \in DOMAIN f \cup {x} |-> IF z = x THEN y ELSE f[z]]

TypeOK ==
    /\ backend \in Backends
    /\ DOMAIN remote \subseteq Objects
    /\ \A l \in DOMAIN copies : l[1] \in 1 .. temp /\ l[2] \in Versions
    /\ \A v \in Versions :
         /\ instance[v].state \in {"none", "LOADING", "AVAILABLE", "END"}
         /\ instance[v].local \in 0 .. temp
    /\ config \in 0 .. temp
    /\ load.phase \in {"none", "versions", "folder", "done"}
    /\ \A i \in DOMAIN load.stack : load.stack[i].phase \in {"check", "list", "sort", "walk"}

-----------------------------------------------------------------------------
\* What the storages answer

Below(path) == {o \in DOMAIN remote : IsStrictPrefix(path, o)}
IsDir(path) == Below(path) # {}
Names(path, objects) == {o[Len(path) + 1] : o \in objects}

\* The pages a listing may start with; only the first is looked at.
FirstPages(items) ==
    IF Cardinality(items) <= PageSize THEN {items} ELSE kSubset(PageSize, items)

\* isDirectory, when the request fails (f) and when it does not.
Answer(status, value) == [status |-> status, value |-> value]
s3_isDirectory(path, f) == IF f THEN Answer(Failed, FALSE) ELSE Answer(Ok, IsDir(path))
gs_isDirectory(path, f) == Answer(Ok, ~f /\ IsDir(path))
az_isDirectory(path, f) == IF f THEN Answer(Failed, FALSE) ELSE Answer(Ok, IsDir(path))
azfs_isDirectory(path, f) ==
    IF f THEN Answer(Failed, FALSE) ELSE Answer(Ok, \A i \in 1 .. Len(path) : IsDir(SubSeq(path, 1, i)))

\* Listings: S3 lists keys, the others what is directly in a directory.
s3_getDirectoryContents(path) == {Names(path, page) : page \in FirstPages(Below(path))}
gs_getDirectoryContents(path) == {Names(path, Below(path))}
Subdirs(path, names) == {n \in names : IsDir(Append(path, n))}
az_getDirectorySubdirs(path) == {Subdirs(path, page) : page \in FirstPages(Names(path, Below(path)))}
az_getDirectoryFiles(path) == {page \ Subdirs(path, page) : page \in FirstPages(Names(path, Below(path)))}

\* A file share looks the directories of the path up one by one and goes on
\* with the last that it has found, also when a request has failed.
WorkingSubdirs(path, f) ==
    IF f THEN {SubSeq(path, 1, i) : i \in 0 .. Len(path) - 1}
    ELSE {SubSeq(path, 1, Max({0} \cup {i \in 1 .. Len(path) : IsDir(SubSeq(path, 1, i))}))}
azfs_getDirectorySubdirs(path, f) == UNION {az_getDirectorySubdirs(d) : d \in WorkingSubdirs(path, f)}
azfs_getDirectoryFiles(path, f) == UNION {az_getDirectoryFiles(d) : d \in WorkingSubdirs(path, f)}

-----------------------------------------------------------------------------
\* Faults

MayFail == IF faults + changes < MaxTroubles THEN BOOLEAN ELSE {FALSE}
Fault(f, kind) ==
    /\ faults' = IF f THEN faults + 1 ELSE faults
    /\ failed' = IF f THEN failed \cup {kind} ELSE failed

-----------------------------------------------------------------------------
\* downloadModelVersions

Folder(path) == [path |-> path, phase |-> "check", want |-> "dirs", opened |-> <<>>, items |-> {}, dirs |-> {}, files |-> {}]

StartDownload(batch) ==
    load' = [NoLoad EXCEPT !.phase = "versions", !.todo = batch]

\* createTempPath, before the first version.
CreateTempPath ==
    /\ load.phase = "versions" /\ load.version = "" /\ load.todo # {} /\ load.todo = op.batch
    /\ temp < MaxTemp
    /\ \E f \in MayFail :
         /\ faults' = IF f THEN faults + 1 ELSE faults
         /\ failed' = {} /\ calm' = TRUE
         /\ IF f THEN load' = [load EXCEPT !.phase = "done", !.result = Failed] /\ UNCHANGED <<temp, dirs>>
            ELSE /\ temp' = temp + 1 /\ dirs' = dirs \cup {<<temp + 1>>}
                 /\ load' = [load EXCEPT !.version = "?"]
    /\ UNCHANGED <<backend, remote, changes, copies, instance, config, op>>

\* The end of a version: Azure gives up at the first that fails, the others
\* go on and remember the failure.
VersionDone_LastCounts(status) ==
    IF backend \in {"az", "azfs"} /\ status # Ok
    THEN [load EXCEPT !.phase = "done", !.stack = <<>>, !.result = status]
    ELSE [load EXCEPT !.phase = "versions", !.stack = <<>>, !.result = status]

VersionDone(status) ==
    IF backend \in {"az", "azfs"} /\ status # Ok
    THEN [load EXCEPT !.phase = "done", !.stack = <<>>, !.result = status]
    ELSE [load EXCEPT !.phase = "versions", !.stack = <<>>, !.result = IF status = Ok THEN @ ELSE status]

\* Azure first asks whether the container or the share is there.
checkPath == IF backend \in {"az", "azfs"} THEN MayFail ELSE {FALSE}

NextVersion ==
    /\ load.phase = "versions" /\ load.version # "" /\ load.todo # {}
    /\ LET v == CHOOSE v \in load.todo : TRUE
       IN  \E f \in checkPath :
             /\ Fault(f, "checkPath")
             /\ dirs' = dirs \cup {<<temp, v>>}
             /\ load' = IF f THEN [VersionDone(Failed) EXCEPT !.version = v, !.todo = @ \ {v}]
                        ELSE [load EXCEPT !.phase = "folder", !.version = v, !.todo = @ \ {v}, !.stack = <<Folder(<<v>>)>>]
    /\ UNCHANGED <<backend, files, copies, temp, instance, config, op>>

AllVersionsDone ==
    /\ load.phase = "versions" /\ load.version # "" /\ load.todo = {}
    /\ load' = [load EXCEPT !.phase = "done"]
    /\ UNCHANGED <<backend, files, faults, failed, dirs, copies, temp, instance, config, op>>

-----------------------------------------------------------------------------
\* downloadFileFolder, and downloadFileFolderTo for Azure

Top == load.stack[Len(load.stack)]
Local(path) == <<temp>> \o path
InFolder(phase) == load.phase = "folder" /\ Top.phase = phase

Update(folder) == load' = [load EXCEPT !.stack[Len(load.stack)] = folder]

\* A folder returns: an error goes through all the folders above it.
Returned(status) ==
    IF status # Ok \/ Len(load.stack) = 1 THEN VersionDone(status) ELSE [load EXCEPT !.stack = Front(@)]

Same == UNCHANGED <<backend, files, dirs, temp, instance, config, op>>

Checked(is) ==
    IF is.status # Ok \/ ~is.value THEN load' = Returned(Failed) ELSE Update([Top EXCEPT !.phase = "list"])

\* S3 asks whether there is anything at the path, then whether it is a folder,
\* and gets it as an object when it is none: no object has a version's path.
S3_Check ==
    /\ backend = "s3" /\ InFolder("check")
    /\ \E f \in MayFail : Fault(f, "isDirectory") /\ Checked(s3_isDirectory(Top.path, f))
    /\ UNCHANGED copies /\ Same

GS_Check ==
    /\ backend = "gs" /\ InFolder("check")
    /\ \E f \in MayFail : Fault(f, "isDirectory") /\ Checked(gs_isDirectory(Top.path, f))
    /\ UNCHANGED copies /\ Same

AZ_Check ==
    /\ backend = "az" /\ InFolder("check")
    /\ \E f \in MayFail : Fault(f, "isDirectory") /\ Checked(az_isDirectory(Top.path, f))
    /\ UNCHANGED copies /\ Same

AZFS_Check ==
    /\ backend = "azfs" /\ InFolder("check")
    /\ \E f \in MayFail : Fault(f, "isDirectory") /\ Checked(azfs_isDirectory(Top.path, f))
    /\ UNCHANGED copies /\ Same

\* S3 lists the folder and, one by one, its subfolders.
S3_List ==
    /\ backend = "s3" /\ InFolder("list")
    /\ \E f \in MayFail, names \in s3_getDirectoryContents(Top.path \o Top.opened) :
         /\ Fault(f, "list")
         /\ IF f THEN load' = Returned(Failed)
            ELSE Update([Top EXCEPT !.phase = "sort", !.items = @ \cup {Append(Top.opened, n) : n \in names}])
    /\ UNCHANGED copies /\ Same

\* What is in a subfolder is only downloaded when it is a file.
S3_Sort ==
    /\ backend = "s3" /\ InFolder("sort") /\ Top.items # {}
    /\ LET longest == Max({Len(i) : i \in Top.items})
           item == CHOOSE i \in Top.items : Len(i) = longest
           rest == [Top EXCEPT !.items = @ \ {item}]
       IN  \E f \in MayFail, unmade \in MayFail :
             LET is == s3_isDirectory(Top.path \o item, f)
             IN  /\ unmade => is.value /\ Len(item) = 1 /\ ~f
                 /\ Fault(f \/ unmade, IF f THEN "isDirectory" ELSE "mkdir")
                 /\ IF is.status # Ok \/ unmade THEN load' = Returned(Failed)
                    ELSE IF ~is.value THEN Update([rest EXCEPT !.files = @ \cup {item}])
                    ELSE IF Len(item) = 1 THEN Update([rest EXCEPT !.phase = "list", !.opened = item])
                    ELSE Update(rest)
    /\ UNCHANGED copies /\ Same

\* Google Cloud Storage lists the folder twice: for the folders in it and for
\* the files.
GS_List ==
    /\ backend = "gs" /\ InFolder("list")
    /\ \E f \in MayFail, names \in gs_getDirectoryContents(Top.path) :
         /\ Fault(f, "list")
         /\ IF f THEN load' = Returned(Failed)
            ELSE Update([Top EXCEPT !.phase = "sort", !.items = {<<n>> : n \in names}])
    /\ UNCHANGED copies /\ Same

GS_Sort ==
    /\ backend = "gs" /\ InFolder("sort") /\ Top.items # {}
    /\ LET item == CHOOSE i \in Top.items : TRUE
           rest == [Top EXCEPT !.items = @ \ {item}]
       IN  \E f \in MayFail :
             LET is == gs_isDirectory(Top.path \o item, f)
             IN  /\ Fault(f, "isDirectory")
                 /\ IF Top.want = "dirs" /\ is.value THEN Update([rest EXCEPT !.dirs = @ \cup {item}])
                    ELSE IF Top.want = "files" /\ ~is.value THEN Update([rest EXCEPT !.files = @ \cup {item}])
                    ELSE Update(rest)
    /\ UNCHANGED copies /\ Same

Sorted ==
    /\ InFolder("sort") /\ Top.items = {}
    /\ IF backend = "gs" /\ Top.want = "dirs" THEN Update([Top EXCEPT !.phase = "list", !.want = "files"])
       ELSE Update([Top EXCEPT !.phase = "walk"])
    /\ UNCHANGED <<faults, failed, copies>> /\ Same

\* Azure lists twice too, and is told which are directories.
Listed(names) ==
    IF Top.want = "dirs" THEN Update([Top EXCEPT !.want = "files", !.dirs = {<<n>> : n \in names}])
    ELSE Update([Top EXCEPT !.phase = "walk", !.files = {<<n>> : n \in names}])

AZ_List ==
    /\ backend = "az" /\ InFolder("list")
    /\ \E f \in MayFail,
          names \in IF Top.want = "dirs" THEN az_getDirectorySubdirs(Top.path) ELSE az_getDirectoryFiles(Top.path) :
         /\ Fault(f, "list")
         /\ IF f THEN load' = Returned(Failed) ELSE Listed(names)
    /\ UNCHANGED copies /\ Same

\* What fails while the directories of a share are looked up is not noticed.
Unnoticed(f) == IF f THEN BOOLEAN ELSE {FALSE}

AZFS_List ==
    /\ backend = "azfs" /\ InFolder("list")
    /\ \E f \in MayFail : \E unnoticed \in Unnoticed(f),
          names \in IF Top.want = "dirs" THEN azfs_getDirectorySubdirs(Top.path, f) ELSE azfs_getDirectoryFiles(Top.path, f) :
         /\ Fault(f, IF unnoticed THEN "lookup" ELSE "list")
         /\ IF f /\ ~unnoticed THEN load' = Returned(Failed) ELSE Listed(names)
    /\ UNCHANGED copies /\ Same

\* A folder in the folder: when its local directory cannot be made the status
\* of the last step that succeeded is returned.
Descend(d, unmade) ==
    IF unmade THEN Returned(Ok)
    ELSE LET above == [load.stack EXCEPT ![Len(load.stack)] = [Top EXCEPT !.dirs = @ \ {d}]]
         IN  [load EXCEPT !.stack = Append(above, Folder(Top.path \o d))]

WalkFolder ==
    /\ InFolder("walk") /\ Top.dirs # {}
    /\ LET d == CHOOSE d \in Top.dirs : TRUE
       IN  \E f \in checkPath, unmade \in MayFail :
             /\ ~(f /\ unmade)
             /\ Fault(f \/ unmade, IF f THEN "checkPath" ELSE "mkdir")
             /\ load' = IF f THEN Returned(Failed) ELSE Descend(d, unmade)
    /\ UNCHANGED copies /\ Same

\* A file: S3 and Google Cloud Storage write what they have read without
\* looking whether all of it was read and written.
Copied(path, from, whole) ==
    With(copies, Local(path), [from |-> from, change |-> IF whole THEN remote[from] ELSE -1])

GetFile ==
    /\ InFolder("walk") /\ Top.dirs = {} /\ Top.files # {}
    /\ LET file == CHOOSE n \in Top.files : TRUE
           path == Top.path \o file
           rest == [Top EXCEPT !.files = @ \ {file}]
       IN  IF Last(file) \notin Accepted THEN Update(rest) /\ UNCHANGED <<faults, failed, copies>>
           ELSE \E f \in MayFail, cut \in MayFail :
             /\ cut => ~f /\ path \in DOMAIN remote
             /\ Fault(f \/ cut, IF f THEN "get" ELSE "cut")
             /\ IF f \/ path \notin DOMAIN remote THEN load' = Returned(Failed) /\ UNCHANGED copies
                ELSE Update(rest) /\ copies' = Copied(path, path, ~cut)
    /\ Same

S3_GetObject == backend = "s3" /\ GetFile
GS_DownloadFile == backend = "gs" /\ GetFile

\* Azure downloads whatever file there is, a share from the directory it has
\* found.
Saved(file, from, lost) ==
    IF lost \/ from \notin DOMAIN remote THEN load' = Returned(Failed) /\ UNCHANGED copies
    ELSE Update([Top EXCEPT !.files = @ \ {file}]) /\ copies' = Copied(Top.path \o file, from, TRUE)

AZ_DownloadFile ==
    /\ backend = "az" /\ InFolder("walk") /\ Top.dirs = {} /\ Top.files # {}
    /\ LET file == CHOOSE n \in Top.files : TRUE
       IN  \E f \in MayFail : Fault(f, "get") /\ Saved(file, Top.path \o file, f)
    /\ Same

AZFS_DownloadFile ==
    /\ backend = "azfs" /\ InFolder("walk") /\ Top.dirs = {} /\ Top.files # {}
    /\ LET file == CHOOSE n \in Top.files : TRUE
       IN  \E f \in MayFail : \E unnoticed \in Unnoticed(f), dir \in WorkingSubdirs(Top.path \o file, f) :
             /\ Fault(f, IF unnoticed THEN "lookup" ELSE "get")
             /\ Saved(file, Append(dir, Last(file)), f /\ ~unnoticed)
    /\ Same

FolderDone ==
    /\ InFolder("walk") /\ Top.dirs = {} /\ Top.files = {}
    /\ load' = Returned(Ok)
    /\ UNCHANGED <<faults, failed, copies>> /\ Same

Download ==
    \/ CreateTempPath \/ NextVersion \/ AllVersionsDone
    \/ S3_Check \/ S3_List \/ S3_Sort \/ S3_GetObject
    \/ GS_Check \/ GS_List \/ GS_Sort \/ GS_DownloadFile
    \/ AZ_Check \/ AZ_List \/ AZ_DownloadFile
    \/ AZFS_Check \/ AZFS_List \/ AZFS_DownloadFile
    \/ Sorted \/ WalkFolder \/ FolderDone

-----------------------------------------------------------------------------
\* The operations of the model

InOrder(vs) == SetToSeq(vs)

\* LocalFileSystem::deleteFileFolder: the version, and the temporary path when
\* nothing else is left in it.
Deleted(ds, local, v) ==
    LET rest == ds \ {<<local, v>>}
    IN  IF <<local, v>> \in ds /\ \A d \in rest : IsPrefix(<<local>>, d) => d = <<local>> THEN rest \ {<<local>>} ELSE rest

\* The empty local path makes it look for the version at the root of the file
\* system, where there is nothing.
cleanupModelTmpFiles_WholePath(local, v) ==
    /\ dirs' = {d \in dirs : ~IsPrefix(<<local>>, d)}
    /\ copies' = Restrict(copies, {l \in DOMAIN copies : ~IsPrefix(<<local>>, l)})

cleanupModelTmpFiles(local, v) ==
    /\ dirs' = Deleted(dirs, local, v)
    /\ copies' = Restrict(copies, {l \in DOMAIN copies : ~IsPrefix(<<local, v>>, l)})

NeedsDownload(v) == instance[v].state \in {"END", "LOADING"} \/ op.moved

\* A configuration just read has no local path; the one that is kept while the
\* file stays as it is has the path of the last download that succeeded.
Reread(fresh) == config' = IF fresh THEN NoPath ELSE config

AddVersions(vs, fresh) ==
    /\ op.kind = "idle" /\ temp < MaxTemp
    /\ vs # {} /\ \A v \in vs : instance[v].state = "none"
    /\ op' = [kind |-> "add", todo |-> InOrder(vs), batch |-> vs, moved |-> FALSE]
    /\ Reread(fresh)
    /\ StartDownload(vs)
    /\ UNCHANGED <<backend, files, faults, failed, dirs, copies, temp, instance>>

\* Only a configuration just read can have another base path.
ReloadVersions(vs, fresh, moved) ==
    /\ op.kind = "idle" /\ temp < MaxTemp
    /\ vs # {} /\ \A v \in vs : instance[v].state # "none"
    /\ moved => fresh
    /\ op' = [kind |-> "reload", todo |-> InOrder(vs), batch |-> vs, moved |-> moved]
    /\ Reread(fresh)
    /\ UNCHANGED <<backend, files, faults, failed, dirs, copies, temp, instance, load>>

\* Each version that has no usable copy makes all the versions be downloaded.
ReloadVersion ==
    /\ op.kind = "reload" /\ op.todo # <<>> /\ load = NoLoad
    /\ LET v == Head(op.todo)
       IN  IF NeedsDownload(v) THEN StartDownload(op.batch) /\ UNCHANGED config
           ELSE /\ config' = instance[v].local
                /\ load' = [NoLoad EXCEPT !.phase = "done", !.result = Failed]
    /\ UNCHANGED <<backend, files, faults, failed, dirs, copies, temp, instance, op>>

\* downloadModels: only a download that succeeds sets the local path; whether
\* it has is not asked.
Path(local) == IF load.result = Ok THEN temp ELSE local

\* loadModel and reloadModel: without files there is nothing to load, with
\* them loading may still fail.
HasFiles(local, v) == \E l \in DOMAIN copies : IsPrefix(<<local, v>>, l)
LoadVersion ==
    /\ load.phase = "done" /\ op.todo # <<>>
    /\ LET v == Head(op.todo)
           local == Path(config)
       IN  \E loaded \in IF HasFiles(local, v) THEN BOOLEAN ELSE {FALSE} :
             /\ config' = local
             /\ instance' = [instance EXCEPT ![v] = [state |-> IF loaded THEN "AVAILABLE" ELSE "LOADING", local |-> local]]
             /\ IF ~loaded /\ op.kind = "add" THEN cleanupModelTmpFiles(local, v) ELSE UNCHANGED <<dirs, copies>>
    /\ op' = [op EXCEPT !.todo = Tail(@)]
    /\ load' = IF op.kind = "add" THEN [load EXCEPT !.result = Failed] ELSE NoLoad
    /\ UNCHANGED <<backend, files, faults, failed, temp>>

OperationDone ==
    /\ op.kind # "idle" /\ op.todo = <<>>
    /\ op' = Idle /\ load' = NoLoad
    /\ UNCHANGED <<backend, files, faults, failed, dirs, copies, temp, instance, config>>

\* retireVersions, cleanupFailedLoad and retireAllVersions: the copy is deleted
\* before the version stops serving.
RetireVersion(v) ==
    /\ op.kind = "idle" /\ instance[v].state # "none"
    /\ cleanupModelTmpFiles(instance[v].local, v)
    /\ instance' = [instance EXCEPT ![v].state = "END"]
    /\ UNCHANGED <<backend, files, faults, failed, temp, config, op, load>>

\* The owner of the storage writes or removes an object.
Change ==
    /\ faults + changes < MaxTroubles
    /\ changes' = changes + 1 /\ calm' = FALSE
    /\ \E o \in Objects :
         \/ remote' = With(remote, o, changes + 1)
         \/ o \in DOMAIN remote /\ remote' = Restrict(remote, DOMAIN remote \ {o})
    /\ UNCHANGED <<backend, faults, failed, dirs, copies, temp, instance, config, op, load>>

-----------------------------------------------------------------------------
Init ==
    /\ backend \in Backends
    /\ remote \in {[o \in os |-> 0] : os \in Stores}
    /\ changes = 0 /\ calm = TRUE /\ faults = 0 /\ failed = {}
    /\ dirs = {} /\ copies = <<>> /\ temp = 0
    /\ instance = [v \in Versions |-> [state |-> "none", local |-> NoPath]]
    /\ config = NoPath /\ op = Idle /\ load = NoLoad

Next ==
    \/ Download \/ Change
    \/ \E vs \in SUBSET Versions, fresh \in BOOLEAN : AddVersions(vs, fresh)
    \/ \E vs \in SUBSET Versions, fresh, moved \in BOOLEAN : ReloadVersions(vs, fresh, moved)
    \/ ReloadVersion \/ LoadVersion \/ OperationDone
    \/ \E v \in Versions : RetireVersion(v)

Spec == Init /\ [][Next]_vars

-----------------------------------------------------------------------------
\* Properties

\* The failures that a storage does not report.
Silent ==
    CASE backend = "s3" -> {"cut"}
      [] backend = "gs" -> {"cut", "mkdir", "isDirectory"}
      [] backend = "az" -> {"mkdir"}
      [] OTHER -> {"mkdir", "lookup"}

\* What a download is to bring: accepted files, S3's not more than one folder
\* deep.  An object with others below its path is taken for their folder; in an
\* Azure container, where a download of both fails, there is none such.
Wanted(v) ==
    {o \in Below(<<v>>) : Last(o) \in Accepted /\ ~IsDir(o) /\ (backend = "s3" => Len(o) <= 3)}
OnePage(v) ==
    CASE backend = "s3" -> Cardinality(Below(<<v>>)) <= PageSize
      [] backend = "gs" -> TRUE
      [] OTHER -> \A o \in Below(<<v>>) : \A i \in 1 .. Len(o) - 1 :
                    Cardinality(Names(SubSeq(o, 1, i), Below(SubSeq(o, 1, i)))) <= PageSize

Finished == load.phase = "done" /\ load.result = Ok
HasCopy(o) == Local(o) \in DOMAIN copies /\ copies[Local(o)] = [from |-> o, change |-> remote[o]]
Complete(v) == \A o \in Wanted(v) : HasCopy(o)

\* A download that reports success has brought every accepted file of every
\* version, unchanged, whatever failed on the way: but for the failures that
\* the code of the storage lets pass, for folders larger than a page, and for
\* objects that change meanwhile.
SuccessIsComplete ==
    Finished /\ calm /\ failed \cap Silent = {} =>
        \A v \in op.batch : OnePage(v) => Complete(v)

\* Also while objects change a local file is the copy of the remote file with
\* its own path, never of one with the same name elsewhere, but for file shares.
CopiesAreTrue ==
    backend # "azfs" => \A l \in DOMAIN copies : copies[l].from = Tail(l)

\* What is downloaded is what was asked for: a success is complete, and a copy
\* is of the file at its path.
DownloadsAreTrue == SuccessIsComplete /\ CopiesAreTrue

\* A version that serves has its local copy: a dynamic reload reads it again.
\* Neither the failed load of another version, nor a retirement, nor another
\* download takes it away.
AvailableHasCopy ==
    \A v \in Versions :
        instance[v].state = "AVAILABLE" =>
            /\ {<<instance[v].local>>, <<instance[v].local, v>>} \subseteq dirs
            /\ HasFiles(instance[v].local, v)
=============================================================================
