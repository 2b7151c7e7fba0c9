------------------------- MODULE RemoteFiles_proofs -------------------------
(***************************************************************************)
(* For all storages, versions, objects and bounds: a version that serves   *)
(* has its local copy, a copy is of the remote file with its own path, and *)
(* a download that reports success is complete.                            *)
(*                                                                         *)
(* None of them is inductive.  That a version which has been loaded has    *)
(* its directories rests on every local file being in a directory of a     *)
(* version that is still there (CopiesInPlace); that this survives a       *)
(* file's being written, on the directories of the version under download  *)
(* being there and on every open folder being one of that version          *)
(* (Downloading); and that they stay there, on no operation that deletes   *)
(* being under way during a download.  That a success is complete rests on *)
(* what is wanted and not yet copied being still to come from one of the   *)
(* open folders, at every step of a download that has met nothing which    *)
(* the code lets pass (LackIsToCome, then DoneComplete).                   *)
(***************************************************************************)
EXTENDS RemoteFiles, SequenceTheorems, FiniteSetTheorems, TLAPS

-----------------------------------------------------------------------------
\* The inductive invariant

\* A sequence, of whatever it holds.
IsSeq(s) == Len(s) \in Nat /\ s = [i \in 1 .. Len(s) |-> s[i]]

\* What S3 finds is in the folder or, once a subfolder is opened, in that.
IsItem(i) == IsSeq(i) /\ Len(i) \in {1, 2}
IsOpened(o) == IsSeq(o) /\ Len(o) \in {0, 1}

FolderPhases == {"check", "list", "sort", "walk"}
States == {"none", "LOADING", "AVAILABLE", "END"}

\* An open folder of the download of a version: its path is below the version,
\* and what it lists are paths.
FolderOf(f, v) ==
    /\ f = [path |-> f.path, phase |-> f.phase, want |-> f.want, opened |-> f.opened,
            items |-> f.items, dirs |-> f.dirs, files |-> f.files]
    /\ f.phase \in FolderPhases
    /\ IsSeq(f.path) /\ Len(f.path) >= 1 /\ f.path[1] = v
    /\ IsOpened(f.opened)
    /\ \A i \in f.items : IsItem(i)
    /\ \A i \in f.dirs \cup f.files : IsSeq(i)

\* The open folders: there are some just while a version is downloaded.
FoldersOf(ld) ==
    /\ ld = [phase |-> ld.phase, todo |-> ld.todo, version |-> ld.version, result |-> ld.result, stack |-> ld.stack]
    /\ ld.phase \in {"none", "versions", "folder", "done"}
    /\ IsSeq(ld.stack)
    /\ \A i \in 1 .. Len(ld.stack) : FolderOf(ld.stack[i], ld.version)
    /\ IF ld.phase = "folder" THEN Len(ld.stack) >= 1 ELSE ld.stack = <<>>

\* A download is part of an operation, is of versions of the model, and has
\* made the directories that it is going to fill.
Downloading ==
    /\ load.phase \in {"versions", "folder"} => op.kind # "idle" /\ load.todo \subseteq Versions
    /\ load.phase = "versions" /\ load.version # "" => temp >= 1 /\ <<temp>> \in dirs
    /\ load.phase = "folder" => /\ temp >= 1 /\ load.version \in Versions
                                /\ {<<temp>>, <<temp, load.version>>} \subseteq dirs

Operating ==
    /\ op = [kind |-> op.kind, todo |-> op.todo, batch |-> op.batch, moved |-> op.moved]
    /\ op.todo \in Seq(Versions) /\ op.batch \subseteq Versions

\* Every local file is in the directory of a version in a temporary directory.
CopiesInPlace ==
    \A l \in DOMAIN copies :
        /\ IsSeq(l) /\ Len(l) >= 2
        /\ l[1] \in 1 .. temp /\ l[2] \in Versions
        /\ {<<l[1]>>, <<l[1], l[2]>>} \subseteq dirs

Numbers ==
    /\ temp \in Nat /\ config \in 0 .. temp
    /\ backend \in Backends /\ DOMAIN remote \subseteq Objects
    /\ instance \in [Versions -> [state : States, local : 0 .. temp]]

FilesInv ==
    /\ Numbers /\ Operating /\ FoldersOf(load) /\ Downloading
    /\ CopiesInPlace /\ CopiesAreTrue /\ AvailableHasCopy

-----------------------------------------------------------------------------
\* Sequences

\* Every sequence in the sense of Seq is one in ours, and conversely.
LEMMA SeqIs ==
    ASSUME NEW S, NEW s \in Seq(S)
    PROVE  IsSeq(s)
BY LenProperties DEF IsSeq

\* A sequence whose elements are in a set is a sequence over that set.
LEMMA IsSeqOf ==
    ASSUME NEW s, IsSeq(s), NEW S, \A i \in 1 .. Len(s) : s[i] \in S
    PROVE  s \in Seq(S)
<1>1. [i \in 1 .. Len(s) |-> s[i]] \in Seq(S)
  BY IsASeq DEF IsSeq
<1> QED
  BY <1>1 DEF IsSeq

\* A name alone is a path.
LEMMA OneName ==
    ASSUME NEW n
    PROVE  IsSeq(<<n>>) /\ Len(<<n>>) = 1 /\ <<n>>[1] = n
<1>1. <<n>> \in Seq({n})
  OBVIOUS
<1> QED
  BY <1>1, SeqIs

\* The empty sequence.
LEMMA EmptyIsSeq == IsSeq(<<>>)
<1>1. <<>> \in Seq({})
  OBVIOUS
<1> QED
  BY <1>1, SeqIs

\* A path within a folder, below the path of the folder.
LEMMA ConcatIsSeq ==
    ASSUME NEW a, NEW b, IsSeq(a), IsSeq(b)
    PROVE  /\ IsSeq(a \o b)
           /\ Len(a \o b) = Len(a) + Len(b)
           /\ Len(a) >= 1 => (a \o b)[1] = a[1]
<1> DEFINE S == {a[i] : i \in 1 .. Len(a)} \cup {b[i] : i \in 1 .. Len(b)}
<1>1. a \in Seq(S) /\ b \in Seq(S)
  BY IsSeqOf
<1>2. a \o b \in Seq(S)
  BY <1>1
<1> HIDE DEF S
<1>3. Len(a \o b) = Len(a) + Len(b) /\ (Len(a) >= 1 => (a \o b)[1] = a[1])
  BY <1>1, ConcatProperties, LenProperties
<1> QED
  BY <1>2, <1>3, SeqIs

\* A sequence with one element more.
LEMMA AppendIsSeq ==
    ASSUME NEW a, NEW n, IsSeq(a)
    PROVE  IsSeq(Append(a, n)) /\ Len(Append(a, n)) = Len(a) + 1
<1> DEFINE S == {a[i] : i \in 1 .. Len(a)} \cup {n}
<1>1. a \in Seq(S)
  BY IsSeqOf
<1>2. n \in S
  OBVIOUS
<1> HIDE DEF S
<1>3. Append(a, n) \in Seq(S) /\ Len(Append(a, n)) = Len(a) + 1
  BY <1>1, <1>2, AppendProperties
<1> QED
  BY <1>3, SeqIs

\* The local path of a remote one starts with the temporary directory and the
\* first name of the path, the version.
LEMMA LocalPath ==
    ASSUME NEW p, IsSeq(p), Len(p) >= 1
    PROVE  /\ IsSeq(Local(p)) /\ Len(Local(p)) >= 2
           /\ Local(p)[1] = temp /\ Local(p)[2] = p[1]
           /\ Tail(Local(p)) = p
<1> DEFINE S == {p[i] : i \in 1 .. Len(p)} \cup {temp}
<1>1. p \in Seq(S)
  BY IsSeqOf
<1>2. <<temp>> \in Seq(S)
  OBVIOUS
<1> HIDE DEF S
<1>3. Len(<<temp>>) = 1 /\ Len(p) \in Nat
  BY <1>1
<1>4. Local(p) \in Seq(S) /\ Len(Local(p)) = 1 + Len(p)
  BY <1>1, <1>2, <1>3, ConcatProperties DEF Local
<1>5. \A i \in 1 .. 1 + Len(p) : Local(p)[i] = IF i <= 1 THEN <<temp>>[i] ELSE p[i - 1]
  BY <1>1, <1>2, <1>3, ConcatProperties DEF Local
<1>6. Local(p)[1] = temp /\ Local(p)[2] = p[1]
  BY <1>3, <1>5
<1>7. Tail(Local(p)) = p
  <2>1. /\ Tail(Local(p)) \in Seq(S) /\ Len(Tail(Local(p))) = Len(p)
        /\ \A i \in 1 .. Len(p) : Tail(Local(p))[i] = Local(p)[i + 1]
    BY <1>3, <1>4, HeadTailProperties, LenProperties
  <2>2. \A i \in 1 .. Len(p) : Tail(Local(p))[i] = p[i]
    BY <1>3, <1>5, <2>1
  <2> QED
    BY <1>1, <2>1, <2>2, SeqEqual
<1> QED
  BY <1>3, <1>4, <1>6, <1>7, SeqIs

\* The two prefixes the deletions look for.
LEMMA PrefixOfVersion ==
    ASSUME NEW l, NEW a, NEW b, IsSeq(l), Len(l) >= 2
    PROVE  IsPrefix(<<a, b>>, l) <=> l[1] = a /\ l[2] = b
<1> DEFINE S == {l[i] : i \in 1 .. Len(l)} \cup {a, b}
<1>1. l \in Seq(S)
  BY IsSeqOf
<1>2. <<a, b>> \in Seq(S) /\ Len(<<a, b>>) = 2
  OBVIOUS
<1> HIDE DEF S
<1>3. Len(l) \in Nat
  BY <1>1
<1>4. /\ SubSeq(<<a, b>>, 1, 2) \in Seq(S) /\ Len(SubSeq(<<a, b>>, 1, 2)) = 2
      /\ SubSeq(<<a, b>>, 1, 2)[1] = a /\ SubSeq(<<a, b>>, 1, 2)[2] = b
  BY <1>2
<1>5. /\ SubSeq(l, 1, 2) \in Seq(S) /\ Len(SubSeq(l, 1, 2)) = 2
      /\ SubSeq(l, 1, 2)[1] = l[1] /\ SubSeq(l, 1, 2)[2] = l[2]
  BY <1>1, <1>3, SubSeqProperties
<1>6. SubSeq(<<a, b>>, 1, 2) = SubSeq(l, 1, 2) <=> l[1] = a /\ l[2] = b
  BY <1>4, <1>5, SeqEqual, \A i \in 1 .. 2 : i = 1 \/ i = 2
<1> QED
  BY <1>2, <1>3, <1>6 DEF IsPrefix

\* The directory of a version keeps its temporary directory.
LEMMA PrefixOfPath ==
    ASSUME NEW a, NEW b
    PROVE  IsPrefix(<<a>>, <<a, b>>) /\ <<a, b>> # <<a>>
BY DEF IsPrefix

-----------------------------------------------------------------------------
\* Steps within a folder

\* The download goes on with the same version, or ends with it.
Continues ==
    /\ FoldersOf(load')
    /\ load'.version = load.version /\ load'.todo = load.todo
    /\ load'.phase \in {"folder", "versions", "done"}

\* The open folder is one of the version.
LEMMA TopOf ==
    ASSUME FoldersOf(load), load.phase = "folder"
    PROVE  /\ Len(load.stack) \in Nat /\ Len(load.stack) >= 1
           /\ load.stack = [i \in 1 .. Len(load.stack) |-> load.stack[i]]
           /\ FolderOf(Top, load.version)
BY DEF FoldersOf, IsSeq, Top

\* A sequence with one element replaced.
LEMMA ExceptIsSeq ==
    ASSUME NEW s, IsSeq(s), NEW k \in 1 .. Len(s), NEW x, NEW t, t = [s EXCEPT ![k] = x]
    PROVE  /\ IsSeq(t) /\ Len(t) = Len(s)
           /\ \A i \in 1 .. Len(s) : t[i] = IF i = k THEN x ELSE s[i]
<1> DEFINE S == {s[i] : i \in 1 .. Len(s)} \cup {x}
<1>1. s \in Seq(S) /\ x \in S
  BY IsSeqOf
<1> HIDE DEF S
<1>2. t \in Seq(S) /\ Len(t) = Len(s)
  BY <1>1, ExceptSeq
<1>3. \A i \in 1 .. Len(s) : t[i] = IF i = k THEN x ELSE s[i]
  BY <1>1, LenProperties
<1> QED
  BY <1>2, <1>3, SeqIs

\* A folder with something else of it known keeps being one of the version.
LEMMA FolderWith ==
    ASSUME NEW v, NEW f, FolderOf(f, v), NEW ph \in FolderPhases, NEW w, NEW o, IsOpened(o),
           NEW I, NEW D, NEW F, \A i \in I : IsItem(i), \A i \in D \cup F : IsSeq(i)
    PROVE  FolderOf([path |-> f.path, phase |-> ph, want |-> w, opened |-> o,
                     items |-> I, dirs |-> D, files |-> F], v)
BY DEF FolderOf


\* Another state of the open folder.
LEMMA UpdateContinues ==
    ASSUME FoldersOf(load), load.phase = "folder", NEW f, FolderOf(f, load.version), Update(f)
    PROVE  Continues
<1> DEFINE n == Len(load.stack)
           s == [load.stack EXCEPT ![n] = f]
<1>1. n \in Nat /\ n >= 1 /\ IsSeq(load.stack) /\ n \in 1 .. n
  BY TopOf DEF FoldersOf
<1>2. /\ IsSeq(s) /\ Len(s) = n
      /\ \A i \in 1 .. n : s[i] = IF i = n THEN f ELSE load.stack[i]
  <2>1. PICK st : st = load.stack
    OBVIOUS
  <2>2. /\ IsSeq([st EXCEPT ![n] = f]) /\ Len([st EXCEPT ![n] = f]) = Len(st)
        /\ \A i \in 1 .. Len(st) : [st EXCEPT ![n] = f][i] = IF i = n THEN f ELSE st[i]
    <3>1. IsSeq(st) /\ n \in 1 .. Len(st)
      BY <1>1, <2>1
    <3> HIDE DEF n
    <3> QED
      BY <3>1, ExceptIsSeq
  <2> QED
    BY <2>1, <2>2
<1> HIDE DEF s
<1>3. \A i \in 1 .. Len(s) : FolderOf(s[i], load.version)
  BY <1>2 DEF FoldersOf
<1>4. load' = [load EXCEPT !.stack = s]
  BY DEF Update, s, FoldersOf
<1>5. load' = [phase |-> load.phase, todo |-> load.todo, version |-> load.version,
               result |-> load.result, stack |-> s]
  BY <1>4 DEF FoldersOf
<1> QED
  BY <1>1, <1>2, <1>3, <1>5 DEF Continues, FoldersOf

\* The end of a version, and of a folder.
LEMMA DoneContinues ==
    ASSUME FoldersOf(load), NEW status
    PROVE  /\ FoldersOf(VersionDone(status))
           /\ VersionDone(status).version = load.version /\ VersionDone(status).todo = load.todo
           /\ VersionDone(status).phase \in {"versions", "done"}
           /\ VersionDone(status).stack = <<>>
<1>1. PICK p \in {"versions", "done"} : \E r :
        VersionDone(status) = [phase |-> p, todo |-> load.todo, version |-> load.version, result |-> r, stack |-> <<>>]
  BY DEF VersionDone, FoldersOf
<1> QED
  BY <1>1, EmptyIsSeq DEF FoldersOf

\* A folder is done and its caller goes on.
LEMMA ReturnedContinues ==
    ASSUME FoldersOf(load), load.phase = "folder", NEW status, load' = Returned(status)
    PROVE  Continues
<1> DEFINE n == Len(load.stack)
           s == SubSeq(load.stack, 1, n - 1)
<1>1. n \in Nat /\ n >= 1 /\ IsSeq(load.stack)
  BY TopOf DEF FoldersOf
<1>2. CASE load' = VersionDone(status)
  BY <1>2, DoneContinues DEF Continues
<1>3. CASE n # 1 /\ load' = [load EXCEPT !.stack = s]
  <2> DEFINE S == {load.stack[i] : i \in 1 .. n}
  <2>1. load.stack \in Seq(S)
    BY <1>1, IsSeqOf
  <2> HIDE DEF S
  <2>2. s \in Seq(S) /\ Len(s) = n - 1 /\ \A i \in 1 .. n - 1 : s[i] = load.stack[i]
    BY <1>1, <1>3, <2>1, SubSeqProperties
  <2>3. IsSeq(s) /\ Len(s) >= 1
    <3>1. IsSeq(s)
      BY <2>2, SeqIs
    <3>2. n - 1 >= 1
      <4>1. n # 1
        BY <1>3
      <4> HIDE DEF n
      <4> QED
        BY <1>1, <4>1
    <3> QED
      BY <2>2, <3>1, <3>2
  <2>4. \A i \in 1 .. Len(s) : FolderOf(s[i], load.version)
    BY <1>1, <2>2 DEF FoldersOf
  <2> HIDE DEF s
  <2>5. load' = [phase |-> load.phase, todo |-> load.todo, version |-> load.version,
                 result |-> load.result, stack |-> s]
    BY <1>3 DEF FoldersOf
  <2> QED
    BY <2>3, <2>4, <2>5 DEF Continues, FoldersOf
<1> QED
  BY <1>2, <1>3 DEF Returned, Front

\* A folder in a folder.
LEMMA DescendContinues ==
    ASSUME FoldersOf(load), load.phase = "folder",
           NEW d \in Top.dirs, NEW unmade, load' = Descend(d, unmade)
    PROVE  Continues
<1> DEFINE n == Len(load.stack)
           f == [Top EXCEPT !.dirs = @ \ {d}]
           s == [load.stack EXCEPT ![n] = f]
           g == Folder(Top.path \o d)
           t == Append(s, g)
<1>1. /\ n \in Nat /\ n >= 1 /\ load.stack = [i \in 1 .. n |-> load.stack[i]]
      /\ FolderOf(Top, load.version)
  BY TopOf
<1>2. CASE load' = Returned(Ok)
  BY <1>2, ReturnedContinues
<1>3. CASE load' = [load EXCEPT !.stack = t]
  <2>1. FolderOf(f, load.version)
    <3>1. f = [path |-> Top.path, phase |-> Top.phase, want |-> Top.want, opened |-> Top.opened,
               items |-> Top.items, dirs |-> Top.dirs \ {d}, files |-> Top.files]
      <4> DEFINE T == Top
      <4>1. T = [path |-> T.path, phase |-> T.phase, want |-> T.want, opened |-> T.opened,
                 items |-> T.items, dirs |-> T.dirs, files |-> T.files]
        BY <1>1 DEF FolderOf
      <4> HIDE DEF T
      <4>2. [T EXCEPT !.dirs = @ \ {d}] = 
              [path |-> T.path, phase |-> T.phase, want |-> T.want, opened |-> T.opened,
                 items |-> T.items, dirs |-> T.dirs \ {d}, files |-> T.files]
        BY <4>1
      <4> QED
        BY <4>2 DEF T
    <3>2. (\A i \in Top.items : IsItem(i)) /\ \A i \in (Top.dirs \ {d}) \cup Top.files : IsSeq(i)
      BY <1>1 DEF FolderOf
    <3>3. Top.phase \in FolderPhases /\ IsOpened(Top.opened)
      BY <1>1 DEF FolderOf
    <3> HIDE DEF f
    <3> QED
      BY <1>1, <3>1, <3>2, <3>3, FolderWith
  <2>2. FolderOf(g, load.version)
    <3>1. IsSeq(d) /\ IsSeq(Top.path) /\ Len(Top.path) >= 1 /\ Top.path[1] = load.version
      BY <1>1 DEF FolderOf
    <3>2. IsSeq(Top.path \o d) /\ Len(Top.path \o d) >= 1 /\ (Top.path \o d)[1] = load.version
      BY <3>1, ConcatIsSeq DEF IsSeq
    <3> QED
      BY <3>2, EmptyIsSeq DEF FolderOf, Folder, FolderPhases, IsOpened
  <2>3. /\ IsSeq(s) /\ Len(s) = n
        /\ \A i \in 1 .. n : s[i] = IF i = n THEN f ELSE load.stack[i]
    <3> HIDE DEF f
    <3> QED
      BY <1>1, ExceptIsSeq DEF FoldersOf
  <2> HIDE DEF s
  <2>5. \A i \in 1 .. n : FolderOf(s[i], load.version)
    BY <2>1, <2>3 DEF FoldersOf
  <2>6. IsSeq(t) /\ Len(t) = n + 1
    BY <2>3, AppendIsSeq
  <2>7. \A i \in 1 .. n + 1 : t[i] = IF i = n + 1 THEN g ELSE s[i]
    <3> DEFINE S == {s[i] : i \in 1 .. n} \cup {g}
    <3>1. s \in Seq(S) /\ g \in S
      BY <2>3, IsSeqOf
    <3> HIDE DEF S, s, g
    <3> QED
      BY <1>1, <2>3, <3>1, AppendProperties
  <2> HIDE DEF s, f, g, t
  <2>8. \A i \in 1 .. Len(t) : FolderOf(t[i], load.version)
    BY <1>1, <2>2, <2>5, <2>6, <2>7
  <2>9. load' = [phase |-> load.phase, todo |-> load.todo, version |-> load.version,
                 result |-> load.result, stack |-> t]
    BY <1>3 DEF FoldersOf
  <2> QED
    BY <1>1, <2>6, <2>8, <2>9 DEF Continues, FoldersOf
<1>4. ~unmade => load' = [load EXCEPT !.stack = t]
  BY DEF Descend
<1> QED
  BY <1>2, <1>3, <1>4 DEF Descend

\* The same, of a folder that is given by what is in it.
LEMMA FolderIs ==
    ASSUME NEW v, NEW f, FolderOf(f, v), NEW ph \in FolderPhases, NEW w, NEW o, IsOpened(o),
           NEW I, NEW D, NEW F, \A i \in I : IsItem(i), \A i \in D : IsSeq(i), \A i \in F : IsSeq(i),
           NEW g, g = [path |-> f.path, phase |-> ph, want |-> w, opened |-> o, items |-> I, dirs |-> D, files |-> F]
    PROVE  FolderOf(g, v)
<1>1. \A i \in D \cup F : IsSeq(i)
  OBVIOUS
<1> QED
  BY <1>1, FolderWith

\* The phases are phases.
LEMMA PhasesAre == "check" \in FolderPhases /\ "list" \in FolderPhases /\ "sort" \in FolderPhases /\ "walk" \in FolderPhases
BY DEF FolderPhases

\* The folder without an item that has been looked at.
LEMMA WithoutItem ==
    ASSUME NEW v, NEW f, FolderOf(f, v), NEW item, NEW g, g = [f EXCEPT !.items = @ \ {item}]
    PROVE  FolderOf(g, v)
<1>1. PICK I : I = f.items \ {item}
  OBVIOUS
<1>2. \A i \in I : IsItem(i)
  BY <1>1 DEF FolderOf
<1>3. g = [f EXCEPT !.items = I]
  BY <1>1
<1>4. f = [path |-> f.path, phase |-> f.phase, want |-> f.want, opened |-> f.opened,
           items |-> f.items, dirs |-> f.dirs, files |-> f.files]
  BY FolderOf(f, v) DEF FolderOf
<1>5. g = [path |-> f.path, phase |-> f.phase, want |-> f.want, opened |-> f.opened,
           items |-> I, dirs |-> f.dirs, files |-> f.files]
  BY <1>3, <1>4
<1>6. /\ f.phase \in FolderPhases /\ IsOpened(f.opened)
      /\ \A i \in f.items : IsItem(i)
      /\ \A i \in f.dirs : IsSeq(i)
      /\ \A i \in f.files : IsSeq(i)
  BY FolderOf(f, v) DEF FolderOf
<1>7. FolderOf(g, v)
  BY FolderOf(f, v), <1>5, <1>6, <1>2, FolderIs
<1> QED
  BY <1>7

\* isDirectory has been asked.
LEMMA CheckedContinues ==
    ASSUME FoldersOf(load), load.phase = "folder", NEW is, Checked(is)
    PROVE  Continues
<1>1. CASE load' = Returned(Failed)
  BY <1>1, ReturnedContinues
<1>2. CASE Update([Top EXCEPT !.phase = "list"])
  <2>1. PICK T : T = Top
    OBVIOUS
  <2>2. FolderOf(T, load.version)
    BY <2>1, TopOf
  <2>3. PICK g : g = [T EXCEPT !.phase = "list"]
    OBVIOUS
  <2>4. T = [path |-> T.path, phase |-> T.phase, want |-> T.want, opened |-> T.opened,
             items |-> T.items, dirs |-> T.dirs, files |-> T.files]
    BY <2>2 DEF FolderOf
  <2>5. g = [path |-> T.path, phase |-> "list", want |-> T.want, opened |-> T.opened,
             items |-> T.items, dirs |-> T.dirs, files |-> T.files]
    BY <2>3, <2>4
  <2>6. /\ T.phase \in FolderPhases /\ IsOpened(T.opened)
        /\ \A i \in T.items : IsItem(i)
        /\ \A i \in T.dirs : IsSeq(i)
        /\ \A i \in T.files : IsSeq(i)
    BY <2>2 DEF FolderOf
  <2>7. FolderOf(g, load.version)
    BY <2>2, <2>5, <2>6, PhasesAre, FolderIs
  <2> QED
    BY <1>2, <2>1, <2>3, <2>7, UpdateContinues
<1> QED
  BY <1>1, <1>2 DEF Checked

\* What is in an opened subfolder is an item.
LEMMA OpenedItem ==
    ASSUME NEW o, IsOpened(o), NEW n
    PROVE  IsItem(Append(o, n))
<1>1. IsSeq(o) /\ (Len(o) = 0 \/ Len(o) = 1)
  BY DEF IsOpened
<1>2. IsSeq(Append(o, n))
  BY <1>1, AppendIsSeq
<1>3. Len(Append(o, n)) = Len(o) + 1
  BY <1>1, AppendIsSeq
<1>4. Len(Append(o, n)) = 1 \/ Len(Append(o, n)) = 2
  <2> DEFINE k == Len(o)
             m == Len(Append(o, n))
  <2>1. (k = 0 \/ k = 1) /\ m = k + 1
    BY <1>1, <1>3
  <2> HIDE DEF k, m
  <2>2. m = 1 \/ m = 2
    BY <2>1
  <2> QED
    BY <2>2 DEF m
<1> QED
  BY <1>2, <1>4 DEF IsItem

\* A listing of S3, and the sorting of what it has brought.
LEMMA S3ListContinues ==
    ASSUME FoldersOf(load), S3_List
    PROVE  Continues
<1>1. load.phase = "folder"
  BY DEF S3_List, InFolder
<1>2. PICK T : T = Top
  OBVIOUS
<1>3. FolderOf(T, load.version)
  BY <1>1, <1>2, TopOf
<1>4. PICK names : \/ load' = Returned(Failed)
                   \/ Update([Top EXCEPT !.phase = "sort", !.items = Top.items \cup {Append(Top.opened, n) : n \in names}])
  BY DEF S3_List
<1>5. PICK I : I = T.items \cup {Append(T.opened, n) : n \in names}
  OBVIOUS
<1>6. load' = Returned(Failed) \/ Update([T EXCEPT !.phase = "sort", !.items = I])
  BY <1>2, <1>4, <1>5
<1>7. CASE load' = Returned(Failed)
  BY <1>1, <1>7, ReturnedContinues
<1>8. CASE Update([T EXCEPT !.phase = "sort", !.items = I])
  <2>1. \A i \in I : IsItem(i)
    <3>1. IsOpened(T.opened) /\ \A i \in T.items : IsItem(i)
      BY <1>3 DEF FolderOf
    <3>2. \A n \in names : IsItem(Append(T.opened, n))
      BY <3>1, OpenedItem
    <3> QED
      BY <1>5, <3>1, <3>2
  <2>2. PICK g : g = [T EXCEPT !.phase = "sort", !.items = I]
    OBVIOUS
  <2>3. T = [path |-> T.path, phase |-> T.phase, want |-> T.want, opened |-> T.opened,
             items |-> T.items, dirs |-> T.dirs, files |-> T.files]
    BY <1>3 DEF FolderOf
  <2>4. g = [path |-> T.path, phase |-> "sort", want |-> T.want, opened |-> T.opened,
             items |-> I, dirs |-> T.dirs, files |-> T.files]
    BY <2>2, <2>3
  <2>5. /\ T.phase \in FolderPhases /\ IsOpened(T.opened)
        /\ \A i \in T.items : IsItem(i)
        /\ \A i \in T.dirs : IsSeq(i)
        /\ \A i \in T.files : IsSeq(i)
    BY <1>3 DEF FolderOf
  <2>6. FolderOf(g, load.version)
    BY <1>3, <2>4, <2>5, <2>1, PhasesAre, FolderIs
  <2> QED
    BY <1>1, <1>8, <2>2, <2>6, UpdateContinues
<1> QED
  BY <1>6, <1>7, <1>8

\* What sorting may do with an item: drop it, keep it as a file or as a folder,
\* open it.
LEMMA SortContinues ==
    ASSUME FoldersOf(load), load.phase = "folder", NEW T, T = Top, NEW item \in T.items,
           NEW rest, rest = [T EXCEPT !.items = @ \ {item}],
           \/ load' = Returned(Failed) \/ Update(rest)
           \/ Update([rest EXCEPT !.files = @ \cup {item}])
           \/ Update([rest EXCEPT !.dirs = @ \cup {item}])
           \/ Len(item) = 1 /\ Update([rest EXCEPT !.phase = "list", !.opened = item])
    PROVE  Continues
<1>1. FolderOf(T, load.version)
  BY TopOf
<1>2. IsItem(item) /\ IsSeq(item)
  BY <1>1 DEF FolderOf, IsItem
<1>3. FolderOf(rest, load.version)
  BY <1>1, WithoutItem
<1>4. CASE load' = Returned(Failed)
  BY <1>4, ReturnedContinues
<1>5. CASE Update(rest)
  BY <1>3, <1>5, UpdateContinues
<1>6. CASE Update([rest EXCEPT !.files = @ \cup {item}])
  <2>1. PICK F : F = rest.files \cup {item}
    OBVIOUS
  <2>2. PICK g : g = [rest EXCEPT !.files = F]
    OBVIOUS
  <2>3. \A i \in F : IsSeq(i)
    BY <1>2, <1>3, <2>1 DEF FolderOf
  <2>4. rest = [path |-> rest.path, phase |-> rest.phase, want |-> rest.want, opened |-> rest.opened,
                items |-> rest.items, dirs |-> rest.dirs, files |-> rest.files]
    BY <1>3 DEF FolderOf
  <2>5. g = [path |-> rest.path, phase |-> rest.phase, want |-> rest.want, opened |-> rest.opened,
             items |-> rest.items, dirs |-> rest.dirs, files |-> F]
    BY <2>2, <2>4
  <2>6. /\ rest.phase \in FolderPhases /\ IsOpened(rest.opened)
        /\ \A i \in rest.items : IsItem(i)
        /\ \A i \in rest.dirs : IsSeq(i)
        /\ \A i \in rest.files : IsSeq(i)
    BY <1>3 DEF FolderOf
  <2>7. FolderOf(g, load.version)
    BY <1>3, <2>5, <2>6, <2>3, FolderIs
  <2> QED
    BY <1>6, <2>1, <2>2, <2>7, UpdateContinues
<1>7. CASE Update([rest EXCEPT !.dirs = @ \cup {item}])
  <2>1. PICK D : D = rest.dirs \cup {item}
    OBVIOUS
  <2>2. PICK g : g = [rest EXCEPT !.dirs = D]
    OBVIOUS
  <2>3. \A i \in D : IsSeq(i)
    BY <1>2, <1>3, <2>1 DEF FolderOf
  <2>4. rest = [path |-> rest.path, phase |-> rest.phase, want |-> rest.want, opened |-> rest.opened,
                items |-> rest.items, dirs |-> rest.dirs, files |-> rest.files]
    BY <1>3 DEF FolderOf
  <2>5. g = [path |-> rest.path, phase |-> rest.phase, want |-> rest.want, opened |-> rest.opened,
             items |-> rest.items, dirs |-> D, files |-> rest.files]
    BY <2>2, <2>4
  <2>6. /\ rest.phase \in FolderPhases /\ IsOpened(rest.opened)
        /\ \A i \in rest.items : IsItem(i)
        /\ \A i \in rest.dirs : IsSeq(i)
        /\ \A i \in rest.files : IsSeq(i)
    BY <1>3 DEF FolderOf
  <2>7. FolderOf(g, load.version)
    BY <1>3, <2>5, <2>6, <2>3, FolderIs
  <2> QED
    BY <1>7, <2>1, <2>2, <2>7, UpdateContinues
<1>8. CASE Len(item) = 1 /\ Update([rest EXCEPT !.phase = "list", !.opened = item])
  <2> IsOpened(item)
    BY <1>2, <1>8 DEF IsOpened
  <2>1. PICK g : g = [rest EXCEPT !.phase = "list", !.opened = item]
    OBVIOUS
  <2>2. rest = [path |-> rest.path, phase |-> rest.phase, want |-> rest.want, opened |-> rest.opened,
                items |-> rest.items, dirs |-> rest.dirs, files |-> rest.files]
    BY <1>3 DEF FolderOf
  <2>3. g = [path |-> rest.path, phase |-> "list", want |-> rest.want, opened |-> item,
             items |-> rest.items, dirs |-> rest.dirs, files |-> rest.files]
    BY <2>1, <2>2
  <2>4. /\ rest.phase \in FolderPhases /\ IsOpened(rest.opened)
        /\ \A i \in rest.items : IsItem(i)
        /\ \A i \in rest.dirs : IsSeq(i)
        /\ \A i \in rest.files : IsSeq(i)
    BY <1>3 DEF FolderOf
  <2>5. FolderOf(g, load.version)
    BY <1>3, <2>3, <2>4, PhasesAre, FolderIs
  <2> QED
    BY <1>8, <2>1, <2>5, UpdateContinues
<1> QED
  BY <1>4, <1>5, <1>6, <1>7, <1>8

\* The items sorted first are some of them.
LEMMA LongestIs ==
    ASSUME NEW I, I # {}, \A i \in I : IsItem(i), NEW item,
           item = CHOOSE i \in I : Len(i) = Max({Len(j) : j \in I})
    PROVE  item \in I
<1>1. \A i \in I : Len(i) \in {1, 2}
  BY DEF IsItem
<1>2. PICK i \in I : \A j \in I : Len(i) >= Len(j)
  BY <1>1
<1>3. Len(i) \in {Len(j) : j \in I} /\ \A n \in {Len(j) : j \in I} : Len(i) >= n
  BY <1>2
<1>4. Max({Len(j) : j \in I}) \in {Len(j) : j \in I}
  BY <1>3 DEF Max
<1>5. PICK m : m = Max({Len(j) : j \in I})
  OBVIOUS
<1>6. \E j \in I : Len(j) = m
  BY <1>4, <1>5
<1> QED
  BY <1>5, <1>6

\* S3: what was listed is split into files and folders.
LEMMA S3SortContinues ==
    ASSUME FoldersOf(load), S3_Sort
    PROVE  Continues
<1>1. load.phase = "folder" /\ Top.items # {}
  BY DEF S3_Sort, InFolder
<1>2. PICK T : T = Top
  OBVIOUS
<1> DEFINE longest == Max({Len(i) : i \in Top.items})
           item == CHOOSE i \in Top.items : Len(i) = longest
           rest == [Top EXCEPT !.items = @ \ {item}]
<1>3. \/ load' = Returned(Failed) \/ Update(rest)
      \/ Update([rest EXCEPT !.files = @ \cup {item}])
      \/ Len(item) = 1 /\ Update([rest EXCEPT !.phase = "list", !.opened = item])
  BY DEF S3_Sort
<1>4. CASE item \in Top.items
  <2>1. PICK it : it = item
    OBVIOUS
  <2>2. PICK rs : rs = [T EXCEPT !.items = @ \ {it}]
    OBVIOUS
  <2>3. rs = rest
    BY <1>2, <2>1, <2>2
  <2>4. \/ load' = Returned(Failed) \/ Update(rs)
        \/ Update([rs EXCEPT !.files = @ \cup {it}])
        \/ Update([rs EXCEPT !.dirs = @ \cup {it}])
        \/ Len(it) = 1 /\ Update([rs EXCEPT !.phase = "list", !.opened = it])
    <3> HIDE DEF item, rest
    <3> QED
      BY <1>3, <2>1, <2>3
  <2> QED
    BY <1>1, <1>2, <1>4, <2>1, <2>2, <2>4, SortContinues
<1>5. item \in Top.items
  <2>1. \A i \in Top.items : IsItem(i)
    BY <1>1, TopOf DEF FolderOf
  <2> QED
    BY <1>1, <2>1, LongestIs
<1> QED
  BY <1>4, <1>5

\* The listings of Google Cloud Storage and of Azure.
LEMMA NamesAreItems ==
    ASSUME NEW names
    PROVE  \A i \in {<<n>> : n \in names} : IsItem(i) /\ IsSeq(i)
BY OneName DEF IsItem

\* GS: the folder is listed.
LEMMA GSListContinues ==
    ASSUME FoldersOf(load), GS_List
    PROVE  Continues
<1>1. load.phase = "folder"
  BY DEF GS_List, InFolder
<1>2. PICK T : T = Top
  OBVIOUS
<1>3. FolderOf(T, load.version)
  BY <1>1, <1>2, TopOf
<1>4. PICK names : \/ load' = Returned(Failed)
                   \/ Update([Top EXCEPT !.phase = "sort", !.items = {<<n>> : n \in names}])
  BY DEF GS_List
<1>5. PICK I : I = {<<n>> : n \in names}
  OBVIOUS
<1>6. \A i \in I : IsItem(i)
  BY <1>5, NamesAreItems
<1>7. CASE load' = Returned(Failed)
  BY <1>1, <1>7, ReturnedContinues
<1>8. CASE Update([T EXCEPT !.phase = "sort", !.items = I])
  <2>1. PICK g : g = [T EXCEPT !.phase = "sort", !.items = I]
    OBVIOUS
  <2>2. T = [path |-> T.path, phase |-> T.phase, want |-> T.want, opened |-> T.opened,
             items |-> T.items, dirs |-> T.dirs, files |-> T.files]
    BY <1>3 DEF FolderOf
  <2>3. g = [path |-> T.path, phase |-> "sort", want |-> T.want, opened |-> T.opened,
             items |-> I, dirs |-> T.dirs, files |-> T.files]
    BY <2>1, <2>2
  <2>4. /\ T.phase \in FolderPhases /\ IsOpened(T.opened)
        /\ \A i \in T.items : IsItem(i)
        /\ \A i \in T.dirs : IsSeq(i)
        /\ \A i \in T.files : IsSeq(i)
    BY <1>3 DEF FolderOf
  <2>5. FolderOf(g, load.version)
    BY <1>3, <2>3, <2>4, <1>6, PhasesAre, FolderIs
  <2> QED
    BY <1>1, <1>8, <2>1, <2>5, UpdateContinues
<1> QED
  BY <1>2, <1>4, <1>5, <1>7, <1>8

\* GS: what was listed is split into files and folders.
LEMMA GSSortContinues ==
    ASSUME FoldersOf(load), GS_Sort
    PROVE  Continues
<1>1. load.phase = "folder" /\ Top.items # {}
  BY DEF GS_Sort, InFolder
<1>2. PICK T : T = Top
  OBVIOUS
<1> DEFINE item == CHOOSE i \in Top.items : TRUE
           rest == [Top EXCEPT !.items = @ \ {item}]
<1>3. \/ Update(rest)
      \/ Update([rest EXCEPT !.files = @ \cup {item}])
      \/ Update([rest EXCEPT !.dirs = @ \cup {item}])
  BY DEF GS_Sort
<1>4. item \in Top.items
  BY <1>1
<1>5. PICK it : it = item
  OBVIOUS
<1>6. PICK rs : rs = [T EXCEPT !.items = @ \ {it}]
  OBVIOUS
<1>7. rs = rest
  BY <1>2, <1>5, <1>6
<1>8. \/ load' = Returned(Failed) \/ Update(rs)
      \/ Update([rs EXCEPT !.files = @ \cup {it}])
      \/ Update([rs EXCEPT !.dirs = @ \cup {it}])
      \/ Len(it) = 1 /\ Update([rs EXCEPT !.phase = "list", !.opened = it])
  <2> HIDE DEF item, rest
  <2> QED
    BY <1>3, <1>5, <1>7
<1> QED
  BY <1>1, <1>2, <1>4, <1>5, <1>6, <1>8, SortContinues

\* All that was listed is split.
LEMMA SortedContinues ==
    ASSUME FoldersOf(load), Sorted
    PROVE  Continues
<1>1. load.phase = "folder"
  BY DEF Sorted, InFolder
<1>2. PICK T : T = Top
  OBVIOUS
<1>3. FolderOf(T, load.version)
  BY <1>1, <1>2, TopOf
<1>4. CASE Update([T EXCEPT !.phase = "list", !.want = "files"])
  <2>1. PICK g : g = [T EXCEPT !.phase = "list", !.want = "files"]
    OBVIOUS
  <2>2. T = [path |-> T.path, phase |-> T.phase, want |-> T.want, opened |-> T.opened,
             items |-> T.items, dirs |-> T.dirs, files |-> T.files]
    BY <1>3 DEF FolderOf
  <2>3. g = [path |-> T.path, phase |-> "list", want |-> "files", opened |-> T.opened,
             items |-> T.items, dirs |-> T.dirs, files |-> T.files]
    BY <2>1, <2>2
  <2>4. /\ T.phase \in FolderPhases /\ IsOpened(T.opened)
        /\ \A i \in T.items : IsItem(i)
        /\ \A i \in T.dirs : IsSeq(i)
        /\ \A i \in T.files : IsSeq(i)
    BY <1>3 DEF FolderOf
  <2>5. FolderOf(g, load.version)
    BY <1>3, <2>3, <2>4, PhasesAre, FolderIs
  <2> QED
    BY <1>1, <1>4, <2>1, <2>5, UpdateContinues
<1>5. CASE Update([T EXCEPT !.phase = "walk"])
  <2>1. PICK g : g = [T EXCEPT !.phase = "walk"]
    OBVIOUS
  <2>2. T = [path |-> T.path, phase |-> T.phase, want |-> T.want, opened |-> T.opened,
             items |-> T.items, dirs |-> T.dirs, files |-> T.files]
    BY <1>3 DEF FolderOf
  <2>3. g = [path |-> T.path, phase |-> "walk", want |-> T.want, opened |-> T.opened,
             items |-> T.items, dirs |-> T.dirs, files |-> T.files]
    BY <2>1, <2>2
  <2>4. /\ T.phase \in FolderPhases /\ IsOpened(T.opened)
        /\ \A i \in T.items : IsItem(i)
        /\ \A i \in T.dirs : IsSeq(i)
        /\ \A i \in T.files : IsSeq(i)
    BY <1>3 DEF FolderOf
  <2>5. FolderOf(g, load.version)
    BY <1>3, <2>3, <2>4, PhasesAre, FolderIs
  <2> QED
    BY <1>1, <1>5, <2>1, <2>5, UpdateContinues
<1> QED
  BY <1>2, <1>4, <1>5 DEF Sorted

\* A folder is listed, in any file system.
LEMMA ListedContinues ==
    ASSUME FoldersOf(load), load.phase = "folder", NEW names, Listed(names)
    PROVE  Continues
<1>1. PICK T : T = Top
  OBVIOUS
<1>2. FolderOf(T, load.version)
  BY <1>1, TopOf
<1>3. PICK I : I = {<<n>> : n \in names}
  OBVIOUS
<1>4. \A i \in I : IsSeq(i)
  BY <1>3, NamesAreItems
<1>5. CASE Update([T EXCEPT !.want = "files", !.dirs = I])
  <2>1. PICK g : g = [T EXCEPT !.want = "files", !.dirs = I]
    OBVIOUS
  <2>2. T = [path |-> T.path, phase |-> T.phase, want |-> T.want, opened |-> T.opened,
             items |-> T.items, dirs |-> T.dirs, files |-> T.files]
    BY <1>2 DEF FolderOf
  <2>3. g = [path |-> T.path, phase |-> T.phase, want |-> "files", opened |-> T.opened,
             items |-> T.items, dirs |-> I, files |-> T.files]
    BY <2>1, <2>2
  <2>4. /\ T.phase \in FolderPhases /\ IsOpened(T.opened)
        /\ \A i \in T.items : IsItem(i)
        /\ \A i \in T.dirs : IsSeq(i)
        /\ \A i \in T.files : IsSeq(i)
    BY <1>2 DEF FolderOf
  <2>5. FolderOf(g, load.version)
    BY <1>2, <2>3, <2>4, <1>4, FolderIs
  <2> QED
    BY <1>5, <2>1, <2>5, UpdateContinues
<1>6. CASE Update([T EXCEPT !.phase = "walk", !.files = I])
  <2>1. PICK g : g = [T EXCEPT !.phase = "walk", !.files = I]
    OBVIOUS
  <2>2. T = [path |-> T.path, phase |-> T.phase, want |-> T.want, opened |-> T.opened,
             items |-> T.items, dirs |-> T.dirs, files |-> T.files]
    BY <1>2 DEF FolderOf
  <2>3. g = [path |-> T.path, phase |-> "walk", want |-> T.want, opened |-> T.opened,
             items |-> T.items, dirs |-> T.dirs, files |-> I]
    BY <2>1, <2>2
  <2>4. /\ T.phase \in FolderPhases /\ IsOpened(T.opened)
        /\ \A i \in T.items : IsItem(i)
        /\ \A i \in T.dirs : IsSeq(i)
        /\ \A i \in T.files : IsSeq(i)
    BY <1>2 DEF FolderOf
  <2>5. FolderOf(g, load.version)
    BY <1>2, <2>3, <2>4, <1>4, PhasesAre, FolderIs
  <2> QED
    BY <1>6, <2>1, <2>5, UpdateContinues
<1> QED
  BY <1>1, <1>3, <1>5, <1>6 DEF Listed

\* The folder without a file that has been got or passed over.
LEMMA FileContinues ==
    ASSUME FoldersOf(load), load.phase = "folder", NEW file, Update([Top EXCEPT !.files = @ \ {file}])
    PROVE  Continues
<1>1. PICK T : T = Top
  OBVIOUS
<1>2. FolderOf(T, load.version)
  BY <1>1, TopOf
<1>3. PICK F : F = T.files \ {file}
  OBVIOUS
<1>4. \A i \in F : IsSeq(i)
  BY <1>2, <1>3 DEF FolderOf
<1>5. PICK g : g = [T EXCEPT !.files = F]
  OBVIOUS
<1>6. T = [path |-> T.path, phase |-> T.phase, want |-> T.want, opened |-> T.opened,
           items |-> T.items, dirs |-> T.dirs, files |-> T.files]
  BY <1>2 DEF FolderOf
<1>7. g = [path |-> T.path, phase |-> T.phase, want |-> T.want, opened |-> T.opened,
           items |-> T.items, dirs |-> T.dirs, files |-> F]
  BY <1>5, <1>6
<1>8. /\ T.phase \in FolderPhases /\ IsOpened(T.opened)
      /\ \A i \in T.items : IsItem(i)
      /\ \A i \in T.dirs : IsSeq(i)
      /\ \A i \in T.files : IsSeq(i)
  BY <1>2 DEF FolderOf
<1>9. FolderOf(g, load.version)
  BY <1>2, <1>7, <1>8, <1>4, FolderIs
<1> QED
  BY <1>1, <1>3, <1>5, <1>9, UpdateContinues

-----------------------------------------------------------------------------
\* The invariant is kept: within a folder

\* A step that goes on with the version leaves the rest as it was.
LEMMA FolderStepKeeps ==
    ASSUME FilesInv, load.phase = "folder", Continues, Same
    PROVE  Numbers' /\ Operating' /\ FoldersOf(load)' /\ Downloading'
<1> USE DEF FilesInv, Same
<1>1. Numbers'
  BY DEF Numbers, files
<1>2. Operating'
  BY DEF Operating
<1>3. FoldersOf(load)'
  BY DEF Continues
<1>4. Downloading'
  BY DEF Downloading, Continues
<1> QED
  BY <1>1, <1>2, <1>3, <1>4

\* It copies nothing.
LEMMA QuietFolderStep ==
    ASSUME FilesInv, load.phase = "folder", Continues, Same, UNCHANGED copies
    PROVE  FilesInv'
<1>1. CopiesInPlace'
  BY DEF FilesInv, CopiesInPlace, Same
<1>2. CopiesAreTrue'
  BY DEF FilesInv, CopiesAreTrue, Same
<1>3. AvailableHasCopy'
  BY DEF FilesInv, AvailableHasCopy, HasFiles, Same
<1> QED
  BY <1>1, <1>2, <1>3, FolderStepKeeps DEF FilesInv

\* It copies a file of the open folder, from its own path but on a file share.
LEMMA CopyingStep ==
    ASSUME FilesInv, load.phase = "folder", Continues, Same,
           NEW file \in Top.files, NEW from, NEW whole,
           copies' = Copied(Top.path \o file, from, whole),
           backend # "azfs" => from = Top.path \o file
    PROVE  FilesInv'
<1> DEFINE path == Top.path \o file
           x == Local(path)
           y == [from |-> from, change |-> IF whole THEN remote[from] ELSE -1]
<1>1. IsSeq(path) /\ Len(path) >= 1 /\ path[1] = load.version
  <2>1. /\ IsSeq(Top.path) /\ Len(Top.path) >= 1 /\ Top.path[1] = load.version
        /\ IsSeq(file)
    BY TopOf DEF FilesInv, FolderOf
  <2>2. Len(Top.path) \in Nat /\ Len(file) \in Nat
    BY <2>1 DEF IsSeq
  <2> QED
    BY <2>1, <2>2, ConcatIsSeq
<1> HIDE DEF path
<1>2. /\ IsSeq(x) /\ Len(x) >= 2 /\ x[1] = temp /\ x[2] = load.version
      /\ Tail(x) = path
  BY <1>1, LocalPath
<1>3. copies' = [l \in DOMAIN copies \cup {x} |-> IF l = x THEN y ELSE copies[l]]
  BY DEF Copied, With, path
<1> HIDE DEF x, y
<1>4. DOMAIN copies' = DOMAIN copies \cup {x}
  BY <1>3
<1>5. CopiesInPlace'
  <2>1. /\ {<<temp>>, <<temp, load.version>>} \subseteq dirs /\ load.version \in Versions
        /\ temp \in 1 .. temp
    BY DEF FilesInv, Downloading, Numbers
  <2> QED
    BY <1>2, <1>4, <2>1 DEF FilesInv, CopiesInPlace, Same
<1>6. CopiesAreTrue'
  <2>1. SUFFICES ASSUME backend # "azfs", NEW l \in DOMAIN copies \cup {x}
                 PROVE  copies'[l].from = Tail(l)
    BY <1>4 DEF CopiesAreTrue, Same
  <2>2. CASE l = x
    <3>1. copies'[l] = y
      BY <1>3, <2>2
    <3>2. y.from = path
      BY <2>1 DEF y, path
    <3> QED
      BY <1>2, <2>2, <3>1, <3>2
  <2>3. CASE l # x
    BY <1>3, <2>1, <2>3 DEF FilesInv, CopiesAreTrue
  <2> QED
    BY <2>2, <2>3
<1>7. AvailableHasCopy'
  BY <1>4 DEF FilesInv, AvailableHasCopy, HasFiles, Same
<1> QED
  BY <1>5, <1>6, <1>7, FolderStepKeeps DEF FilesInv

\* The steps of a folder in S3 that copy nothing.
LEMMA S3Steps ==
    ASSUME FilesInv, S3_Check \/ S3_List \/ S3_Sort
    PROVE  FilesInv'
<1>1. CASE S3_Check
  BY <1>1, CheckedContinues, QuietFolderStep DEF S3_Check, InFolder, FilesInv
<1>2. CASE S3_List
  BY <1>2, S3ListContinues, QuietFolderStep DEF S3_List, InFolder, FilesInv
<1>3. CASE S3_Sort
  <2>1. load.phase = "folder" /\ UNCHANGED copies /\ Same /\ FoldersOf(load)
    BY <1>3 DEF S3_Sort, InFolder, FilesInv
  <2> QED
    BY <1>3, <2>1, S3SortContinues, QuietFolderStep
<1> QED
  BY <1>1, <1>2, <1>3

\* The steps of a folder in GS that copy nothing.
LEMMA GSSteps ==
    ASSUME FilesInv, GS_Check \/ GS_List \/ GS_Sort
    PROVE  FilesInv'
<1>1. CASE GS_Check
  BY <1>1, CheckedContinues, QuietFolderStep DEF GS_Check, InFolder, FilesInv
<1>2. CASE GS_List
  BY <1>2, GSListContinues, QuietFolderStep DEF GS_List, InFolder, FilesInv
<1>3. CASE GS_Sort
  <2>1. load.phase = "folder" /\ UNCHANGED copies /\ Same /\ FoldersOf(load)
    BY <1>3 DEF GS_Sort, InFolder, FilesInv
  <2> QED
    BY <1>3, <2>1, GSSortContinues, QuietFolderStep
<1> QED
  BY <1>1, <1>2, <1>3

\* The steps of a folder in Azure that copy nothing.
LEMMA AzureSteps ==
    ASSUME FilesInv, AZ_Check \/ AZ_List \/ AZFS_Check \/ AZFS_List
    PROVE  FilesInv'
<1>1. CASE AZ_Check
  BY <1>1, CheckedContinues, QuietFolderStep DEF AZ_Check, InFolder, FilesInv
<1>2. CASE AZFS_Check
  BY <1>2, CheckedContinues, QuietFolderStep DEF AZFS_Check, InFolder, FilesInv
<1>3. CASE AZ_List
  <2>1. load.phase = "folder" /\ UNCHANGED copies /\ Same /\ FoldersOf(load)
    BY <1>3 DEF AZ_List, InFolder, FilesInv
  <2>2. PICK names : load' = Returned(Failed) \/ Listed(names)
    BY <1>3 DEF AZ_List
  <2> QED
    BY <2>1, <2>2, ReturnedContinues, ListedContinues, QuietFolderStep
<1>4. CASE AZFS_List
  <2>1. load.phase = "folder" /\ UNCHANGED copies /\ Same /\ FoldersOf(load)
    BY <1>4 DEF AZFS_List, InFolder, FilesInv
  <2>2. PICK names : load' = Returned(Failed) \/ Listed(names)
    BY <1>4 DEF AZFS_List
  <2> QED
    BY <2>1, <2>2, ReturnedContinues, ListedContinues, QuietFolderStep
<1> QED
  BY <1>1, <1>2, <1>3, <1>4

\* Getting a file: from the path that it has, but on a file share.
LEMMA FileSteps ==
    ASSUME FilesInv, S3_GetObject \/ GS_DownloadFile \/ AZ_DownloadFile \/ AZFS_DownloadFile
    PROVE  FilesInv'
<1> DEFINE file == CHOOSE n \in Top.files : TRUE
<1>1. /\ load.phase = "folder" /\ Same /\ FoldersOf(load) /\ Top.files # {}
  BY DEF S3_GetObject, GS_DownloadFile, GetFile, AZ_DownloadFile, AZFS_DownloadFile, InFolder, FilesInv
<1>2. file \in Top.files
  BY <1>1
<1>3. ASSUME GetFile
      PROVE  FilesInv'
  <2>1. \/ Update([Top EXCEPT !.files = @ \ {file}]) /\ UNCHANGED copies
        \/ load' = Returned(Failed) /\ UNCHANGED copies
        \/ /\ Update([Top EXCEPT !.files = @ \ {file}])
           /\ \E whole : copies' = Copied(Top.path \o file, Top.path \o file, whole)
    BY <1>3 DEF GetFile
  <2> HIDE DEF file
  <2>2. Continues
    BY <1>1, <2>1, FileContinues, ReturnedContinues
  <2> QED
    BY <1>1, <1>2, <2>1, <2>2, QuietFolderStep, CopyingStep
<1>4. ASSUME NEW from, NEW lost, Saved(file, from, lost), backend # "azfs" => from = Top.path \o file
      PROVE  FilesInv'
  <2> HIDE DEF file
  <2>1. \/ load' = Returned(Failed) /\ UNCHANGED copies
        \/ /\ Update([Top EXCEPT !.files = @ \ {file}])
           /\ copies' = Copied(Top.path \o file, from, TRUE)
    BY <1>4 DEF Saved
  <2>2. Continues
    BY <1>1, <2>1, FileContinues, ReturnedContinues
  <2> QED
    BY <1>1, <1>2, <1>4, <2>1, <2>2, QuietFolderStep, CopyingStep
<1>5. CASE AZ_DownloadFile
  <2>1. PICK f : Saved(file, Top.path \o file, f)
    BY <1>5 DEF AZ_DownloadFile
  <2> QED
    BY <1>4, <2>1
<1>6. CASE AZFS_DownloadFile
  <2>1. PICK from, lost : Saved(file, from, lost)
    BY <1>6 DEF AZFS_DownloadFile
  <2>2. backend = "azfs"
    BY <1>6 DEF AZFS_DownloadFile
  <2> QED
    BY <1>4, <2>1, <2>2
<1> QED
  BY <1>3, <1>5, <1>6 DEF S3_GetObject, GS_DownloadFile

\* The walk over the files and the folders of a folder.
LEMMA FolderSteps ==
    ASSUME FilesInv, Sorted \/ WalkFolder \/ FolderDone
    PROVE  FilesInv'
<1>1. load.phase = "folder" /\ UNCHANGED copies /\ Same /\ FoldersOf(load)
  BY DEF Sorted, WalkFolder, FolderDone, InFolder, FilesInv
<1>2. CASE Sorted
  BY <1>1, <1>2, SortedContinues, QuietFolderStep
<1>3. CASE WalkFolder
  <2> DEFINE d == CHOOSE d \in Top.dirs : TRUE
  <2>1. d \in Top.dirs
    BY <1>3 DEF WalkFolder
  <2>2. PICK unmade : load' = Returned(Failed) \/ load' = Descend(d, unmade)
    BY <1>3 DEF WalkFolder
  <2> HIDE DEF d
  <2> QED
    BY <1>1, <2>1, <2>2, DescendContinues, ReturnedContinues, QuietFolderStep
<1>4. CASE FolderDone
  BY <1>1, <1>4, ReturnedContinues, QuietFolderStep DEF FolderDone
<1> QED
  BY <1>2, <1>3, <1>4

-----------------------------------------------------------------------------
\* The invariant is kept: the versions of a download

\* A load given by its fields, without open folders.
LEMMA NoFolders ==
    ASSUME NEW ld, NEW p \in {"none", "versions", "done"}, NEW t, NEW v, NEW r,
           ld = [phase |-> p, todo |-> t, version |-> v, result |-> r, stack |-> <<>>]
    PROVE  FoldersOf(ld)
BY EmptyIsSeq DEF FoldersOf

\* Nothing but the download moves.
LEMMA QuietRest ==
    ASSUME FilesInv, UNCHANGED <<backend, remote, dirs, copies, temp, instance, config>>
    PROVE  Numbers' /\ CopiesInPlace' /\ CopiesAreTrue' /\ AvailableHasCopy'
<1>1. Numbers'
  BY DEF FilesInv, Numbers
<1>2. CopiesInPlace'
  BY DEF FilesInv, CopiesInPlace
<1>3. CopiesAreTrue'
  BY DEF FilesInv, CopiesAreTrue
<1>4. AvailableHasCopy'
  BY DEF FilesInv, AvailableHasCopy, HasFiles
<1> QED
  BY <1>1, <1>2, <1>3, <1>4

\* More directories, and more temporary paths, hurt nothing.
LEMMA MoreDirs ==
    ASSUME FilesInv, UNCHANGED <<backend, remote, copies, instance, config>>,
           dirs \subseteq dirs', temp' \in Nat, temp' >= temp
    PROVE  Numbers' /\ CopiesInPlace' /\ CopiesAreTrue' /\ AvailableHasCopy'
<1>1. Numbers'
  <2>1. 0 .. temp \subseteq 0 .. temp'
    BY DEF FilesInv, Numbers
  <2> QED
    BY <2>1 DEF FilesInv, Numbers
<1>2. CopiesInPlace'
  <2>1. 1 .. temp \subseteq 1 .. temp'
    BY DEF FilesInv, Numbers
  <2> QED
    BY <2>1 DEF FilesInv, CopiesInPlace
<1>3. CopiesAreTrue'
  BY DEF FilesInv, CopiesAreTrue
<1>4. AvailableHasCopy'
  BY DEF FilesInv, AvailableHasCopy, HasFiles
<1> QED
  BY <1>1, <1>2, <1>3, <1>4

\* The directory for the copies of a model is made.
LEMMA CreateTempPathKeeps ==
    ASSUME FilesInv, CreateTempPath
    PROVE  FilesInv'
<1>1. /\ load.phase = "versions" /\ load = [phase |-> load.phase, todo |-> load.todo, version |-> load.version,
                                            result |-> load.result, stack |-> load.stack]
      /\ load.stack = <<>> /\ temp \in Nat /\ load.todo \subseteq Versions /\ op.kind # "idle"
  BY DEF FilesInv, CreateTempPath, FoldersOf, Numbers, Downloading
<1>2. Operating'
  BY DEF FilesInv, CreateTempPath, Operating
<1>3. CASE load' = [load EXCEPT !.phase = "done", !.result = Failed] /\ UNCHANGED <<temp, dirs>>
  <2>1. load' = [phase |-> "done", todo |-> load.todo, version |-> load.version, result |-> Failed, stack |-> <<>>]
    BY <1>1, <1>3
  <2>2. FoldersOf(load)'
    BY <2>1, NoFolders
  <2>3. Downloading'
    BY <2>1 DEF Downloading
  <2> QED
    BY <1>2, <1>3, <2>2, <2>3, QuietRest DEF FilesInv, CreateTempPath
<1>4. CASE /\ temp' = temp + 1 /\ dirs' = dirs \cup {<<temp + 1>>}
           /\ load' = [load EXCEPT !.version = "?"]
  <2>1. load' = [phase |-> "versions", todo |-> load.todo, version |-> "?", result |-> load.result, stack |-> <<>>]
    BY <1>1, <1>4
  <2>2. FoldersOf(load)'
    BY <2>1, NoFolders
  <2>3. temp' \in Nat /\ temp' >= 1 /\ temp' >= temp /\ <<temp'>> \in dirs' /\ dirs \subseteq dirs'
    BY <1>1, <1>4
  <2>4. Downloading'
    <3>1. load'.phase = "versions" /\ load'.todo = load.todo /\ op' = op
      BY <2>1 DEF CreateTempPath
    <3> QED
      BY <1>1, <2>3, <3>1 DEF Downloading
  <2>5. Numbers' /\ CopiesInPlace' /\ CopiesAreTrue' /\ AvailableHasCopy'
    <3>1. UNCHANGED <<backend, remote, copies, instance, config>>
      BY DEF CreateTempPath
    <3> QED
      BY <2>3, <3>1, MoreDirs
  <2> QED
    BY <1>2, <2>2, <2>4, <2>5 DEF FilesInv
<1> QED
  BY <1>3, <1>4 DEF CreateTempPath

\* The next version is downloaded.
LEMMA NextVersionKeeps ==
    ASSUME FilesInv, NextVersion
    PROVE  FilesInv'
<1> DEFINE v == CHOOSE v \in load.todo : TRUE
<1>1. /\ load.phase = "versions" /\ load.version # "" /\ load.todo # {}
      /\ load = [phase |-> load.phase, todo |-> load.todo, version |-> load.version,
                 result |-> load.result, stack |-> load.stack]
      /\ load.stack = <<>> /\ temp \in Nat /\ load.todo \subseteq Versions /\ op.kind # "idle"
      /\ temp >= 1 /\ <<temp>> \in dirs
  BY DEF FilesInv, NextVersion, FoldersOf, Numbers, Downloading
<1>2. v \in load.todo /\ v \in Versions
  BY <1>1
<1>3. dirs' = dirs \cup {<<temp, v>>} /\ UNCHANGED <<backend, remote, copies, temp, instance, config, op>>
  BY DEF NextVersion, files
<1>4. \/ load' = [VersionDone(Failed) EXCEPT !.version = v, !.todo = @ \ {v}]
      \/ load' = [load EXCEPT !.phase = "folder", !.version = v, !.todo = @ \ {v}, !.stack = <<Folder(<<v>>)>>]
  BY DEF NextVersion
<1> HIDE DEF v
<1>5. Operating'
  BY <1>3 DEF FilesInv, Operating
<1>6. Numbers' /\ CopiesInPlace' /\ CopiesAreTrue' /\ AvailableHasCopy'
  <2>1. dirs \subseteq dirs' /\ temp' \in Nat /\ temp' >= temp
    <3>1. temp' = temp /\ dirs \subseteq dirs' /\ temp \in Nat
      BY <1>1, <1>3
    <3> QED
      BY <3>1
  <2>2. UNCHANGED <<backend, remote, copies, instance, config>>
    BY <1>3
  <2> QED
    BY <2>1, <2>2, MoreDirs
<1>7. CASE load' = [VersionDone(Failed) EXCEPT !.version = v, !.todo = @ \ {v}]
  <2>0. PICK p \in {"versions", "done"} : \E r :
          VersionDone(Failed) = [phase |-> p, todo |-> load.todo, version |-> load.version, result |-> r, stack |-> <<>>]
    BY <1>1 DEF VersionDone
  <2>1. PICK r : VersionDone(Failed) =
          [phase |-> p, todo |-> load.todo, version |-> load.version, result |-> r, stack |-> <<>>]
    BY <2>0
  <2>2. load' = [phase |-> p, todo |-> load.todo \ {v}, version |-> v, result |-> r, stack |-> <<>>]
    <3>1. PICK w : w = VersionDone(Failed)
      OBVIOUS
    <3>2. load' = [w EXCEPT !.version = v, !.todo = w.todo \ {v}]
      BY <1>7, <3>1
    <3>3. w = [phase |-> p, todo |-> load.todo, version |-> load.version, result |-> r, stack |-> <<>>]
      BY <2>1, <3>1
    <3> QED
      BY <3>2, <3>3
  <2>3. FoldersOf(load)'
    BY <2>2, NoFolders
  <2>4. Downloading'
    BY <1>1, <1>3, <2>2 DEF Downloading
  <2> QED
    BY <1>5, <1>6, <2>3, <2>4 DEF FilesInv
<1>8. CASE load' = [load EXCEPT !.phase = "folder", !.version = v, !.todo = @ \ {v}, !.stack = <<Folder(<<v>>)>>]
  <2>1. PICK f : f = Folder(<<v>>)
    OBVIOUS
  <2>2. load' = [phase |-> "folder", todo |-> load.todo \ {v}, version |-> v, result |-> load.result, stack |-> <<f>>]
    BY <1>1, <1>8, <2>1
  <2>3. FolderOf(f, v)
    BY <2>1, OneName, EmptyIsSeq DEF FolderOf, Folder, FolderPhases, IsOpened
  <2>4. IsSeq(<<f>>) /\ Len(<<f>>) = 1 /\ <<f>>[1] = f
    BY OneName
  <2>5. FoldersOf(load)'
    BY <2>2, <2>3, <2>4 DEF FoldersOf
  <2>6. Downloading'
    BY <1>1, <1>2, <1>3, <2>2 DEF Downloading
  <2> QED
    BY <1>5, <1>6, <2>5, <2>6 DEF FilesInv
<1> QED
  BY <1>4, <1>7, <1>8

\* The last version of a download is done.
LEMMA AllVersionsDoneKeeps ==
    ASSUME FilesInv, AllVersionsDone
    PROVE  FilesInv'
<1>1. load' = [phase |-> "done", todo |-> load.todo, version |-> load.version, result |-> load.result, stack |-> <<>>]
  BY DEF FilesInv, AllVersionsDone, FoldersOf
<1>2. FoldersOf(load)'
  BY <1>1, NoFolders
<1>3. Downloading'
  BY <1>1 DEF Downloading
<1>4. Operating'
  BY DEF FilesInv, AllVersionsDone, Operating
<1> QED
  BY <1>2, <1>3, <1>4, QuietRest DEF FilesInv, AllVersionsDone, files

-----------------------------------------------------------------------------
\* The invariant is kept: the operations of the model

\* Deleting the copy of one version leaves the files of the others, with their
\* directories.
LEMMA CleanupSpares ==
    ASSUME FilesInv, NEW local, NEW v, cleanupModelTmpFiles(local, v), UNCHANGED <<backend, temp>>
    PROVE  /\ CopiesInPlace' /\ CopiesAreTrue'
           /\ \A l \in DOMAIN copies : ~(l[1] = local /\ l[2] = v) => l \in DOMAIN copies'
<1> DEFINE kept == {l \in DOMAIN copies : ~IsPrefix(<<local, v>>, l)}
<1>1. copies' = [l \in kept |-> copies[l]] /\ dirs' = Deleted(dirs, local, v)
  BY DEF cleanupModelTmpFiles, Restrict
<1>2. \A l \in DOMAIN copies : l \in kept <=> ~(l[1] = local /\ l[2] = v)
  BY PrefixOfVersion DEF FilesInv, CopiesInPlace
<1> HIDE DEF kept
<1>3. DOMAIN copies' = kept /\ kept \subseteq DOMAIN copies
  BY <1>1 DEF kept
<1>4. CopiesInPlace'
  <2> SUFFICES ASSUME NEW l \in kept
               PROVE  {<<l[1]>>, <<l[1], l[2]>>} \subseteq dirs'
    BY <1>3 DEF FilesInv, CopiesInPlace
  <2>1. l \in DOMAIN copies /\ {<<l[1]>>, <<l[1], l[2]>>} \subseteq dirs
    BY <1>3 DEF FilesInv, CopiesInPlace
  <2>2. <<l[1], l[2]>> # <<local, v>>
    BY <1>2, <2>1
  <2> DEFINE rest == dirs \ {<<local, v>>}
  <2>3. <<l[1], l[2]>> \in rest /\ <<l[1], l[2]>> # <<local>>
    BY <2>1, <2>2
  <2>4. <<l[1]>> \in rest
    BY <2>1
  <2>5. CASE l[1] = local
    <3>1. IsPrefix(<<local>>, <<l[1], l[2]>>)
      BY <2>5, PrefixOfPath
    <3>2. dirs' = rest
      BY <1>1, <2>3, <3>1 DEF Deleted
    <3> QED
      BY <2>3, <2>4, <3>2
  <2>6. CASE l[1] # local
    <3>1. <<l[1]>> # <<local>>
      BY <2>6
    <3>2. dirs' = rest \/ dirs' = rest \ {<<local>>}
      BY <1>1 DEF Deleted
    <3> QED
      BY <2>3, <2>4, <3>1, <3>2
  <2> QED
    BY <2>5, <2>6
<1>5. CopiesAreTrue'
  BY <1>1, <1>3 DEF FilesInv, CopiesAreTrue
<1> QED
  BY <1>2, <1>3, <1>4, <1>5

\* The other versions keep their copies.
LEMMA OthersKeepCopies ==
    ASSUME FilesInv, NEW local, NEW v, cleanupModelTmpFiles(local, v), UNCHANGED <<backend, temp>>,
           NEW u \in Versions, u # v, instance[u].state = "AVAILABLE"
    PROVE  /\ {<<instance[u].local>>, <<instance[u].local, u>>} \subseteq dirs'
           /\ \E l \in DOMAIN copies' : IsPrefix(<<instance[u].local, u>>, l)
<1>1. PICK l \in DOMAIN copies : IsPrefix(<<instance[u].local, u>>, l)
  BY DEF FilesInv, AvailableHasCopy, HasFiles
<1>2. l[1] = instance[u].local /\ l[2] = u
  BY <1>1, PrefixOfVersion DEF FilesInv, CopiesInPlace
<1>3. l \in DOMAIN copies'
  BY <1>2, CleanupSpares
<1>4. {<<l[1]>>, <<l[1], l[2]>>} \subseteq dirs'
  BY <1>3, CleanupSpares DEF CopiesInPlace
<1> QED
  BY <1>1, <1>2, <1>3, <1>4

\* The versions of an operation, one after the other.
LEMMA InOrderIs ==
    ASSUME NEW vs \in SUBSET Versions
    PROVE  InOrder(vs) \in Seq(Versions)
<1>1. IsFiniteSet(vs)
  BY FilesAssumption, FS_Subset
<1>2. Cardinality(vs) \in Nat /\ ExistsBijection(1 .. Cardinality(vs), vs)
  BY <1>1, FS_CardinalityType
<1>3. \E f \in [1 .. Cardinality(vs) -> vs] : IsInjective(f)
  BY <1>2 DEF ExistsBijection, Bijection, Injection, IsInjective
<1>4. InOrder(vs) \in [1 .. Cardinality(vs) -> vs]
  BY <1>3 DEF InOrder, SetToSeq
<1> QED
  BY <1>2, <1>4

\* addVersions begins.
LEMMA AddVersionsKeeps ==
    ASSUME FilesInv, NEW vs \in SUBSET Versions, NEW fresh, AddVersions(vs, fresh)
    PROVE  FilesInv'
<1>1. load' = [phase |-> "versions", todo |-> vs, version |-> "", result |-> Ok, stack |-> <<>>]
  BY DEF AddVersions, StartDownload, NoLoad
<1>2. op' = [kind |-> "add", todo |-> InOrder(vs), batch |-> vs, moved |-> FALSE]
  BY DEF AddVersions
<1>3. UNCHANGED <<backend, remote, dirs, copies, temp, instance>>
  BY DEF AddVersions, files
<1>4. FoldersOf(load)'
  BY <1>1, NoFolders
<1>5. Downloading'
  BY <1>1, <1>2 DEF Downloading
<1>6. Operating'
  BY <1>2, InOrderIs DEF Operating
<1>7. Numbers'
  BY <1>3 DEF FilesInv, Numbers, AddVersions, Reread, NoPath
<1>8. CopiesInPlace' /\ CopiesAreTrue'
  BY <1>3 DEF FilesInv, CopiesInPlace, CopiesAreTrue
<1>9. AvailableHasCopy'
  BY <1>3 DEF FilesInv, AvailableHasCopy, HasFiles
<1> QED
  BY <1>4, <1>5, <1>6, <1>7, <1>8, <1>9 DEF FilesInv

\* reloadVersions begins.
LEMMA ReloadVersionsKeeps ==
    ASSUME FilesInv, NEW vs \in SUBSET Versions, NEW fresh, NEW moved, ReloadVersions(vs, fresh, moved)
    PROVE  FilesInv'
<1>1. op' = [kind |-> "reload", todo |-> InOrder(vs), batch |-> vs, moved |-> moved]
  BY DEF ReloadVersions
<1>2. UNCHANGED <<backend, remote, dirs, copies, temp, instance, load>>
  BY DEF ReloadVersions, files
<1>3. FoldersOf(load)'
  BY <1>2 DEF FilesInv
<1>4. Downloading'
  BY <1>1, <1>2 DEF FilesInv, Downloading
<1>5. Operating'
  BY <1>1, InOrderIs DEF Operating
<1>6. Numbers'
  BY <1>2 DEF FilesInv, Numbers, ReloadVersions, Reread, NoPath
<1>7. CopiesInPlace' /\ CopiesAreTrue'
  BY <1>2 DEF FilesInv, CopiesInPlace, CopiesAreTrue
<1>8. AvailableHasCopy'
  BY <1>2 DEF FilesInv, AvailableHasCopy, HasFiles
<1> QED
  BY <1>3, <1>4, <1>5, <1>6, <1>7, <1>8 DEF FilesInv

\* reloadVersions takes the next version.
LEMMA ReloadVersionKeeps ==
    ASSUME FilesInv, ReloadVersion
    PROVE  FilesInv'
<1>1. UNCHANGED <<backend, remote, dirs, copies, temp, instance, op>> /\ op.kind = "reload"
  BY DEF ReloadVersion, files
<1>2. \/ load' = [phase |-> "versions", todo |-> op.batch, version |-> "", result |-> Ok, stack |-> <<>>] /\ config' = config
      \/ /\ load' = [phase |-> "done", todo |-> {}, version |-> "", result |-> Failed, stack |-> <<>>]
         /\ config' = instance[Head(op.todo)].local
  BY DEF ReloadVersion, StartDownload, NoLoad
<1>3. FoldersOf(load)'
  BY <1>2, NoFolders
<1>4. Downloading'
  <2>1. /\ load'.phase \in {"versions", "done"} /\ load'.version = ""
        /\ load'.phase = "versions" => load'.todo = op.batch
    <3>1. CASE load' = [phase |-> "versions", todo |-> op.batch, version |-> "", result |-> Ok, stack |-> <<>>]
      BY <3>1
    <3>2. CASE load' = [phase |-> "done", todo |-> {}, version |-> "", result |-> Failed, stack |-> <<>>]
      BY <3>2
    <3> QED
      BY <1>2, <3>1, <3>2
  <2> QED
    BY <1>1, <2>1 DEF FilesInv, Downloading, Operating
<1>5. Operating'
  BY <1>1 DEF FilesInv, Operating
<1>6. Numbers'
  <2>1. Head(op.todo) \in Versions
    BY DEF FilesInv, Operating, ReloadVersion
  <2>2. config' \in 0 .. temp
    BY <1>2, <2>1 DEF FilesInv, Numbers
  <2> QED
    BY <1>1, <2>2 DEF FilesInv, Numbers
<1>7. CopiesInPlace' /\ CopiesAreTrue'
  BY <1>1 DEF FilesInv, CopiesInPlace, CopiesAreTrue
<1>8. AvailableHasCopy'
  BY <1>1 DEF FilesInv, AvailableHasCopy, HasFiles
<1> QED
  BY <1>3, <1>4, <1>5, <1>6, <1>7, <1>8 DEF FilesInv

\* A version is loaded from the copy there is; one that is new and cannot be loaded
\* loses its copy.
LEMMA LoadVersionKeeps ==
    ASSUME FilesInv, LoadVersion
    PROVE  FilesInv'
<1> DEFINE v == Head(op.todo)
           local == Path(config)
<1>1. /\ load.phase = "done" /\ op.todo # <<>> /\ op.todo \in Seq(Versions) /\ v \in Versions
      /\ UNCHANGED <<backend, remote, temp>> /\ config' = local
  BY DEF FilesInv, Operating, LoadVersion, files
<1>2. local \in 0 .. temp
  BY DEF FilesInv, Numbers, Path
<1>3. PICK loaded \in BOOLEAN :
        /\ loaded => HasFiles(local, v)
        /\ instance' = [instance EXCEPT ![v] = [state |-> IF loaded THEN "AVAILABLE" ELSE "LOADING", local |-> local]]
        /\ IF ~loaded /\ op.kind = "add" THEN cleanupModelTmpFiles(local, v) ELSE UNCHANGED <<dirs, copies>>
  BY DEF LoadVersion
<1>4. op' = [op EXCEPT !.todo = Tail(op.todo)]
  BY DEF LoadVersion
<1>5. load' = [load EXCEPT !.result = Failed] \/ load' = NoLoad
  BY DEF LoadVersion
<1> HIDE DEF v, local
<1>6. Operating'
  <2>1. Tail(op.todo) \in Seq(Versions)
    BY <1>1
  <2>2. op' = [kind |-> op.kind, todo |-> Tail(op.todo), batch |-> op.batch, moved |-> op.moved]
    BY <1>4 DEF FilesInv, Operating
  <2> QED
    BY <2>1, <2>2 DEF FilesInv, Operating
<1>7. load'.phase \in {"none", "done"} /\ FoldersOf(load)'
  <2>1. CASE load' = NoLoad
    BY <2>1, NoFolders DEF NoLoad
  <2>2. CASE load' = [load EXCEPT !.result = Failed]
    <3>1. load' = [phase |-> "done", todo |-> load.todo, version |-> load.version, result |-> Failed, stack |-> <<>>]
      BY <1>1, <2>2 DEF FilesInv, FoldersOf
    <3> QED
      BY <3>1, NoFolders
  <2> QED
    BY <1>5, <2>1, <2>2
<1>8. Downloading'
  BY <1>7 DEF Downloading
<1>9. /\ \A u \in Versions : u # v => instance'[u] = instance[u]
      /\ instance'[v].state = (IF loaded THEN "AVAILABLE" ELSE "LOADING") /\ instance'[v].local = local
  BY <1>1, <1>3 DEF FilesInv, Numbers
<1>10. Numbers'
  BY <1>1, <1>2, <1>3 DEF FilesInv, Numbers, States
<1>11. CASE ~loaded /\ op.kind = "add"
  <2>1. cleanupModelTmpFiles(local, v) /\ UNCHANGED <<backend, temp>>
    BY <1>1, <1>3, <1>11
  <2>2. CopiesInPlace' /\ CopiesAreTrue'
    BY <2>1, CleanupSpares
  <2>3. AvailableHasCopy'
    <3> SUFFICES ASSUME NEW u \in Versions, instance'[u].state = "AVAILABLE"
                 PROVE  /\ {<<instance'[u].local>>, <<instance'[u].local, u>>} \subseteq dirs'
                        /\ \E l \in DOMAIN copies' : IsPrefix(<<instance'[u].local, u>>, l)
      BY DEF AvailableHasCopy, HasFiles
    <3>1. u # v /\ instance'[u] = instance[u]
      BY <1>9, <1>11
    <3> QED
      BY <2>1, <3>1, OthersKeepCopies
  <2> QED
    BY <1>6, <1>7, <1>8, <1>10, <2>2, <2>3 DEF FilesInv
<1>12. CASE ~(~loaded /\ op.kind = "add")
  <2>1. UNCHANGED <<dirs, copies>>
    BY <1>3, <1>12
  <2>2. CopiesInPlace' /\ CopiesAreTrue'
    BY <1>1, <2>1 DEF FilesInv, CopiesInPlace, CopiesAreTrue
  <2>3. AvailableHasCopy'
    <3> SUFFICES ASSUME NEW u \in Versions, instance'[u].state = "AVAILABLE"
                 PROVE  /\ {<<instance'[u].local>>, <<instance'[u].local, u>>} \subseteq dirs
                        /\ HasFiles(instance'[u].local, u)
      BY <2>1 DEF AvailableHasCopy, HasFiles
    <3>1. CASE u # v
      BY <1>9, <3>1 DEF FilesInv, AvailableHasCopy
    <3>2. CASE u = v
      <4>1. HasFiles(local, v)
        BY <1>3, <1>9, <3>2
      <4>2. PICK l \in DOMAIN copies : IsPrefix(<<local, v>>, l)
        BY <4>1 DEF HasFiles
      <4>3. l[1] = local /\ l[2] = v /\ {<<l[1]>>, <<l[1], l[2]>>} \subseteq dirs
        BY <4>2, PrefixOfVersion DEF FilesInv, CopiesInPlace
      <4> QED
        BY <1>9, <3>2, <4>1, <4>3
    <3> QED
      BY <3>1, <3>2
  <2> QED
    BY <1>6, <1>7, <1>8, <1>10, <2>2, <2>3 DEF FilesInv
<1> QED
  BY <1>11, <1>12

\* addVersions or reloadVersions ends.
LEMMA OperationDoneKeeps ==
    ASSUME FilesInv, OperationDone
    PROVE  FilesInv'
<1>1. FoldersOf(load)' /\ Downloading'
  BY NoFolders DEF OperationDone, NoLoad, Downloading
<1>2. Operating'
  BY DEF OperationDone, Operating, Idle
<1> QED
  BY <1>1, <1>2, QuietRest DEF FilesInv, OperationDone, files

\* A version is retired: its own copies are deleted, no other version's.
LEMMA RetireVersionKeeps ==
    ASSUME FilesInv, NEW v \in Versions, RetireVersion(v)
    PROVE  FilesInv'
<1>1. /\ cleanupModelTmpFiles(instance[v].local, v)
      /\ UNCHANGED <<backend, remote, temp, config, op, load>> /\ op.kind = "idle"
  BY DEF RetireVersion, files
<1>2. instance' = [instance EXCEPT ![v] = [instance[v] EXCEPT !.state = "END"]]
  BY DEF RetireVersion
<1>3. /\ \A u \in Versions : u # v => instance'[u] = instance[u]
      /\ instance'[v].state = "END"
  BY <1>2 DEF FilesInv, Numbers
<1>4. Numbers'
  BY <1>1, <1>2 DEF FilesInv, Numbers, States
<1>5. Operating' /\ FoldersOf(load)'
  BY <1>1 DEF FilesInv, Operating
<1>6. Downloading'
  BY <1>1 DEF FilesInv, Downloading
<1>7. CopiesInPlace' /\ CopiesAreTrue'
  BY <1>1, CleanupSpares
<1>8. AvailableHasCopy'
  <2> SUFFICES ASSUME NEW u \in Versions, instance'[u].state = "AVAILABLE"
               PROVE  /\ {<<instance'[u].local>>, <<instance'[u].local, u>>} \subseteq dirs'
                      /\ \E l \in DOMAIN copies' : IsPrefix(<<instance'[u].local, u>>, l)
    BY DEF AvailableHasCopy, HasFiles
  <2>1. u # v /\ instance'[u] = instance[u]
    BY <1>3
  <2> QED
    BY <1>1, <2>1, OthersKeepCopies
<1> QED
  BY <1>4, <1>5, <1>6, <1>7, <1>8 DEF FilesInv

\* What happens to the remote objects leaves the copies alone.
LEMMA ChangeKeeps ==
    ASSUME FilesInv, Change
    PROVE  FilesInv'
<1>1. UNCHANGED <<backend, dirs, copies, temp, instance, config, op, load>>
  BY DEF Change
<1>2. DOMAIN remote' \subseteq Objects
  BY DEF FilesInv, Numbers, Change, With, Restrict
<1>3. Numbers'
  BY <1>1, <1>2 DEF FilesInv, Numbers
<1>4. Operating' /\ FoldersOf(load)'
  BY <1>1 DEF FilesInv, Operating
<1>5. Downloading'
  BY <1>1 DEF FilesInv, Downloading
<1>6. CopiesInPlace' /\ CopiesAreTrue'
  BY <1>1 DEF FilesInv, CopiesInPlace, CopiesAreTrue
<1>7. AvailableHasCopy'
  BY <1>1 DEF FilesInv, AvailableHasCopy, HasFiles
<1> QED
  BY <1>3, <1>4, <1>5, <1>6, <1>7 DEF FilesInv

-----------------------------------------------------------------------------
\* Paths

\* Two sequences with the same elements are the same.
LEMMA SameSeq ==
    ASSUME NEW s, NEW t, IsSeq(s), IsSeq(t), Len(s) = Len(t), \A i \in 1 .. Len(s) : s[i] = t[i]
    PROVE  s = t
<1> DEFINE S == {s[i] : i \in 1 .. Len(s)}
<1>1. s \in Seq(S) /\ t \in Seq(S)
  BY IsSeqOf
<1> HIDE DEF S
<1> QED
  BY <1>1, SeqEqual

\* What is where in a path within a folder.
LEMMA ConcatElements ==
    ASSUME NEW a, NEW b, IsSeq(a), IsSeq(b)
    PROVE  \A i \in 1 .. Len(a) + Len(b) : (a \o b)[i] = IF i <= Len(a) THEN a[i] ELSE b[i - Len(a)]
<1> DEFINE S == {a[i] : i \in 1 .. Len(a)} \cup {b[i] : i \in 1 .. Len(b)}
<1>1. a \in Seq(S) /\ b \in Seq(S)
  BY IsSeqOf
<1> HIDE DEF S
<1> QED
  BY <1>1, ConcatProperties

\* The empty path within a folder is the folder.
LEMMA ConcatNothing ==
    ASSUME NEW a, IsSeq(a)
    PROVE  a \o <<>> = a
<1> DEFINE S == {a[i] : i \in 1 .. Len(a)}
<1>1. a \in Seq(S)
  BY IsSeqOf
<1> HIDE DEF S
<1> QED
  BY <1>1, ConcatEmptySeq

\* A path within a folder of a folder.
LEMMA ConcatAppend ==
    ASSUME NEW a, NEW b, NEW n, IsSeq(a), IsSeq(b)
    PROVE  a \o Append(b, n) = (a \o b) \o <<n>>
<1> DEFINE S == {a[i] : i \in 1 .. Len(a)} \cup {b[i] : i \in 1 .. Len(b)} \cup {n}
<1>1. a \in Seq(S) /\ b \in Seq(S)
  BY IsSeqOf
<1>2. n \in S
  OBVIOUS
<1> HIDE DEF S
<1>3. Append(b, n) = b \o <<n>> /\ <<n>> \in Seq(S)
  BY <1>1, <1>2, AppendIsConcat
<1> QED
  BY <1>1, <1>3, ConcatAssociative

\* A name more is a path within the folder.
LEMMA AppendIs ==
    ASSUME NEW a, NEW n, IsSeq(a)
    PROVE  Append(a, n) = a \o <<n>>
<1> DEFINE S == {a[i] : i \in 1 .. Len(a)} \cup {n}
<1>1. a \in Seq(S)
  BY IsSeqOf
<1>2. n \in S
  OBVIOUS
<1> HIDE DEF S
<1> QED
  BY <1>1, <1>2, AppendIsConcat

\* The first names of a path.
LEMMA FirstNames ==
    ASSUME NEW o, IsSeq(o), NEW k \in 0 .. Len(o)
    PROVE  /\ IsSeq(SubSeq(o, 1, k)) /\ Len(SubSeq(o, 1, k)) = k
           /\ \A i \in 1 .. k : SubSeq(o, 1, k)[i] = o[i]
<1> DEFINE S == {o[i] : i \in 1 .. Len(o)}
<1>1. o \in Seq(S) /\ Len(o) \in Nat
  BY IsSeqOf DEF IsSeq
<1>2. \A i \in 1 .. k : o[i] \in S
  BY <1>1
<1> HIDE DEF S
<1>3. /\ SubSeq(o, 1, k) \in Seq(S)
      /\ Len(SubSeq(o, 1, k)) = IF 1 <= k THEN k - 1 + 1 ELSE 0
      /\ \A i \in 1 .. k - 1 + 1 : SubSeq(o, 1, k)[i] = o[1 + i - 1]
  BY <1>1, <1>2, SubSeqProperties
<1>4. IsSeq(SubSeq(o, 1, k))
  BY <1>3, SeqIs
<1>5. Len(SubSeq(o, 1, k)) = k
  BY <1>1, <1>3
<1>6. \A i \in 1 .. k : SubSeq(o, 1, k)[i] = o[i]
  BY <1>1, <1>3
<1> QED
  BY <1>4, <1>5, <1>6

\* What is below a path starts with its names.
LEMMA StrictPrefixIs ==
    ASSUME NEW p, NEW o, IsSeq(p), IsSeq(o)
    PROVE  IsStrictPrefix(p, o) <=> Len(p) < Len(o) /\ \A i \in 1 .. Len(p) : p[i] = o[i]
<1> DEFINE k == Len(p)
<1>1. k \in Nat /\ Len(o) \in Nat /\ k \in 0 .. k
  BY DEF IsSeq
<1>2. /\ IsSeq(SubSeq(p, 1, k)) /\ Len(SubSeq(p, 1, k)) = k
      /\ \A i \in 1 .. k : SubSeq(p, 1, k)[i] = p[i]
  BY <1>1, FirstNames
<1>3. SubSeq(p, 1, k) = p
  BY <1>2, SameSeq
<1>4. ASSUME IsStrictPrefix(p, o)
      PROVE  k < Len(o) /\ \A i \in 1 .. k : p[i] = o[i]
  <2>1. k <= Len(o) /\ p = SubSeq(o, 1, k) /\ p # o
    BY <1>3, <1>4 DEF IsStrictPrefix, IsPrefix
  <2>2. k \in 0 .. Len(o)
    BY <1>1, <2>1
  <2>3. \A i \in 1 .. k : p[i] = o[i]
    BY <2>1, <2>2, FirstNames
  <2>4. k # Len(o)
    BY <2>1, <2>3, SameSeq
  <2> HIDE DEF k
  <2> QED
    BY <1>1, <2>1, <2>3, <2>4
<1>5. ASSUME k < Len(o), \A i \in 1 .. k : p[i] = o[i]
      PROVE  IsStrictPrefix(p, o)
  <2>1. k \in 0 .. Len(o) /\ k <= Len(o)
    BY <1>1, <1>5
  <2>2. /\ IsSeq(SubSeq(o, 1, k)) /\ Len(SubSeq(o, 1, k)) = k
        /\ \A i \in 1 .. k : SubSeq(o, 1, k)[i] = p[i]
    BY <1>5, <2>1, FirstNames
  <2>3. SubSeq(o, 1, k) = p
    BY <2>2, SameSeq
  <2>4. p # o
    BY <1>1, <1>5
  <2> QED
    BY <1>3, <2>1, <2>3, <2>4 DEF IsStrictPrefix, IsPrefix
<1> QED
  BY <1>4, <1>5

\* What is below a path is in it or below the next of its names.
LEMMA OneNameDown ==
    ASSUME NEW p, NEW o, IsSeq(p), IsSeq(o), IsStrictPrefix(p, o),
           NEW n, n = o[Len(p) + 1]
    PROVE  IF Len(o) = Len(p) + 1 THEN o = p \o <<n>> ELSE IsStrictPrefix(p \o <<n>>, o)
<1> DEFINE q == p \o <<n>>
           k == Len(p)
           m == Len(o)
<1>1. k \in Nat /\ m \in Nat
  BY DEF IsSeq
<1>2. k < m /\ \A i \in 1 .. k : p[i] = o[i]
  BY StrictPrefixIs
<1>3. IsSeq(q) /\ Len(q) = k + 1
  BY OneName, ConcatIsSeq
<1>4. \A i \in 1 .. k + 1 : q[i] = IF i <= k THEN p[i] ELSE <<n>>[i - k]
  BY OneName, ConcatElements
<1>5. n = o[k + 1] /\ <<n>>[1] = n
  BY OneName
<1> HIDE DEF q, k, m
<1>6. \A i \in 1 .. k + 1 : q[i] = o[i]
  BY <1>1, <1>2, <1>4, <1>5
<1>7. m = k + 1 => q = o
  BY <1>3, <1>6, SameSeq DEF m
<1>8. m # k + 1 => IsStrictPrefix(q, o)
  BY <1>1, <1>2, <1>3, <1>6, StrictPrefixIs DEF m
<1> QED
  BY <1>7, <1>8 DEF q, k, m

\* A path within a folder is below the folder's and ends as it does.
LEMMA WithinFolder ==
    ASSUME NEW p, NEW i, IsSeq(p), IsSeq(i), Len(i) >= 1
    PROVE  IsStrictPrefix(p, p \o i) /\ Last(p \o i) = Last(i)
<1> DEFINE q == p \o i
           k == Len(p)
           m == Len(i)
<1>1. k \in Nat /\ m \in Nat /\ m >= 1
  BY DEF IsSeq
<1>2. IsSeq(q) /\ Len(q) = k + m
  BY ConcatIsSeq
<1>3. \A j \in 1 .. k + m : q[j] = IF j <= k THEN p[j] ELSE i[j - k]
  BY ConcatElements
<1> HIDE DEF q, k, m
<1>4. k < k + m /\ \A j \in 1 .. k : p[j] = q[j]
  BY <1>1, <1>3
<1>5. IsStrictPrefix(p, q)
  BY <1>2, <1>4, StrictPrefixIs DEF k
<1>6. q[k + m] = i[m]
  BY <1>1, <1>3
<1> QED
  BY <1>2, <1>5, <1>6 DEF Last, q, k, m

-----------------------------------------------------------------------------
\* Listings

\* The remote paths are paths.
LEMMA RemotePaths ==
    ASSUME FilesInv, NEW o \in DOMAIN remote
    PROVE  IsSeq(o) /\ Len(o) >= 2 /\ o[1] \in Versions
<1>1. o \in Objects
  BY DEF FilesInv, Numbers
<1> QED
  BY <1>1, FilesAssumption, SeqIs

\* What fits in one page is listed as a whole.
LEMMA OnlyPage ==
    ASSUME NEW X, Cardinality(X) <= PageSize
    PROVE  FirstPages(X) = {X}
BY DEF FirstPages

\* Every object below a path is below the name that is listed for it.
LEMMA NameIsListed ==
    ASSUME NEW p, NEW o \in DOMAIN remote, IsStrictPrefix(p, o)
    PROVE  o[Len(p) + 1] \in Names(p, Below(p)) /\ IsDir(p)
BY DEF Names, Below, IsDir

\* S3 lists everything below a path of a version whose objects fit in a page.
LEMMA S3ListsAll ==
    ASSUME FilesInv, backend = "s3", NEW v, OnePage(v), NEW q, IsSeq(q), Len(q) >= 1, q[1] = v
    PROVE  s3_getDirectoryContents(q) = {Names(q, Below(q))}
<1>1. IsFiniteSet(Below(<<v>>))
  <2>1. Below(<<v>>) \subseteq Objects
    BY DEF Below, FilesInv, Numbers
  <2> QED
    BY <2>1, FilesAssumption, FS_Subset
<1>2. Below(q) \subseteq Below(<<v>>)
  <2> SUFFICES ASSUME NEW o \in DOMAIN remote, IsStrictPrefix(q, o)
               PROVE  IsStrictPrefix(<<v>>, o)
    BY DEF Below
  <2>1. IsSeq(o) /\ Len(o) >= 2
    BY RemotePaths
  <2>2. o[1] = v
    <3>1. \A i \in 1 .. Len(q) : q[i] = o[i]
      BY <2>1, StrictPrefixIs
    <3>2. 1 \in 1 .. Len(q)
      BY DEF IsSeq
    <3> QED
      BY <3>1, <3>2
  <2>3. Len(<<v>>) < Len(o) /\ \A i \in 1 .. Len(<<v>>) : <<v>>[i] = o[i]
    <3>1. IsSeq(<<v>>) /\ Len(<<v>>) = 1 /\ <<v>>[1] = v
      BY OneName
    <3>2. \A i \in 1 .. 1 : i = 1
      OBVIOUS
    <3>3. 1 < Len(o)
      BY <2>1 DEF IsSeq
    <3> QED
      BY <2>2, <3>1, <3>2, <3>3
  <2> QED
    BY <2>1, <2>3, OneName, StrictPrefixIs
<1>3. Cardinality(Below(q)) <= Cardinality(Below(<<v>>)) /\ IsFiniteSet(Below(q))
  BY <1>1, <1>2, FS_Subset
<1>4. Cardinality(Below(<<v>>)) <= PageSize
  BY DEF OnePage
<1>5. Cardinality(Below(q)) <= PageSize
  <2>1. Cardinality(Below(q)) \in Nat /\ Cardinality(Below(<<v>>)) \in Nat /\ PageSize \in Nat
    BY <1>1, <1>3, FS_CardinalityType, FilesAssumption
  <2> QED
    BY <1>3, <1>4, <2>1
<1>6. FirstPages(Below(q)) = {Below(q)}
  BY <1>5, OnlyPage
<1> QED
  BY <1>6 DEF s3_getDirectoryContents

\* Azure lists all the names in a folder of a version whose folders fit in a
\* page each.
LEMMA AzureListsAll ==
    ASSUME FilesInv, backend \in {"az", "azfs"}, NEW v, OnePage(v), NEW p, IsSeq(p), Len(p) >= 1, p[1] = v,
           NEW o \in DOMAIN remote, IsStrictPrefix(p, o)
    PROVE  FirstPages(Names(p, Below(p))) = {Names(p, Below(p))}
<1> DEFINE k == Len(p)
<1>1. IsSeq(o) /\ Len(o) >= 2
  BY RemotePaths
<1>2. k < Len(o) /\ \A i \in 1 .. k : p[i] = o[i]
  BY <1>1, StrictPrefixIs
<1>3. k \in Nat /\ Len(o) \in Nat
  BY <1>1 DEF IsSeq
<1>4. k \in 0 .. Len(o) /\ k \in 1 .. Len(o) - 1
  <2> HIDE DEF k
  <2> QED
    BY <1>2, <1>3 DEF k
<1>5. SubSeq(o, 1, k) = p
  <2>1. /\ IsSeq(SubSeq(o, 1, k)) /\ Len(SubSeq(o, 1, k)) = k
        /\ \A i \in 1 .. k : SubSeq(o, 1, k)[i] = o[i]
    BY <1>1, <1>4, FirstNames
  <2> QED
    BY <1>2, <2>1, SameSeq
<1>6. o \in Below(<<v>>)
  <2>1. IsSeq(<<v>>) /\ Len(<<v>>) = 1 /\ <<v>>[1] = v
    BY OneName
  <2>2. 1 < Len(o)
    BY <1>1, <1>3
  <2>3. o[1] = v
    BY <1>2, <1>3, 1 \in 1 .. k
  <2>4. \A i \in 1 .. 1 : <<v>>[i] = o[i]
    BY <2>1, <2>3
  <2> QED
    BY <1>1, <2>1, <2>2, <2>4, StrictPrefixIs DEF Below
<1>7. \A u \in Below(<<v>>) : \A i \in 1 .. Len(u) - 1 :
         Cardinality(Names(SubSeq(u, 1, i), Below(SubSeq(u, 1, i)))) <= PageSize
  BY DEF OnePage
<1>8. Cardinality(Names(p, Below(p))) <= PageSize
  BY <1>4, <1>5, <1>6, <1>7
<1> QED
  BY <1>8, OnlyPage

\* The last directory of a path that a file share finds.
LEMMA WorkingAt ==
    ASSUME NEW q, Len(q) \in Nat, NEW m \in 1 .. Len(q), IsDir(SubSeq(q, 1, m)),
           \A i \in m + 1 .. Len(q) : ~IsDir(SubSeq(q, 1, i))
    PROVE  WorkingSubdirs(q, FALSE) = {SubSeq(q, 1, m)}
<1> DEFINE S == {0} \cup {i \in 1 .. Len(q) : IsDir(SubSeq(q, 1, i))}
<1>1. m \in S /\ \A i \in S : m >= i
  OBVIOUS
<1>2. \A x \in S : (\A y \in S : x >= y) => x = m
  <2>1. S \subseteq Nat
    OBVIOUS
  <2> HIDE DEF S
  <2> QED
    BY <1>1, <2>1
<1> HIDE DEF S
<1>3. Max(S) = m
  BY <1>1, <1>2 DEF Max
<1> QED
  BY <1>3 DEF WorkingSubdirs, S

-----------------------------------------------------------------------------
\* The downloads that succeed: what is still to come

\* An open folder is going to bring an object: S3 when it is below what is still
\* to be listed, or has been listed itself or its folder has.
S3Covers(f, o) ==
    \/ f.phase = "check" /\ IsStrictPrefix(f.path, o)
    \/ f.phase = "list" /\ IsStrictPrefix(f.path \o f.opened, o)
    \/ /\ f.phase \in {"list", "sort"}
       /\ \E i \in f.items : o = f.path \o i \/ (Len(i) = 1 /\ IsStrictPrefix(f.path \o i, o))
    \/ \E i \in f.files : o = f.path \o i

\* The others when it is below the folder, in it, below one of its folders, or
\* one of its files: each as long as that has not been listed or done.
Direct(f, o) == IsStrictPrefix(f.path, o) /\ Len(o) = Len(f.path) + 1
InOneOf(f, ds, o) == \E i \in ds : IsStrictPrefix(f.path \o i, o)
IsOneOf(f, is, o) == \E i \in is : o = f.path \o i
TreeCovers(f, o) ==
    \/ f.phase = "check" /\ IsStrictPrefix(f.path, o)
    \/ f.phase = "list" /\ f.want = "dirs" /\ IsStrictPrefix(f.path, o)
    \/ f.phase = "sort" /\ f.want = "dirs" /\ (Direct(f, o) \/ InOneOf(f, f.items \cup f.dirs, o))
    \/ f.phase = "list" /\ f.want = "files" /\ (Direct(f, o) \/ InOneOf(f, f.dirs, o))
    \/ f.phase = "sort" /\ f.want = "files" /\ (InOneOf(f, f.dirs, o) \/ IsOneOf(f, f.items \cup f.files, o))
    \/ f.phase = "walk" /\ (InOneOf(f, f.dirs, o) \/ IsOneOf(f, f.files, o))

Covers(b, f, o) == IF b = "s3" THEN S3Covers(f, o) ELSE TreeCovers(f, o)

\* How the storages' folders differ: S3 opens no folder within a folder, and
\* Azure has nothing to sort.
Shape(b, f) ==
    /\ f.phase = "check" => f.opened = <<>> /\ f.want = "dirs"
    /\ \A i \in f.files : IsItem(i)
    /\ b = "s3" => Len(f.path) = 1 /\ f.dirs = {}
    /\ b \in {"az", "azfs"} => f.phase # "sort" /\ \A i \in f.files : Len(i) = 1
Shapes == \A i \in 1 .. Len(load.stack) : Shape(backend, load.stack[i])

\* A download belongs to an operation, and one that succeeds leaves no version.
InOperation == op.kind = "idle" => load.phase = "none"
NoneLeft == Finished => load.todo = {}

\* Nothing has happened so far of what a download may pass over.
Clean == calm /\ failed \cap Silent = {} /\ load.result = Ok

\* The versions that have been downloaded are complete; what the version under
\* download lacks, one of the open folders is going to bring.
DoneVersions == op.batch \ (load.todo \cup (IF load.phase = "folder" THEN {load.version} ELSE {}))
ToCome(o) == \E i \in 1 .. Len(load.stack) : Covers(backend, load.stack[i], o)
DoneComplete == Clean /\ load.phase # "none" => \A v \in DoneVersions : OnePage(v) => Complete(v)
LackIsToCome ==
    Clean /\ load.phase = "folder" /\ OnePage(load.version) =>
        \A o \in Wanted(load.version) : HasCopy(o) \/ ToCome(o)

CompleteInv == FilesInv /\ Shapes /\ InOperation /\ NoneLeft /\ DoneComplete /\ LackIsToCome

\* A step of an open folder: what fails is remembered.
FolderStep == load.phase = "folder" /\ Same /\ failed \subseteq failed'

\* No copy is lost.
Kept == \A v \in Versions : \A o \in Wanted(v) : HasCopy(o) => HasCopy(o)'

\* The invariant is kept, but for what is known of the copies.
Advances == Shapes' /\ InOperation' /\ NoneLeft' /\ DoneComplete' /\ LackIsToCome'

-----------------------------------------------------------------------------
\* The downloads that succeed: steps within a folder

\* What is asked for stays the same during a step of a folder.
LEMMA AskedForStays ==
    ASSUME Same
    PROVE  /\ \A v : Wanted(v)' = Wanted(v)
           /\ \A v : OnePage(v)' <=> OnePage(v)
           /\ Silent' = Silent
<1>1. UNCHANGED <<backend, remote>>
  BY DEF Same, files
<1>2. \A v : Wanted(v)' = Wanted(v)
  BY <1>1 DEF Wanted, Below, IsDir
<1>3. \A v : OnePage(v)' <=> OnePage(v)
  BY <1>1 DEF OnePage, Below, Names
<1>4. Silent' = Silent
  BY <1>1 DEF Silent
<1> QED
  BY <1>2, <1>3, <1>4

\* The versions of the operation are done and under download as before.
LEMMA CompleteNext ==
    ASSUME CompleteInv, FolderStep, Clean' => Kept,
           load'.todo = load.todo, load'.version = load.version, load'.result = Ok => load.result = Ok,
           load'.phase # "none",
           Clean /\ Clean' /\ OnePage(load.version) =>
              \A o \in Wanted(load.version) : HasCopy(o)' \/ (load'.phase = "folder" /\ ToCome(o)')
    PROVE  DoneComplete' /\ LackIsToCome'
<1>1. UNCHANGED <<calm, op, backend, remote, temp>> /\ load.phase = "folder" /\ failed \subseteq failed'
  BY DEF FolderStep, Same, files
<1>2. Clean' => Clean
  BY <1>1, AskedForStays DEF Clean, FolderStep
<1>3. LackIsToCome'
  BY <1>2, AskedForStays DEF LackIsToCome, FolderStep
<1>4. DoneComplete'
  <2> SUFFICES ASSUME Clean', NEW v \in DoneVersions', OnePage(v), NEW o \in Wanted(v)
               PROVE  HasCopy(o)'
    BY AskedForStays DEF DoneComplete, Complete, FolderStep
  <2>1. v \in Versions
    BY <1>1 DEF DoneVersions, CompleteInv, FilesInv, Operating
  <2>2. CASE v \in DoneVersions
    <3>1. HasCopy(o)
      BY <1>1, <1>2, <2>2 DEF CompleteInv, DoneComplete, Complete
    <3> QED
      BY <2>1, <3>1 DEF Kept
  <2>3. CASE v \notin DoneVersions
    <3>1. v = load.version /\ load'.phase # "folder"
      BY <1>1, <2>3 DEF DoneVersions
    <3> QED
      BY <1>2, <3>1
  <2> QED
    BY <2>2, <2>3
<1> QED
  BY <1>3, <1>4

\* The open folder after a step that goes on with it.
LEMMA UpdateIs ==
    ASSUME FoldersOf(load), load.phase = "folder", NEW g, Update(g)
    PROVE  /\ load'.phase = "folder" /\ load'.todo = load.todo /\ load'.version = load.version
           /\ load'.result = load.result
           /\ Len(load'.stack) = Len(load.stack) /\ Len(load.stack) \in Nat /\ Len(load.stack) >= 1
           /\ \A i \in 1 .. Len(load.stack) :
                 load'.stack[i] = IF i = Len(load.stack) THEN g ELSE load.stack[i]
<1>1. PICK st : st = load.stack
  OBVIOUS
<1>2. PICK n : n = Len(st)
  OBVIOUS
<1>3. n \in Nat /\ n >= 1 /\ IsSeq(st) /\ n \in 1 .. Len(st)
  BY <1>1, <1>2, TopOf DEF FoldersOf
<1>4. PICK t : t = [st EXCEPT ![n] = g]
  OBVIOUS
<1>5. Len(t) = n /\ \A i \in 1 .. n : t[i] = IF i = n THEN g ELSE st[i]
  BY <1>2, <1>3, <1>4, ExceptIsSeq
<1>6. load' = [load EXCEPT !.stack = t]
  BY <1>1, <1>2, <1>4 DEF Update, FoldersOf
<1>7. load' = [phase |-> load.phase, todo |-> load.todo, version |-> load.version, result |-> load.result, stack |-> t]
  BY <1>6 DEF FoldersOf
<1>8. /\ load'.phase = "folder" /\ load'.todo = load.todo /\ load'.version = load.version
      /\ load'.result = load.result /\ load'.stack = t
  BY <1>7
<1> QED
  BY <1>1, <1>2, <1>3, <1>5, <1>8

\* A step of the open folder: what it was going to bring, it still is, or that
\* has been copied.
LEMMA UpdateCovers ==
    ASSUME CompleteInv, FolderStep, Clean' => Kept, NEW g, Update(g), Shape(backend, g),
           Clean /\ Clean' /\ OnePage(load.version) =>
              \A o \in Wanted(load.version) : Covers(backend, Top, o) => HasCopy(o)' \/ Covers(backend, g, o)
    PROVE  Advances
<1> USE DEF Advances
<1> DEFINE n == Len(load.stack)
<1>1. /\ load'.phase = "folder" /\ load'.todo = load.todo /\ load'.version = load.version
      /\ load'.result = load.result
      /\ Len(load'.stack) = n /\ n \in Nat /\ n >= 1
      /\ \A i \in 1 .. n : load'.stack[i] = IF i = n THEN g ELSE load.stack[i]
  BY UpdateIs DEF CompleteInv, FilesInv, FolderStep
<1>2. UNCHANGED <<backend, op>> /\ load.phase = "folder"
  BY DEF FolderStep, Same
<1>3. Shapes'
  <2>1. \A i \in 1 .. n : Shape(backend, load'.stack[i])
    BY <1>1 DEF CompleteInv, Shapes
  <2> QED
    BY <1>1, <1>2, <2>1 DEF Shapes, Shape
<1>4. InOperation' /\ NoneLeft'
  BY <1>1, <1>2 DEF CompleteInv, InOperation, NoneLeft, Finished
<1>5. ASSUME Clean, Clean', OnePage(load.version), NEW o \in Wanted(load.version)
      PROVE  HasCopy(o)' \/ (load'.phase = "folder" /\ ToCome(o)')
  <2>1. CASE HasCopy(o)
    <3>1. load.version \in Versions
      BY <1>2 DEF CompleteInv, FilesInv, Downloading
    <3> QED
      BY <1>5, <2>1, <3>1 DEF Kept
  <2>2. CASE ToCome(o)
    <3>1. PICK i \in 1 .. n : Covers(backend, load.stack[i], o)
      BY <2>2 DEF ToCome
    <3>2. CASE i = n
      <4>1. HasCopy(o)' \/ Covers(backend, g, o)
        BY <1>5, <3>1, <3>2 DEF Top
      <4>2. Covers(backend, g, o) => ToCome(o)'
        <5>1. g = load'.stack[n] /\ n \in 1 .. Len(load'.stack)
          BY <1>1
        <5> QED
          BY <1>2, <5>1 DEF ToCome, Covers
      <4> QED
        BY <1>1, <4>1, <4>2
    <3>3. CASE i # n
      <4>1. Covers(backend, load'.stack[i], o) /\ i \in 1 .. Len(load'.stack)
        BY <1>1, <3>1, <3>3
      <4> QED
        BY <1>1, <1>2, <4>1 DEF ToCome, Covers
    <3> QED
      BY <3>2, <3>3
  <2> QED
    BY <1>2, <1>5, <2>1, <2>2 DEF CompleteInv, LackIsToCome
<1>6. DoneComplete' /\ LackIsToCome'
  <2> HIDE DEF n
  <2>1. load'.result = Ok => load.result = Ok
    BY <1>1
  <2>2. load'.phase # "none"
    BY <1>1
  <2> QED
    BY <1>1, <1>5, <2>1, <2>2, CompleteNext
<1> QED
  BY <1>3, <1>4, <1>6

\* The end of a version.
LEMMA VersionDoneIs ==
    ASSUME FoldersOf(load), NEW status, NEW ld, ld = VersionDone(status)
    PROVE  /\ ld.todo = load.todo /\ ld.version = load.version /\ ld.stack = <<>>
           /\ ld.phase \in {"versions", "done"} /\ (ld.phase = "done" => ld.result # Ok)
           /\ ld.result = Ok => status = Ok /\ load.result = Ok
<1>1. CASE backend \in {"az", "azfs"} /\ status # Ok
  <2>1. ld = [phase |-> "done", todo |-> load.todo, version |-> load.version, result |-> status, stack |-> <<>>]
    BY <1>1 DEF VersionDone, FoldersOf
  <2> QED
    BY <1>1, <2>1
<1>2. CASE ~(backend \in {"az", "azfs"} /\ status # Ok)
  <2>1. ld = [phase |-> "versions", todo |-> load.todo, version |-> load.version,
              result |-> IF status = Ok THEN load.result ELSE status, stack |-> <<>>]
    BY <1>2 DEF VersionDone, FoldersOf
  <2> QED
    BY <2>1
<1> QED
  BY <1>1, <1>2

\* The folder above goes on.
LEMMA FrontIs ==
    ASSUME FoldersOf(load), load.phase = "folder", Len(load.stack) # 1, NEW ld, ld = [load EXCEPT !.stack = Front(load.stack)]
    PROVE  /\ ld.phase = "folder" /\ ld.todo = load.todo /\ ld.version = load.version /\ ld.result = load.result
           /\ Len(ld.stack) = Len(load.stack) - 1
           /\ \A i \in 1 .. Len(load.stack) - 1 : ld.stack[i] = load.stack[i]
<1>1. PICK st : st = load.stack
  OBVIOUS
<1>2. PICK n : n = Len(st)
  OBVIOUS
<1>3. n \in Nat /\ n >= 1 /\ n # 1 /\ IsSeq(st)
  BY <1>1, <1>2, TopOf DEF FoldersOf
<1>4. n - 1 \in 0 .. Len(st)
  BY <1>2, <1>3
<1>5. PICK t : t = SubSeq(st, 1, n - 1)
  OBVIOUS
<1>6. Len(t) = n - 1 /\ \A i \in 1 .. n - 1 : t[i] = st[i]
  BY <1>3, <1>4, <1>5, FirstNames
<1>7. ld = [phase |-> load.phase, todo |-> load.todo, version |-> load.version, result |-> load.result, stack |-> t]
  BY <1>1, <1>2, <1>5 DEF FoldersOf, Front
<1>8. /\ ld.phase = "folder" /\ ld.todo = load.todo /\ ld.version = load.version
      /\ ld.result = load.result /\ ld.stack = t
  BY <1>7
<1> QED
  BY <1>1, <1>2, <1>6, <1>8

\* A folder returns: with success only when nothing of it is to come.
LEMMA ReturnedCovers ==
    ASSUME CompleteInv, FolderStep, UNCHANGED copies, NEW status, load' = Returned(status),
           status = Ok /\ Clean' => \A o \in Wanted(load.version) : ~Covers(backend, Top, o)
    PROVE  Advances
<1> USE DEF Advances
<1> DEFINE n == Len(load.stack)
<1>1. UNCHANGED <<backend, op, remote, temp>> /\ load.phase = "folder"
  BY DEF FolderStep, Same, files
<1>2. Kept
  BY <1>1 DEF Kept, HasCopy, Local
<1>3. n \in Nat /\ n >= 1 /\ FoldersOf(load)
  BY <1>1, TopOf DEF CompleteInv, FilesInv
<1>4. op.kind # "idle"
  BY <1>1 DEF CompleteInv, InOperation
<1>5. ASSUME Clean, OnePage(load.version), NEW o \in Wanted(load.version)
      PROVE  HasCopy(o)' \/ \E i \in 1 .. n : Covers(backend, load.stack[i], o)
  BY <1>1, <1>2, <1>5 DEF CompleteInv, LackIsToCome, ToCome, HasCopy, Local
<1>6. CASE load' = VersionDone(status) /\ (status = Ok => n = 1)
  <2>1. /\ load'.todo = load.todo /\ load'.version = load.version /\ load'.stack = <<>>
        /\ load'.phase \in {"versions", "done"} /\ (load'.phase = "done" => load'.result # Ok)
        /\ load'.result = Ok => status = Ok /\ load.result = Ok
    BY <1>3, <1>6, VersionDoneIs
  <2>2. Shapes'
    <3>1. Len(load'.stack) = 0
      BY <2>1
    <3> QED
      BY <3>1 DEF Shapes
  <2>3. InOperation' /\ NoneLeft'
    BY <1>1, <1>4, <2>1 DEF InOperation, NoneLeft, Finished
  <2>4. ASSUME Clean, Clean', OnePage(load.version), NEW o \in Wanted(load.version)
        PROVE  HasCopy(o)'
    <3>1. status = Ok /\ n = 1
      BY <1>6, <2>1, <2>4 DEF Clean
    <3>2. ~Covers(backend, load.stack[n], o)
      BY <2>4, <3>1 DEF Top
    <3>3. \A i \in 1 .. n : i = n
      <4> HIDE DEF n
      <4> QED
        BY <3>1
    <3> QED
      BY <1>5, <2>4, <3>2, <3>3
  <2> HIDE DEF n
  <2>5. load'.result = Ok => load.result = Ok
    BY <2>1
  <2>6. load'.phase # "none"
    BY <2>1
  <2>7. DoneComplete' /\ LackIsToCome'
    BY <1>2, <2>1, <2>4, <2>5, <2>6, CompleteNext
  <2> QED
    BY <2>2, <2>3, <2>7
<1>7. CASE load' = [load EXCEPT !.stack = Front(load.stack)] /\ status = Ok /\ n # 1
  <2>1. /\ load'.phase = "folder" /\ load'.todo = load.todo /\ load'.version = load.version
        /\ load'.result = load.result
        /\ Len(load'.stack) = n - 1
        /\ \A i \in 1 .. n - 1 : load'.stack[i] = load.stack[i]
    BY <1>1, <1>3, <1>7, FrontIs
  <2>2. Shapes'
    <3>1. \A i \in 1 .. n - 1 : Shape(backend, load'.stack[i])
      BY <1>3, <2>1 DEF CompleteInv, Shapes
    <3> QED
      BY <1>1, <2>1, <3>1 DEF Shapes, Shape
  <2>3. InOperation' /\ NoneLeft'
    BY <1>1, <1>4, <2>1 DEF InOperation, NoneLeft, Finished
  <2>4. ASSUME Clean, Clean', OnePage(load.version), NEW o \in Wanted(load.version)
        PROVE  HasCopy(o)' \/ (load'.phase = "folder" /\ ToCome(o)')
    <3>1. ~Covers(backend, load.stack[n], o)
      BY <1>7, <2>4 DEF Top
    <3>2. CASE HasCopy(o)'
      BY <3>2
    <3>3. CASE ~HasCopy(o)'
      <4>1. PICK i \in 1 .. n : Covers(backend, load.stack[i], o)
        BY <1>5, <2>4, <3>3
      <4>2. i \in 1 .. n - 1
        BY <1>3, <3>1, <4>1
      <4>3. Covers(backend, load'.stack[i], o) /\ i \in 1 .. Len(load'.stack)
        BY <2>1, <4>1, <4>2
      <4> QED
        BY <1>1, <2>1, <4>3 DEF ToCome, Covers
    <3> QED
      BY <3>2, <3>3
  <2> HIDE DEF n
  <2>5. load'.result = Ok => load.result = Ok
    BY <2>1
  <2>6. load'.phase # "none"
    BY <2>1
  <2>7. DoneComplete' /\ LackIsToCome'
    BY <1>2, <2>1, <2>4, <2>5, <2>6, CompleteNext
  <2> QED
    BY <2>2, <2>3, <2>7
<1> QED
  BY <1>6, <1>7 DEF Returned

\* A folder in the open folder is opened.
LEMMA DescendIs ==
    ASSUME FoldersOf(load), load.phase = "folder", NEW f, NEW g,
           load' = [load EXCEPT !.stack = Append([load.stack EXCEPT ![Len(load.stack)] = f], g)]
    PROVE  /\ load'.phase = "folder" /\ load'.todo = load.todo /\ load'.version = load.version
           /\ load'.result = load.result
           /\ Len(load'.stack) = Len(load.stack) + 1
           /\ \A i \in 1 .. Len(load.stack) + 1 :
                 load'.stack[i] = IF i = Len(load.stack) + 1 THEN g
                                  ELSE IF i = Len(load.stack) THEN f ELSE load.stack[i]
<1>1. PICK st : st = load.stack
  OBVIOUS
<1>2. PICK n : n = Len(st)
  OBVIOUS
<1>3. n \in Nat /\ n >= 1 /\ IsSeq(st) /\ n \in 1 .. Len(st)
  BY <1>1, <1>2, TopOf DEF FoldersOf
<1>4. PICK s : s = [st EXCEPT ![n] = f]
  OBVIOUS
<1>5. IsSeq(s) /\ Len(s) = n /\ \A i \in 1 .. n : s[i] = IF i = n THEN f ELSE st[i]
  <2>1. IsSeq(s)
    BY <1>3, <1>4, ExceptIsSeq
  <2>2. Len(s) = n /\ \A i \in 1 .. n : s[i] = IF i = n THEN f ELSE st[i]
    BY <1>2, <1>3, <1>4, ExceptIsSeq
  <2> QED
    BY <2>1, <2>2
<1>6. PICK t : t = Append(s, g)
  OBVIOUS
<1>7. Len(t) = n + 1 /\ \A i \in 1 .. n + 1 : t[i] = IF i = n + 1 THEN g ELSE s[i]
  <2> DEFINE S == {s[i] : i \in 1 .. n} \cup {g}
  <2>1. s \in Seq(S) /\ g \in S
    BY <1>5, IsSeqOf
  <2> HIDE DEF S
  <2> QED
    BY <1>3, <1>5, <1>6, <2>1, AppendProperties
<1>8. load' = [load EXCEPT !.stack = t]
  BY <1>1, <1>2, <1>4, <1>6
<1>9. load' = [phase |-> load.phase, todo |-> load.todo, version |-> load.version, result |-> load.result, stack |-> t]
  BY <1>8 DEF FoldersOf
<1>10. /\ load'.phase = "folder" /\ load'.todo = load.todo /\ load'.version = load.version
       /\ load'.result = load.result /\ load'.stack = t
  BY <1>9
<1>11. \A i \in 1 .. n + 1 : t[i] = IF i = n + 1 THEN g ELSE IF i = n THEN f ELSE st[i]
  BY <1>3, <1>5, <1>7
<1> QED
  BY <1>1, <1>2, <1>7, <1>10, <1>11

\* The folder in the folder brings what the folder was going to bring from it.
LEMMA DescendCovers ==
    ASSUME CompleteInv, FolderStep, UNCHANGED copies, backend # "s3", Top.phase = "walk",
           NEW d \in Top.dirs, load' = Descend(d, FALSE)
    PROVE  Advances
<1> USE DEF Advances
<1> DEFINE n == Len(load.stack)
<1>1. UNCHANGED <<backend, op, remote, temp>> /\ load.phase = "folder"
  BY DEF FolderStep, Same, files
<1>2. Kept
  BY <1>1 DEF Kept, HasCopy, Local
<1>3. n \in Nat /\ n >= 1 /\ FoldersOf(load) /\ FolderOf(Top, load.version) /\ Shape(backend, Top)
  BY <1>1, TopOf DEF CompleteInv, FilesInv, Shapes, Top
<1>4. PICK T : T = Top
  OBVIOUS
<1>5. PICK f : f = [T EXCEPT !.dirs = @ \ {d}]
  OBVIOUS
<1>6. PICK g : g = Folder(T.path \o d)
  OBVIOUS
<1>7. /\ load'.phase = "folder" /\ load'.todo = load.todo /\ load'.version = load.version
      /\ load'.result = load.result
      /\ Len(load'.stack) = n + 1
      /\ \A i \in 1 .. n + 1 : load'.stack[i] = IF i = n + 1 THEN g ELSE IF i = n THEN f ELSE load.stack[i]
  <2>1. load' = [load EXCEPT !.stack = Append([load.stack EXCEPT ![Len(load.stack)] = f], g)]
    BY <1>4, <1>5, <1>6 DEF Descend
  <2> QED
    BY <1>1, <1>3, <2>1, DescendIs
<1>8. T = [path |-> T.path, phase |-> T.phase, want |-> T.want, opened |-> T.opened,
           items |-> T.items, dirs |-> T.dirs, files |-> T.files]
  BY <1>3, <1>4 DEF FolderOf
<1>9. /\ f.path = T.path /\ f.phase = "walk" /\ f.files = T.files /\ f.dirs = T.dirs \ {d}
      /\ T.phase = "walk"
  BY <1>4, <1>5, <1>8
<1>10. g.path = T.path \o d /\ g.phase = "check" /\ g.opened = <<>> /\ g.want = "dirs" /\ g.files = {}
  BY <1>6 DEF Folder
<1>11. Shape(backend, f) /\ Shape(backend, g)
  BY <1>3, <1>4, <1>9, <1>10 DEF Shape
<1> HIDE DEF n
<1>12. Shapes'
  <2>1. \A i \in 1 .. n : Shape(backend, load.stack[i])
    BY DEF CompleteInv, Shapes, n
  <2>2. ASSUME NEW i \in 1 .. n + 1 PROVE Shape(backend, load'.stack[i])
    <3>1. CASE i = n + 1
      BY <1>7, <1>11, <3>1
    <3>2. CASE i = n
      BY <1>3, <1>7, <1>11, <3>2
    <3>3. CASE i # n + 1 /\ i # n
      <4>1. i \in 1 .. n
        BY <1>3, <3>3
      <4>2. load'.stack[i] = load.stack[i]
        BY <1>7, <3>3
      <4> QED
        BY <2>1, <4>1, <4>2
    <3> QED
      BY <3>1, <3>2, <3>3
  <2> QED
    BY <1>1, <1>7, <2>2 DEF Shapes, Shape
<1>13. InOperation' /\ NoneLeft'
  BY <1>1, <1>7 DEF CompleteInv, InOperation, NoneLeft, Finished
<1>14. ASSUME NEW o, Covers(backend, T, o)
       PROVE  Covers(backend, f, o) \/ Covers(backend, g, o)
  <2>1. InOneOf(T, T.dirs, o) \/ IsOneOf(T, T.files, o)
    BY <1>9, <1>14 DEF Covers, TreeCovers
  <2>2. CASE IsOneOf(T, T.files, o)
    BY <1>9, <2>2 DEF IsOneOf, Covers, TreeCovers
  <2>3. CASE InOneOf(T, T.dirs, o)
    BY <1>9, <1>10, <2>3 DEF InOneOf, Covers, TreeCovers
  <2> QED
    BY <2>1, <2>2, <2>3
<1>15. ASSUME Clean, OnePage(load.version), NEW o \in Wanted(load.version)
       PROVE  HasCopy(o)' \/ (load'.phase = "folder" /\ ToCome(o)')
  <2>1. CASE HasCopy(o)
    BY <1>1, <2>1 DEF HasCopy, Local
  <2>2. CASE ToCome(o)
    <3>1. PICK i \in 1 .. n : Covers(backend, load.stack[i], o)
      BY <2>2 DEF ToCome, n
    <3>2. \E j \in 1 .. n + 1 : Covers(backend, load'.stack[j], o)
      <4>1. CASE i # n
        <5>1. i \in 1 .. n + 1 /\ i # n + 1
          BY <1>3
        <5>2. load'.stack[i] = load.stack[i]
          BY <1>7, <4>1, <5>1
        <5> QED
          BY <3>1, <5>1, <5>2
      <4>2. CASE i = n
        <5>1. Covers(backend, f, o) \/ Covers(backend, g, o)
          BY <1>4, <1>14, <3>1, <4>2 DEF Top, n
        <5>2. n \in 1 .. n + 1 /\ n + 1 \in 1 .. n + 1 /\ n # n + 1
          BY <1>3
        <5> QED
          BY <1>7, <5>1, <5>2
      <4> QED
        BY <4>1, <4>2
    <3> QED
      BY <1>1, <1>7, <3>2 DEF ToCome, Covers
  <2> QED
    BY <1>1, <1>15, <2>1, <2>2 DEF CompleteInv, LackIsToCome
<1>16. DoneComplete' /\ LackIsToCome'
  <2>1. load'.result = Ok => load.result = Ok
    BY <1>7
  <2>2. load'.phase # "none"
    BY <1>7
  <2> QED
    BY <1>2, <1>7, <1>15, <2>1, <2>2, CompleteNext
<1> QED
  BY <1>12, <1>13, <1>16

\* An error ends the download of the version.
LEMMA FailedCovers ==
    ASSUME CompleteInv, FolderStep, UNCHANGED copies, load' = Returned(Failed)
    PROVE  Advances
<1>1. Failed # Ok
  BY DEF Failed, Ok
<1> QED
  BY <1>1, ReturnedCovers

\* Without a copy none is lost.
LEMMA QuietKeeps ==
    ASSUME Same, UNCHANGED copies
    PROVE  Kept
BY DEF Same, files, Kept, HasCopy, Local

\* What fails is remembered.
LEMMA FaultIs ==
    ASSUME NEW f, NEW kind, Fault(f, kind)
    PROVE  failed \subseteq failed' /\ (f => kind \in failed')
BY DEF Fault

\* The open folder, by its fields.
LEMMA OpenFolder ==
    ASSUME CompleteInv, load.phase = "folder", NEW T, T = Top
    PROVE  /\ T = [path |-> T.path, phase |-> T.phase, want |-> T.want, opened |-> T.opened,
                   items |-> T.items, dirs |-> T.dirs, files |-> T.files]
           /\ IsSeq(T.path) /\ Len(T.path) >= 1 /\ T.path[1] = load.version
           /\ IsOpened(T.opened) /\ IsSeq(T.opened)
           /\ \A i \in T.items : IsItem(i) /\ IsSeq(i) /\ Len(i) >= 1
           /\ \A i \in T.dirs : IsSeq(i)
           /\ \A i \in T.files : IsItem(i) /\ IsSeq(i) /\ Len(i) >= 1
           /\ Shape(backend, T)
           /\ load.version \in Versions
<1>1. FolderOf(T, load.version) /\ Len(load.stack) \in 1 .. Len(load.stack)
  BY TopOf DEF CompleteInv, FilesInv
<1>2. Shape(backend, T)
  BY <1>1 DEF CompleteInv, Shapes, Top
<1>3. load.version \in Versions
  BY DEF CompleteInv, FilesInv, Downloading
<1>4. \A i : IsItem(i) => IsSeq(i) /\ Len(i) >= 1
  BY DEF IsItem
<1> QED
  BY <1>1, <1>2, <1>3, <1>4 DEF FolderOf, IsOpened, Shape

\* What is wanted of a version is below its path, and there.
LEMMA WantedIs ==
    ASSUME FilesInv, NEW v, NEW o \in Wanted(v)
    PROVE  /\ o \in DOMAIN remote /\ IsSeq(o) /\ Len(o) >= 2 /\ Last(o) \in Accepted
           /\ ~IsDir(o) /\ (backend = "s3" => Len(o) <= 3)
BY RemotePaths DEF Wanted, Below

\* isDirectory has been asked of the folder.
LEMMA CheckedCovers ==
    ASSUME CompleteInv, FolderStep, UNCHANGED copies, Top.phase = "check", NEW is, Checked(is)
    PROVE  Advances
<1>1. CASE load' = Returned(Failed)
  BY <1>1, FailedCovers
<1>2. CASE Update([Top EXCEPT !.phase = "list"])
  <2>1. PICK T : T = Top
    OBVIOUS
  <2>2. /\ T = [path |-> T.path, phase |-> T.phase, want |-> T.want, opened |-> T.opened,
                items |-> T.items, dirs |-> T.dirs, files |-> T.files]
        /\ IsSeq(T.path) /\ Shape(backend, T) /\ T.phase = "check"
    BY <2>1, OpenFolder DEF FolderStep
  <2>3. PICK g : g = [T EXCEPT !.phase = "list"]
    OBVIOUS
  <2>4. /\ g.phase = "list" /\ g.path = T.path /\ g.want = T.want /\ g.opened = T.opened
        /\ g.items = T.items /\ g.dirs = T.dirs /\ g.files = T.files
    BY <2>2, <2>3
  <2>5. T.opened = <<>> /\ T.want = "dirs"
    BY <2>2 DEF Shape
  <2>6. Shape(backend, g)
    BY <2>2, <2>4 DEF Shape
  <2>7. g.path \o g.opened = T.path
    BY <2>2, <2>4, <2>5, ConcatNothing
  <2>8. \A o : S3Covers(T, o) => S3Covers(g, o)
    BY <2>2, <2>4, <2>7 DEF S3Covers
  <2>9. \A o : TreeCovers(T, o) => TreeCovers(g, o)
    BY <2>2, <2>4, <2>5 DEF TreeCovers
  <2>10. \A o : Covers(backend, Top, o) => Covers(backend, g, o)
    BY <2>1, <2>8, <2>9 DEF Covers
  <2>11. Kept
    BY QuietKeeps DEF FolderStep
  <2>12. Update(g)
    BY <1>2, <2>1, <2>3
  <2> QED
    BY <2>6, <2>10, <2>11, <2>12, UpdateCovers
<1> QED
  BY <1>1, <1>2 DEF Checked

\* S3: what was below the listed folder is below a name that was listed, or has it.
LEMMA S3ListCovers ==
    ASSUME CompleteInv, S3_List
    PROVE  Advances
<1>1. /\ load.phase = "folder" /\ Same /\ UNCHANGED copies /\ Top.phase = "list" /\ backend = "s3"
      /\ FilesInv
  BY DEF S3_List, InFolder, CompleteInv
<1>2. PICK T : T = Top
  OBVIOUS
<1>3. PICK q : q = T.path \o T.opened
  OBVIOUS
<1>4. PICK f, names :
        /\ names \in s3_getDirectoryContents(Top.path \o Top.opened) /\ Fault(f, "list")
        /\ IF f THEN load' = Returned(Failed)
           ELSE Update([Top EXCEPT !.phase = "sort", !.items = Top.items \cup {Append(Top.opened, n) : n \in names}])
  BY DEF S3_List
<1>5. FolderStep
  BY <1>1, <1>4, FaultIs DEF FolderStep
<1>6. CASE f
  BY <1>1, <1>4, <1>5, <1>6, FailedCovers
<1>7. CASE ~f
  <2>1. PICK I : I = T.items \cup {Append(T.opened, n) : n \in names}
    OBVIOUS
  <2>2. PICK g : g = [T EXCEPT !.phase = "sort", !.items = I]
    OBVIOUS
  <2>3. Update(g)
    BY <1>2, <1>4, <1>7, <2>1, <2>2
  <2>4. /\ T = [path |-> T.path, phase |-> T.phase, want |-> T.want, opened |-> T.opened,
                items |-> T.items, dirs |-> T.dirs, files |-> T.files]
        /\ IsSeq(T.path) /\ Len(T.path) >= 1 /\ T.path[1] = load.version
        /\ IsOpened(T.opened) /\ IsSeq(T.opened) /\ Shape(backend, T)
    BY <1>1, <1>2, OpenFolder
  <2>5. /\ g.phase = "sort" /\ g.path = T.path /\ g.want = T.want /\ g.opened = T.opened
        /\ g.items = I /\ g.dirs = T.dirs /\ g.files = T.files /\ T.phase = "list"
    BY <1>1, <1>2, <2>2, <2>4
  <2>6. Shape(backend, g)
    BY <1>1, <2>4, <2>5 DEF Shape
  <2>7. IsSeq(q) /\ Len(q) = Len(T.path) + Len(T.opened) /\ q[1] = load.version /\ Len(q) >= 1 /\ Len(T.path) = 1
    <3>1. IsSeq(q) /\ Len(q) = Len(T.path) + Len(T.opened) /\ q[1] = load.version
      BY <1>3, <2>4, ConcatIsSeq
    <3>2. Len(T.path) = 1 /\ Len(T.opened) \in {0, 1}
      BY <1>1, <2>4 DEF Shape, IsOpened
    <3> QED
      BY <3>1, <3>2
  <2>8. ASSUME OnePage(load.version), NEW o \in Wanted(load.version), S3Covers(T, o)
        PROVE  S3Covers(g, o)
    <3>1. CASE \E i \in T.items : o = T.path \o i \/ (Len(i) = 1 /\ IsStrictPrefix(T.path \o i, o))
      BY <2>1, <2>5, <3>1 DEF S3Covers
    <3>2. CASE \E i \in T.files : o = T.path \o i
      BY <2>5, <3>2 DEF S3Covers
    <3>3. CASE IsStrictPrefix(q, o)
      <4>1. /\ o \in DOMAIN remote /\ IsSeq(o) /\ Len(o) <= 3
        BY <1>1, WantedIs
      <4>2. names = Names(q, Below(q))
        BY <1>1, <1>2, <1>3, <1>4, <2>7, <2>8, S3ListsAll
      <4>3. PICK n : n = o[Len(q) + 1]
        OBVIOUS
      <4>4. n \in names
        BY <3>3, <4>1, <4>2, <4>3, NameIsListed
      <4>5. PICK i : i = Append(T.opened, n)
        OBVIOUS
      <4>6. i \in I /\ T.path \o i = q \o <<n>> /\ Len(i) = Len(T.opened) + 1
        BY <1>3, <2>1, <2>4, <4>4, <4>5, ConcatAppend, AppendIsSeq
      <4>7. CASE o = q \o <<n>>
        BY <2>5, <4>6, <4>7 DEF S3Covers
      <4>8. CASE IsStrictPrefix(q \o <<n>>, o)
        <5>1. IsSeq(q \o <<n>>) /\ Len(q \o <<n>>) = Len(q) + 1
          BY <2>7, OneName, ConcatIsSeq
        <5>2. Len(q) + 1 < Len(o)
          BY <4>1, <4>8, <5>1, StrictPrefixIs
        <5>3. Len(T.opened) = 0
          <6>1. Len(T.opened) \in {0, 1}
            BY <2>4 DEF IsOpened
          <6>2. Len(o) \in Nat
            BY <4>1 DEF IsSeq
          <6> QED
            BY <2>7, <4>1, <5>2, <6>1, <6>2
        <5>4. Len(i) = 1
          BY <4>6, <5>3
        <5> QED
          BY <2>5, <4>6, <4>8, <5>4 DEF S3Covers
      <4> QED
        BY <2>7, <3>3, <4>1, <4>3, <4>7, <4>8, OneNameDown
    <3> QED
      BY <1>3, <2>5, <2>8, <3>1, <3>2, <3>3 DEF S3Covers
  <2>9. Kept
    BY <1>1, QuietKeeps
  <2>10. OnePage(load.version) =>
           \A o \in Wanted(load.version) : Covers(backend, Top, o) => Covers(backend, g, o)
    BY <1>1, <1>2, <2>8 DEF Covers
  <2> QED
    BY <1>5, <2>3, <2>6, <2>9, <2>10, UpdateCovers
<1> QED
  BY <1>6, <1>7

\* S3: what was listed stays as a file, or its folder is opened.
LEMMA S3SortCovers ==
    ASSUME CompleteInv, S3_Sort
    PROVE  Advances
<1>1. /\ load.phase = "folder" /\ Same /\ UNCHANGED copies /\ Top.phase = "sort" /\ backend = "s3"
      /\ FilesInv /\ Top.items # {}
  BY DEF S3_Sort, InFolder, CompleteInv
<1>2. PICK T : T = Top
  OBVIOUS
<1>3. PICK item : item = CHOOSE i \in T.items : Len(i) = Max({Len(j) : j \in T.items})
  OBVIOUS
<1>4. PICK rest : rest = [T EXCEPT !.items = @ \ {item}]
  OBVIOUS
<1>5. /\ T = [path |-> T.path, phase |-> T.phase, want |-> T.want, opened |-> T.opened,
              items |-> T.items, dirs |-> T.dirs, files |-> T.files]
      /\ Shape(backend, T) /\ \A i \in T.items : IsItem(i)
  BY <1>1, <1>2, OpenFolder
<1>6. item \in T.items /\ IsItem(item)
  BY <1>1, <1>2, <1>3, <1>5, LongestIs
<1>7. PICK path : path = T.path \o item
  OBVIOUS
<1>8. /\ failed \subseteq failed'
      /\ \/ load' = Returned(Failed)
         \/ ~IsDir(path) /\ Update([rest EXCEPT !.files = @ \cup {item}])
         \/ IsDir(path) /\ Len(item) = 1 /\ Update([rest EXCEPT !.phase = "list", !.opened = item])
         \/ IsDir(path) /\ Len(item) # 1 /\ Update(rest)
  <2>1. PICK f \in BOOLEAN, unmade \in BOOLEAN :
          LET is == s3_isDirectory(path, f)
          IN  /\ Fault(f \/ unmade, IF f THEN "isDirectory" ELSE "mkdir")
              /\ IF is.status # Ok \/ unmade THEN load' = Returned(Failed)
                 ELSE IF ~is.value THEN Update([rest EXCEPT !.files = @ \cup {item}])
                 ELSE IF Len(item) = 1 THEN Update([rest EXCEPT !.phase = "list", !.opened = item])
                 ELSE Update(rest)
    BY <1>2, <1>3, <1>4, <1>7 DEF S3_Sort, MayFail
  <2>2. failed \subseteq failed'
    BY <2>1, FaultIs
  <2>3. CASE f \/ unmade
    BY <2>1, <2>2, <2>3 DEF s3_isDirectory, Answer, Ok, Failed
  <2>4. CASE ~f /\ ~unmade
    <3>1. s3_isDirectory(path, f).status = Ok /\ (s3_isDirectory(path, f).value <=> IsDir(path))
      BY <2>4 DEF s3_isDirectory, Answer
    <3> QED
      BY <2>1, <2>2, <2>4, <3>1
  <2> QED
    BY <2>3, <2>4
<1>9. FolderStep /\ Kept
  BY <1>1, <1>8, QuietKeeps DEF FolderStep
<1>10. /\ rest.path = T.path /\ rest.phase = "sort" /\ rest.opened = T.opened /\ rest.want = T.want
       /\ rest.items = T.items \ {item} /\ rest.dirs = T.dirs /\ rest.files = T.files
       /\ rest = [path |-> T.path, phase |-> T.phase, want |-> T.want, opened |-> T.opened,
                  items |-> T.items \ {item}, dirs |-> T.dirs, files |-> T.files]
       /\ T.phase = "sort"
  BY <1>1, <1>2, <1>4, <1>5
<1>11. ASSUME NEW o \in Wanted(load.version), S3Covers(T, o)
       PROVE  \/ \E i \in rest.items : o = T.path \o i \/ (Len(i) = 1 /\ IsStrictPrefix(T.path \o i, o))
              \/ o = path /\ ~IsDir(path)
              \/ Len(item) = 1 /\ IsStrictPrefix(path, o) /\ IsDir(path)
              \/ \E i \in T.files : o = T.path \o i
  <2>1. \/ \E i \in T.items : o = T.path \o i \/ (Len(i) = 1 /\ IsStrictPrefix(T.path \o i, o))
        \/ \E i \in T.files : o = T.path \o i
    BY <1>10, <1>11 DEF S3Covers
  <2>2. o \in DOMAIN remote /\ ~IsDir(o)
    BY <1>1, WantedIs
  <2>3. IsStrictPrefix(path, o) => IsDir(path)
    BY <2>2, NameIsListed
  <2> QED
    BY <1>7, <1>10, <2>1, <2>2, <2>3
<1>12. ASSUME NEW g, Update(g), Shape(backend, g), \A o \in Wanted(load.version) : S3Covers(T, o) => S3Covers(g, o)
       PROVE  Advances
  <2>1. \A o \in Wanted(load.version) : Covers(backend, Top, o) => Covers(backend, g, o)
    BY <1>1, <1>2, <1>12 DEF Covers
  <2> QED
    BY <1>9, <1>12, <2>1, UpdateCovers
<1>13. CASE load' = Returned(Failed)
  BY <1>1, <1>9, <1>13, FailedCovers
<1>14. CASE ~IsDir(path) /\ Update([rest EXCEPT !.files = @ \cup {item}])
  <2>1. PICK g : g = [rest EXCEPT !.files = @ \cup {item}]
    OBVIOUS
  <2>2. /\ g.path = T.path /\ g.phase = "sort" /\ g.opened = T.opened /\ g.want = T.want
        /\ g.items = rest.items /\ g.dirs = T.dirs /\ g.files = T.files \cup {item}
    BY <1>10, <2>1
  <2>3. Shape(backend, g)
    BY <1>1, <1>5, <1>6, <2>2 DEF Shape
  <2>4. \A o \in Wanted(load.version) : S3Covers(T, o) => S3Covers(g, o)
    BY <1>7, <1>11, <1>14, <2>2 DEF S3Covers
  <2> QED
    BY <1>12, <1>14, <2>1, <2>3, <2>4
<1>15. CASE IsDir(path) /\ Len(item) = 1 /\ Update([rest EXCEPT !.phase = "list", !.opened = item])
  <2>1. PICK g : g = [rest EXCEPT !.phase = "list", !.opened = item]
    OBVIOUS
  <2>2. /\ g.path = T.path /\ g.phase = "list" /\ g.opened = item /\ g.want = T.want
        /\ g.items = rest.items /\ g.dirs = T.dirs /\ g.files = T.files
    BY <1>10, <2>1
  <2>3. Shape(backend, g)
    BY <1>1, <1>5, <2>2 DEF Shape
  <2>4. \A o \in Wanted(load.version) : S3Covers(T, o) => S3Covers(g, o)
    BY <1>7, <1>11, <1>15, <2>2 DEF S3Covers
  <2> QED
    BY <1>12, <1>15, <2>1, <2>3, <2>4
<1>16. CASE IsDir(path) /\ Len(item) # 1 /\ Update(rest)
  <2>1. Shape(backend, rest)
    BY <1>5, <1>10 DEF Shape
  <2>2. \A o \in Wanted(load.version) : S3Covers(T, o) => S3Covers(rest, o)
    BY <1>10, <1>11, <1>16 DEF S3Covers
  <2> QED
    BY <1>12, <1>16, <2>1, <2>2
<1> QED
  BY <1>8, <1>13, <1>14, <1>15, <1>16

\* What is below a folder is in it, with the name that is listed for it, or
\* below the folder of this name.
LEMMA DownOrHere ==
    ASSUME NEW p, IsSeq(p), NEW o \in DOMAIN remote, IsSeq(o), IsStrictPrefix(p, o)
    PROVE  \E n \in Names(p, Below(p)) :
              \/ o = p \o <<n>> /\ Len(o) = Len(p) + 1
              \/ IsStrictPrefix(p \o <<n>>, o) /\ IsDir(p \o <<n>>) /\ Len(o) # Len(p) + 1
<1>1. PICK n : n = o[Len(p) + 1]
  OBVIOUS
<1>2. n \in Names(p, Below(p))
  BY <1>1, NameIsListed
<1>3. IF Len(o) = Len(p) + 1 THEN o = p \o <<n>> ELSE IsStrictPrefix(p \o <<n>>, o)
  BY <1>1, OneNameDown
<1>4. IsStrictPrefix(p \o <<n>>, o) => IsDir(p \o <<n>>)
  BY NameIsListed
<1> QED
  BY <1>2, <1>3, <1>4

\* GS: what was below the listed folder is below a name that was listed, or has it.
LEMMA GSListCovers ==
    ASSUME CompleteInv, GS_List
    PROVE  Advances
<1>1. /\ load.phase = "folder" /\ Same /\ UNCHANGED copies /\ Top.phase = "list" /\ backend = "gs"
      /\ FilesInv
  BY DEF GS_List, InFolder, CompleteInv
<1>2. PICK T : T = Top
  OBVIOUS
<1>3. PICK f, N :
        /\ N \in gs_getDirectoryContents(Top.path) /\ Fault(f, "list")
        /\ IF f THEN load' = Returned(Failed)
           ELSE Update([Top EXCEPT !.phase = "sort", !.items = {<<n>> : n \in N}])
  BY DEF GS_List
<1>4. N = Names(T.path, Below(T.path))
  BY <1>2, <1>3 DEF gs_getDirectoryContents
<1>5. FolderStep
  BY <1>1, <1>3, FaultIs DEF FolderStep
<1>6. CASE f
  BY <1>1, <1>3, <1>5, <1>6, FailedCovers
<1>7. CASE ~f
  <2>1. PICK I : I = {<<n>> : n \in N}
    OBVIOUS
  <2>2. PICK g : g = [T EXCEPT !.phase = "sort", !.items = I]
    OBVIOUS
  <2>3. Update(g)
    BY <1>2, <1>3, <1>7, <2>1, <2>2
  <2>4. /\ T = [path |-> T.path, phase |-> T.phase, want |-> T.want, opened |-> T.opened,
                items |-> T.items, dirs |-> T.dirs, files |-> T.files]
        /\ IsSeq(T.path) /\ Shape(backend, T)
    BY <1>1, <1>2, OpenFolder
  <2>5. /\ g.phase = "sort" /\ g.path = T.path /\ g.want = T.want /\ g.opened = T.opened
        /\ g.items = I /\ g.dirs = T.dirs /\ g.files = T.files /\ T.phase = "list"
    BY <1>1, <1>2, <2>2, <2>4
  <2>6. Shape(backend, g)
    BY <1>1, <2>4, <2>5 DEF Shape
  <2>7. ASSUME NEW o \in Wanted(load.version), TreeCovers(T, o)
        PROVE  TreeCovers(g, o)
    <3>1. o \in DOMAIN remote /\ IsSeq(o)
      BY <1>1, WantedIs
    <3>2. IsStrictPrefix(T.path, o) =>
             \E i \in I : \/ o = T.path \o i /\ Len(o) = Len(T.path) + 1
                          \/ IsStrictPrefix(T.path \o i, o) /\ Len(o) # Len(T.path) + 1
      BY <1>4, <2>1, <2>4, <3>1, DownOrHere
    <3>3. CASE T.want = "dirs" /\ IsStrictPrefix(T.path, o)
      BY <2>5, <3>2, <3>3 DEF TreeCovers, Direct, InOneOf
    <3>4. CASE T.want = "files" /\ Direct(T, o)
      BY <2>5, <3>2, <3>4 DEF TreeCovers, Direct, IsOneOf
    <3>5. CASE T.want = "files" /\ InOneOf(T, T.dirs, o)
      BY <2>5, <3>5 DEF TreeCovers, InOneOf
    <3> QED
      BY <2>5, <2>7, <3>3, <3>4, <3>5 DEF TreeCovers
  <2>8. Kept
    BY <1>1, QuietKeeps
  <2>9. \A o \in Wanted(load.version) : Covers(backend, Top, o) => Covers(backend, g, o)
    BY <1>1, <1>2, <2>7 DEF Covers
  <2> QED
    BY <1>5, <2>3, <2>6, <2>8, <2>9, UpdateCovers
<1> QED
  BY <1>6, <1>7

\* GS: what was listed is a folder or a file, as long as isDirectory does not
\* take a failed request for the answer.
LEMMA GSSortCovers ==
    ASSUME CompleteInv, GS_Sort
    PROVE  Advances
<1>1. /\ load.phase = "folder" /\ Same /\ UNCHANGED copies /\ Top.phase = "sort" /\ backend = "gs"
      /\ FilesInv /\ Top.items # {}
  BY DEF GS_Sort, InFolder, CompleteInv
<1>2. PICK T : T = Top
  OBVIOUS
<1>3. PICK item : item = CHOOSE i \in T.items : TRUE
  OBVIOUS
<1>4. PICK rest : rest = [T EXCEPT !.items = @ \ {item}]
  OBVIOUS
<1>5. /\ T = [path |-> T.path, phase |-> T.phase, want |-> T.want, opened |-> T.opened,
              items |-> T.items, dirs |-> T.dirs, files |-> T.files]
      /\ Shape(backend, T) /\ \A i \in T.items : IsItem(i)
  BY <1>1, <1>2, OpenFolder
<1>6. item \in T.items /\ IsItem(item)
  BY <1>1, <1>2, <1>3, <1>5
<1>7. PICK path : path = T.path \o item
  OBVIOUS
<1>8. PICK f \in BOOLEAN :
         /\ Fault(f, "isDirectory")
         /\ IF T.want = "dirs" /\ gs_isDirectory(path, f).value THEN Update([rest EXCEPT !.dirs = @ \cup {item}])
            ELSE IF T.want = "files" /\ ~gs_isDirectory(path, f).value THEN Update([rest EXCEPT !.files = @ \cup {item}])
            ELSE Update(rest)
  BY <1>2, <1>3, <1>4, <1>7 DEF GS_Sort, MayFail
<1>9. gs_isDirectory(path, f).value <=> ~f /\ IsDir(path)
  BY DEF gs_isDirectory, Answer
<1>10. FolderStep /\ Kept
  BY <1>1, <1>8, FaultIs, QuietKeeps DEF FolderStep
<1>11. Clean' => ~f
  <2>1. "isDirectory" \in Silent'
    BY <1>1 DEF Silent, Same
  <2> QED
    BY <1>8, <2>1, FaultIs DEF Clean
<1>12. /\ rest.path = T.path /\ rest.phase = "sort" /\ rest.opened = T.opened /\ rest.want = T.want
       /\ rest.items = T.items \ {item} /\ rest.dirs = T.dirs /\ rest.files = T.files
       /\ rest = [path |-> T.path, phase |-> T.phase, want |-> T.want, opened |-> T.opened,
                  items |-> T.items \ {item}, dirs |-> T.dirs, files |-> T.files]
       /\ T.phase = "sort"
  BY <1>1, <1>2, <1>4, <1>5
<1>13. ASSUME NEW o \in Wanted(load.version), TreeCovers(T, o)
       PROVE  \/ /\ T.want = "dirs"
                 /\ Direct(T, o) \/ InOneOf(T, rest.items \cup T.dirs, o) \/ (InOneOf(T, {item}, o) /\ IsDir(path))
              \/ /\ T.want = "files"
                 /\ InOneOf(T, T.dirs, o) \/ IsOneOf(T, rest.items \cup T.files, o) \/ (o = path /\ ~IsDir(path))
  <2>1. o \in DOMAIN remote /\ ~IsDir(o)
    BY <1>1, WantedIs
  <2>2. InOneOf(T, {item}, o) => IsDir(path)
    BY <1>7, <2>1, NameIsListed DEF InOneOf
  <2>3. InOneOf(T, T.items \cup T.dirs, o) => InOneOf(T, rest.items \cup T.dirs, o) \/ InOneOf(T, {item}, o)
    BY <1>12 DEF InOneOf
  <2>4. IsOneOf(T, T.items \cup T.files, o) => IsOneOf(T, rest.items \cup T.files, o) \/ o = path
    BY <1>7, <1>12 DEF IsOneOf
  <2> QED
    BY <1>12, <1>13, <2>1, <2>2, <2>3, <2>4 DEF TreeCovers
<1>14. ASSUME NEW g, Update(g), Shape(backend, g),
              ~f => \A o \in Wanted(load.version) : TreeCovers(T, o) => TreeCovers(g, o)
       PROVE  Advances
  <2>1. Clean' => \A o \in Wanted(load.version) : Covers(backend, Top, o) => Covers(backend, g, o)
    BY <1>1, <1>2, <1>11, <1>14 DEF Covers
  <2> QED
    BY <1>10, <1>14, <2>1, UpdateCovers
<1>15. CASE T.want = "dirs" /\ ~f /\ IsDir(path)
  <2>1. PICK g : g = [rest EXCEPT !.dirs = @ \cup {item}]
    OBVIOUS
  <2>2. /\ g.path = T.path /\ g.phase = "sort" /\ g.opened = T.opened /\ g.want = T.want
        /\ g.items = rest.items /\ g.dirs = T.dirs \cup {item} /\ g.files = T.files
    BY <1>12, <2>1
  <2>3. Shape(backend, g)
    BY <1>1, <1>5, <2>2 DEF Shape
  <2>4. \A o \in Wanted(load.version) : TreeCovers(T, o) => TreeCovers(g, o)
    BY <1>13, <1>15, <2>2 DEF TreeCovers, Direct, InOneOf
  <2> QED
    BY <1>8, <1>9, <1>14, <1>15, <2>1, <2>3, <2>4
<1>16. CASE T.want = "files" /\ ~(~f /\ IsDir(path))
  <2>1. PICK g : g = [rest EXCEPT !.files = @ \cup {item}]
    OBVIOUS
  <2>2. /\ g.path = T.path /\ g.phase = "sort" /\ g.opened = T.opened /\ g.want = T.want
        /\ g.items = rest.items /\ g.dirs = T.dirs /\ g.files = T.files \cup {item}
    BY <1>12, <2>1
  <2>3. Shape(backend, g)
    BY <1>1, <1>5, <1>6, <2>2 DEF Shape
  <2>4. \A o \in Wanted(load.version) : TreeCovers(T, o) => TreeCovers(g, o)
    BY <1>7, <1>13, <1>16, <2>2 DEF TreeCovers, IsOneOf, InOneOf
  <2> QED
    BY <1>8, <1>9, <1>14, <1>16, <2>1, <2>3, <2>4
<1>17. CASE ~(T.want = "dirs" /\ ~f /\ IsDir(path)) /\ ~(T.want = "files" /\ ~(~f /\ IsDir(path)))
  <2>1. Update(rest)
    BY <1>8, <1>9, <1>17
  <2>2. Shape(backend, rest)
    BY <1>5, <1>12 DEF Shape
  <2>3. ~f => \A o \in Wanted(load.version) : TreeCovers(T, o) => TreeCovers(rest, o)
    BY <1>12, <1>13, <1>17 DEF TreeCovers, Direct, IsOneOf, InOneOf
  <2> QED
    BY <1>14, <2>1, <2>2, <2>3
<1> QED
  BY <1>15, <1>16, <1>17

\* All that was listed is sorted: S3 gets the files, Google Cloud Storage too
\* once it has listed the folder for them.
LEMMA SortedCovers ==
    ASSUME CompleteInv, Sorted
    PROVE  Advances
<1>1. /\ load.phase = "folder" /\ Same /\ UNCHANGED copies /\ Top.phase = "sort" /\ failed' = failed
      /\ FilesInv /\ Top.items = {} /\ backend \in Backends
  BY DEF Sorted, InFolder, CompleteInv, FilesInv, Numbers
<1>2. PICK T : T = Top
  OBVIOUS
<1>3. /\ T = [path |-> T.path, phase |-> T.phase, want |-> T.want, opened |-> T.opened,
              items |-> T.items, dirs |-> T.dirs, files |-> T.files]
      /\ Shape(backend, T) /\ T.phase = "sort" /\ T.items = {}
  BY <1>1, <1>2, OpenFolder
<1>4. FolderStep /\ Kept
  BY <1>1, QuietKeeps DEF FolderStep
<1>5. CASE backend = "gs" /\ T.want = "dirs"
  <2>1. PICK g : g = [T EXCEPT !.phase = "list", !.want = "files"]
    OBVIOUS
  <2>2. /\ g.path = T.path /\ g.phase = "list" /\ g.opened = T.opened /\ g.want = "files"
        /\ g.items = T.items /\ g.dirs = T.dirs /\ g.files = T.files
    BY <1>3, <2>1
  <2>3. Shape(backend, g)
    BY <1>3, <1>5, <2>2 DEF Shape
  <2>4. \A o : TreeCovers(T, o) => TreeCovers(g, o)
    BY <1>3, <1>5, <2>2 DEF TreeCovers, Direct, InOneOf
  <2>5. \A o \in Wanted(load.version) : Covers(backend, Top, o) => Covers(backend, g, o)
    BY <1>2, <1>5, <2>4 DEF Covers
  <2>6. Update(g)
    BY <1>2, <1>5, <2>1 DEF Sorted
  <2> QED
    BY <1>4, <2>3, <2>5, <2>6, UpdateCovers
<1>6. CASE ~(backend = "gs" /\ T.want = "dirs")
  <2>1. PICK g : g = [T EXCEPT !.phase = "walk"]
    OBVIOUS
  <2>2. /\ g.path = T.path /\ g.phase = "walk" /\ g.opened = T.opened /\ g.want = T.want
        /\ g.items = T.items /\ g.dirs = T.dirs /\ g.files = T.files
    BY <1>3, <2>1
  <2>3. Shape(backend, g)
    BY <1>3, <2>2 DEF Shape
  <2>4. \A o : S3Covers(T, o) => S3Covers(g, o)
    BY <1>3, <2>2 DEF S3Covers
  <2>5. T.want # "dirs" => \A o : TreeCovers(T, o) => TreeCovers(g, o)
    BY <1>3, <2>2 DEF TreeCovers, IsOneOf, InOneOf
  <2>6. backend = "s3" \/ T.want # "dirs"
    BY <1>1, <1>3, <1>6, FilesAssumption DEF Shape
  <2>7. \A o \in Wanted(load.version) : Covers(backend, Top, o) => Covers(backend, g, o)
    BY <1>2, <2>4, <2>5, <2>6 DEF Covers
  <2>8. Update(g)
    BY <1>2, <1>6, <2>1 DEF Sorted
  <2> QED
    BY <1>4, <2>3, <2>7, <2>8, UpdateCovers
<1> QED
  BY <1>5, <1>6

\* Azure: what was below the folder is in it or below a listed directory, what
\* was in it is a listed file.
LEMMA ListedCovers ==
    ASSUME CompleteInv, FolderStep, UNCHANGED copies, backend \in {"az", "azfs"}, Top.phase = "list",
           NEW N, NEW names, Listed(names), N = Names(Top.path, Below(Top.path)),
           Clean' /\ OnePage(load.version) =>
              \A o \in DOMAIN remote : IsStrictPrefix(Top.path, o) =>
                 names = IF Top.want = "dirs" THEN Subdirs(Top.path, N) ELSE N \ Subdirs(Top.path, N)
    PROVE  Advances
<1>1. load.phase = "folder" /\ Same /\ FilesInv
  BY DEF FolderStep, CompleteInv
<1>2. PICK T : T = Top
  OBVIOUS
<1>3. /\ T = [path |-> T.path, phase |-> T.phase, want |-> T.want, opened |-> T.opened,
              items |-> T.items, dirs |-> T.dirs, files |-> T.files]
      /\ IsSeq(T.path) /\ Shape(backend, T) /\ T.phase = "list"
  BY <1>1, <1>2, OpenFolder
<1>4. Kept
  BY <1>1, QuietKeeps
<1>5. PICK I : I = {<<n>> : n \in names}
  OBVIOUS
<1>6. ASSUME Clean', OnePage(load.version), NEW o \in Wanted(load.version), IsStrictPrefix(T.path, o)
      PROVE  \/ Direct(T, o) /\ (T.want # "dirs" => IsOneOf(T, I, o))
             \/ T.want = "dirs" /\ InOneOf(T, I, o)
             \/ T.want # "dirs" /\ ~Direct(T, o)
  <2>1. o \in DOMAIN remote /\ IsSeq(o) /\ ~IsDir(o)
    BY <1>1, WantedIs
  <2>2. names = IF T.want = "dirs" THEN Subdirs(T.path, N) ELSE N \ Subdirs(T.path, N)
    BY <1>2, <1>6, <2>1
  <2>3. PICK n \in N : \/ o = T.path \o <<n>> /\ Len(o) = Len(T.path) + 1
                       \/ IsStrictPrefix(T.path \o <<n>>, o) /\ IsDir(T.path \o <<n>>) /\ Len(o) # Len(T.path) + 1
    BY <1>2, <1>3, <1>6, <2>1, DownOrHere
  <2>4. n \in Subdirs(T.path, N) <=> IsDir(T.path \o <<n>>)
    BY <1>3, AppendIs DEF Subdirs
  <2>5. CASE o = T.path \o <<n>> /\ Len(o) = Len(T.path) + 1
    <3>1. Direct(T, o)
      BY <1>6, <2>5 DEF Direct
    <3>2. T.want # "dirs" => n \in names
      BY <2>1, <2>2, <2>4, <2>5
    <3> QED
      BY <1>5, <2>5, <3>1, <3>2 DEF IsOneOf
  <2>6. CASE IsStrictPrefix(T.path \o <<n>>, o) /\ IsDir(T.path \o <<n>>) /\ Len(o) # Len(T.path) + 1
    <3>1. T.want = "dirs" => n \in names
      BY <2>2, <2>4, <2>6
    <3> QED
      BY <1>5, <2>6, <3>1 DEF InOneOf, Direct
  <2> QED
    BY <2>3, <2>5, <2>6
<1>7. CASE T.want = "dirs"
  <2>1. PICK g : g = [T EXCEPT !.want = "files", !.dirs = I]
    OBVIOUS
  <2>2. /\ g.path = T.path /\ g.phase = "list" /\ g.opened = T.opened /\ g.want = "files"
        /\ g.items = T.items /\ g.dirs = I /\ g.files = T.files
    BY <1>3, <2>1
  <2>3. Shape(backend, g)
    BY <1>3, <2>2 DEF Shape
  <2>4. Clean' /\ OnePage(load.version) => \A o \in Wanted(load.version) : TreeCovers(T, o) => TreeCovers(g, o)
    BY <1>3, <1>6, <1>7, <2>2 DEF TreeCovers, Direct, InOneOf
  <2>5. Clean' /\ OnePage(load.version) =>
          \A o \in Wanted(load.version) : Covers(backend, Top, o) => Covers(backend, g, o)
    BY <1>2, <2>4 DEF Covers
  <2>6. Update(g)
    BY <1>2, <1>5, <1>7, <2>1 DEF Listed
  <2> QED
    BY <1>4, <2>3, <2>5, <2>6, UpdateCovers
<1>8. CASE T.want # "dirs"
  <2>1. PICK g : g = [T EXCEPT !.phase = "walk", !.files = I]
    OBVIOUS
  <2>2. /\ g.path = T.path /\ g.phase = "walk" /\ g.opened = T.opened /\ g.want = T.want
        /\ g.items = T.items /\ g.dirs = T.dirs /\ g.files = I
    BY <1>3, <2>1
  <2>3. Shape(backend, g)
    <3>1. \A i \in I : IsItem(i) /\ Len(i) = 1
      BY <1>5, OneName DEF IsItem
    <3> QED
      BY <1>3, <2>2, <3>1 DEF Shape
  <2>4. Clean' /\ OnePage(load.version) => \A o \in Wanted(load.version) : TreeCovers(T, o) => TreeCovers(g, o)
    BY <1>3, <1>6, <1>8, <2>2 DEF TreeCovers, Direct, InOneOf, IsOneOf
  <2>5. Clean' /\ OnePage(load.version) =>
          \A o \in Wanted(load.version) : Covers(backend, Top, o) => Covers(backend, g, o)
    BY <1>2, <2>4 DEF Covers
  <2>6. Update(g)
    BY <1>2, <1>5, <1>8, <2>1 DEF Listed
  <2> QED
    BY <1>4, <2>3, <2>5, <2>6, UpdateCovers
<1> QED
  BY <1>7, <1>8

\* A blob container is listed.
LEMMA AZListCovers ==
    ASSUME CompleteInv, AZ_List
    PROVE  Advances
<1>1. /\ load.phase = "folder" /\ Same /\ UNCHANGED copies /\ Top.phase = "list" /\ backend = "az"
      /\ FilesInv
  BY DEF AZ_List, InFolder, CompleteInv
<1>2. PICK f, names :
        /\ names \in IF Top.want = "dirs" THEN az_getDirectorySubdirs(Top.path) ELSE az_getDirectoryFiles(Top.path)
        /\ Fault(f, "list")
        /\ IF f THEN load' = Returned(Failed) ELSE Listed(names)
  BY DEF AZ_List
<1>3. FolderStep
  BY <1>1, <1>2, FaultIs DEF FolderStep
<1>4. PICK N : N = Names(Top.path, Below(Top.path))
  OBVIOUS
<1>5. ASSUME OnePage(load.version), NEW o \in DOMAIN remote, IsStrictPrefix(Top.path, o)
      PROVE  names = IF Top.want = "dirs" THEN Subdirs(Top.path, N) ELSE N \ Subdirs(Top.path, N)
  <2>1. IsSeq(Top.path) /\ Len(Top.path) >= 1 /\ Top.path[1] = load.version
    BY <1>1, OpenFolder
  <2>2. FirstPages(N) = {N}
    BY <1>1, <1>4, <1>5, <2>1, AzureListsAll
  <2> QED
    BY <1>2, <1>4, <2>2 DEF az_getDirectorySubdirs, az_getDirectoryFiles
<1>6. CASE f
  BY <1>1, <1>2, <1>3, <1>6, FailedCovers
<1>7. CASE ~f
  BY <1>1, <1>2, <1>3, <1>4, <1>5, <1>7, ListedCovers
<1> QED
  BY <1>6, <1>7

\* The directory that a file share works with is the one that was asked for
\* when there is something below it and no request fails.
LEMMA WorkingIsFolder ==
    ASSUME NEW p, IsSeq(p), Len(p) >= 1, NEW o \in DOMAIN remote, IsStrictPrefix(p, o)
    PROVE  WorkingSubdirs(p, FALSE) = {p}
<1> DEFINE k == Len(p)
<1>1. k \in Nat /\ k \in 1 .. k /\ k \in 0 .. k
  BY DEF IsSeq
<1>2. SubSeq(p, 1, k) = p
  BY <1>1, FirstNames, SameSeq
<1>3. IsDir(SubSeq(p, 1, k))
  BY <1>2, NameIsListed
<1>4. \A i \in k + 1 .. k : ~IsDir(SubSeq(p, 1, i))
  <2> HIDE DEF k
  <2> QED
    BY <1>1
<1> QED
  BY <1>1, <1>2, <1>3, <1>4, WorkingAt

\* A file share is listed: from the directory that was asked for, as long as no
\* request fails while it is looked up.
LEMMA AZFSListCovers ==
    ASSUME CompleteInv, AZFS_List
    PROVE  Advances
<1>1. /\ load.phase = "folder" /\ Same /\ UNCHANGED copies /\ Top.phase = "list" /\ backend = "azfs"
      /\ FilesInv
  BY DEF AZFS_List, InFolder, CompleteInv
<1>2. PICK f, unnoticed, names :
        /\ f \in BOOLEAN /\ unnoticed \in BOOLEAN
        /\ unnoticed => f
        /\ names \in IF Top.want = "dirs" THEN azfs_getDirectorySubdirs(Top.path, f) ELSE azfs_getDirectoryFiles(Top.path, f)
        /\ Fault(f, IF unnoticed THEN "lookup" ELSE "list")
        /\ IF f /\ ~unnoticed THEN load' = Returned(Failed) ELSE Listed(names)
  BY DEF AZFS_List, MayFail, Unnoticed
<1>3. FolderStep
  BY <1>1, <1>2, FaultIs DEF FolderStep
<1>4. PICK N : N = Names(Top.path, Below(Top.path))
  OBVIOUS
<1>5. ASSUME ~f, OnePage(load.version), NEW o \in DOMAIN remote, IsStrictPrefix(Top.path, o)
      PROVE  names = IF Top.want = "dirs" THEN Subdirs(Top.path, N) ELSE N \ Subdirs(Top.path, N)
  <2>1. IsSeq(Top.path) /\ Len(Top.path) >= 1 /\ Top.path[1] = load.version
    BY <1>1, OpenFolder
  <2>2. FirstPages(N) = {N}
    BY <1>1, <1>4, <1>5, <2>1, AzureListsAll
  <2>3. WorkingSubdirs(Top.path, FALSE) = {Top.path}
    BY <1>5, <2>1, WorkingIsFolder
  <2>4. /\ azfs_getDirectorySubdirs(Top.path, FALSE) = az_getDirectorySubdirs(Top.path)
        /\ azfs_getDirectoryFiles(Top.path, FALSE) = az_getDirectoryFiles(Top.path)
    BY <2>3 DEF azfs_getDirectorySubdirs, azfs_getDirectoryFiles
  <2>5. names \in IF Top.want = "dirs" THEN az_getDirectorySubdirs(Top.path) ELSE az_getDirectoryFiles(Top.path)
    BY <1>2, <1>5, <2>4
  <2> QED
    BY <1>4, <2>2, <2>5 DEF az_getDirectorySubdirs, az_getDirectoryFiles
<1>6. CASE f /\ ~unnoticed
  BY <1>1, <1>2, <1>3, <1>6, FailedCovers
<1>7. CASE f /\ unnoticed
  <2>1. ~Clean'
    <3>1. "lookup" \in failed'
      BY <1>2, <1>7, FaultIs
    <3>2. "lookup" \in Silent'
      BY <1>1 DEF Silent, Same
    <3> QED
      BY <3>1, <3>2 DEF Clean
  <2> QED
    BY <1>1, <1>2, <1>3, <1>4, <1>7, <2>1, ListedCovers
<1>8. CASE ~f
  BY <1>1, <1>2, <1>3, <1>4, <1>5, <1>8, ListedCovers
<1> QED
  BY <1>6, <1>7, <1>8

-----------------------------------------------------------------------------
\* The downloads that succeed: files

\* The open folder without a file: that has been copied, or is not wanted.
LEMMA FileCovers ==
    ASSUME CompleteInv, FolderStep, Top.phase = "walk", NEW file \in Top.files,
           Update([Top EXCEPT !.files = @ \ {file}]),
           Clean' => Kept /\ \A o \in Wanted(load.version) : o = Top.path \o file => HasCopy(o)'
    PROVE  Advances
<1>1. PICK T : T = Top
  OBVIOUS
<1>2. /\ T = [path |-> T.path, phase |-> T.phase, want |-> T.want, opened |-> T.opened,
              items |-> T.items, dirs |-> T.dirs, files |-> T.files]
      /\ Shape(backend, T) /\ T.phase = "walk"
  BY <1>1, OpenFolder DEF FolderStep
<1>3. PICK g : g = [T EXCEPT !.files = @ \ {file}]
  OBVIOUS
<1>4. /\ g.path = T.path /\ g.phase = "walk" /\ g.opened = T.opened /\ g.want = T.want
      /\ g.items = T.items /\ g.dirs = T.dirs /\ g.files = T.files \ {file}
  BY <1>2, <1>3
<1>5. Shape(backend, g)
  BY <1>2, <1>4 DEF Shape
<1>6. \A o : S3Covers(T, o) => S3Covers(g, o) \/ o = T.path \o file
  BY <1>2, <1>4 DEF S3Covers
<1>7. \A o : TreeCovers(T, o) => TreeCovers(g, o) \/ o = T.path \o file
  BY <1>2, <1>4 DEF TreeCovers, InOneOf, IsOneOf
<1>8. Clean' => \A o \in Wanted(load.version) : Covers(backend, Top, o) => HasCopy(o)' \/ Covers(backend, g, o)
  BY <1>1, <1>6, <1>7 DEF Covers
<1>9. Update(g)
  BY <1>1, <1>3
<1> QED
  BY <1>5, <1>8, <1>9, UpdateCovers

\* A file is copied from its path, whole: the other copies stay.
LEMMA CopyKeeps ==
    ASSUME FilesInv, Same, NEW path, IsSeq(path), Len(path) >= 1, NEW from, NEW whole,
           copies' = Copied(path, from, whole), ~IsDir(path) /\ path \in DOMAIN remote => from = path /\ whole = TRUE
    PROVE  Kept /\ \A v : \A o \in Wanted(v) : o = path => HasCopy(o)'
<1>1. UNCHANGED <<remote, temp>>
  BY DEF Same, files
<1>2. copies' = [l \in DOMAIN copies \cup {Local(path)} |->
                   IF l = Local(path) THEN [from |-> from, change |-> IF whole THEN remote[from] ELSE -1] ELSE copies[l]]
  BY DEF Copied, With
<1>3. ASSUME NEW v, NEW o \in Wanted(v), o = path
      PROVE  HasCopy(o)'
  <2>1. from = path /\ whole = TRUE
    BY <1>3, WantedIs
  <2>2. copies'[Local(path)] = [from |-> path, change |-> remote[path]] /\ Local(path) \in DOMAIN copies'
    BY <1>2, <2>1
  <2> QED
    BY <1>1, <1>3, <2>2 DEF HasCopy, Local
<1>4. ASSUME NEW v, NEW o \in Wanted(v), HasCopy(o), o # path
      PROVE  HasCopy(o)'
  <2>1. Tail(Local(o)) = o /\ Tail(Local(path)) = path
    <3>1. IsSeq(o) /\ Len(o) >= 1
      BY WantedIs DEF IsSeq
    <3> QED
      BY <3>1, LocalPath
  <2>2. Local(o) # Local(path)
    BY <1>4, <2>1
  <2>3. Local(o) \in DOMAIN copies' /\ copies'[Local(o)] = copies[Local(o)]
    BY <1>2, <1>4, <2>2 DEF HasCopy
  <2> QED
    BY <1>1, <1>4, <2>3 DEF HasCopy, Local
<1> QED
  BY <1>3, <1>4 DEF Kept

\* S3 and Google Cloud Storage get a file, or pass over one that is no part of
\* a model.
LEMMA GetFileCovers ==
    ASSUME CompleteInv, GetFile, backend \in {"s3", "gs"}
    PROVE  Advances
<1>1. load.phase = "folder" /\ Same /\ Top.phase = "walk" /\ FilesInv /\ Top.files # {}
  BY DEF GetFile, InFolder, CompleteInv
<1>2. PICK file : file = CHOOSE n \in Top.files : TRUE
  OBVIOUS
<1>3. PICK path : path = Top.path \o file
  OBVIOUS
<1>4. file \in Top.files /\ IsSeq(file) /\ Len(file) >= 1 /\ IsSeq(Top.path) /\ Len(Top.path) >= 1
  BY <1>1, <1>2, OpenFolder
<1>5. IsSeq(path) /\ Len(path) >= 1 /\ Last(path) = Last(file)
  <2>1. IsSeq(path) /\ Len(path) = Len(Top.path) + Len(file)
    BY <1>3, <1>4, ConcatIsSeq
  <2>2. Len(Top.path) \in Nat /\ Len(file) \in Nat
    BY <1>4 DEF IsSeq
  <2>3. Len(path) >= 1
    BY <1>4, <2>1, <2>2
  <2> QED
    BY <1>3, <1>4, <2>1, <2>3, WithinFolder
<1>6. CASE Last(file) \notin Accepted
  <2>1. Update([Top EXCEPT !.files = @ \ {file}]) /\ UNCHANGED <<faults, failed, copies>>
    BY <1>2, <1>6 DEF GetFile
  <2>2. FolderStep /\ Kept
    BY <1>1, <2>1, QuietKeeps DEF FolderStep
  <2>3. \A o \in Wanted(load.version) : o # path
    BY <1>1, <1>5, <1>6, WantedIs
  <2> QED
    BY <1>1, <1>3, <1>4, <2>1, <2>2, <2>3, FileCovers
<1>7. CASE Last(file) \in Accepted
  <2>1. PICK f \in BOOLEAN, cut \in BOOLEAN :
           /\ cut => ~f
           /\ Fault(f \/ cut, IF f THEN "get" ELSE "cut")
           /\ IF f \/ path \notin DOMAIN remote THEN load' = Returned(Failed) /\ UNCHANGED copies
              ELSE Update([Top EXCEPT !.files = @ \ {file}]) /\ copies' = Copied(path, path, ~cut)
    BY <1>2, <1>3, <1>7 DEF GetFile, MayFail
  <2>2. FolderStep
    BY <1>1, <2>1, FaultIs DEF FolderStep
  <2>3. Clean' => ~cut
    <3>1. "cut" \in Silent'
      BY <1>1 DEF Silent, Same
    <3>2. cut => "cut" \in failed'
      BY <2>1, FaultIs
    <3> QED
      BY <3>1, <3>2 DEF Clean
  <2>4. CASE f \/ path \notin DOMAIN remote
    BY <2>1, <2>2, <2>4, FailedCovers
  <2>5. CASE ~(f \/ path \notin DOMAIN remote)
    <3>1. PICK whole : whole = ~cut
      OBVIOUS
    <3>2. copies' = Copied(path, path, whole)
      BY <2>1, <2>5, <3>1
    <3>3. Clean' => Kept /\ \A v : \A o \in Wanted(v) : o = path => HasCopy(o)'
      BY <1>1, <1>5, <2>3, <3>1, <3>2, CopyKeeps
    <3> QED
      BY <1>1, <1>3, <1>4, <2>1, <2>2, <2>5, <3>3, FileCovers
  <2> QED
    BY <2>4, <2>5
<1> QED
  BY <1>6, <1>7

\* Azure saves a file: what is wanted, from its own path.
LEMMA SavedCovers ==
    ASSUME CompleteInv, FolderStep, Top.phase = "walk", NEW file \in Top.files, NEW from, NEW lost, Saved(file, from, lost),
           NEW path, path = Top.path \o file,
           Clean' => (~IsDir(path) /\ path \in DOMAIN remote => from = path)
    PROVE  Advances
<1>1. load.phase = "folder" /\ Same /\ FilesInv
  BY DEF FolderStep, CompleteInv
<1>2. IsSeq(path) /\ Len(path) >= 1
  <2>1. IsSeq(file) /\ Len(file) >= 1 /\ IsSeq(Top.path) /\ Len(Top.path) >= 1
    BY <1>1, OpenFolder
  <2>2. IsSeq(path) /\ Len(path) = Len(Top.path) + Len(file)
    BY <2>1, ConcatIsSeq
  <2>3. Len(Top.path) \in Nat /\ Len(file) \in Nat
    BY <2>1 DEF IsSeq
  <2> QED
    BY <2>1, <2>2, <2>3
<1>3. CASE lost \/ from \notin DOMAIN remote
  BY <1>3, FailedCovers DEF Saved
<1>4. CASE ~(lost \/ from \notin DOMAIN remote)
  <2>1. Update([Top EXCEPT !.files = @ \ {file}]) /\ copies' = Copied(path, from, TRUE)
    BY <1>4 DEF Saved
  <2>2. Clean' => Kept /\ \A v : \A o \in Wanted(v) : o = path => HasCopy(o)'
    BY <1>1, <1>2, <2>1, CopyKeeps
  <2> QED
    BY <2>1, <2>2, FileCovers
<1> QED
  BY <1>3, <1>4

\* A blob is downloaded.
LEMMA AZDownloadCovers ==
    ASSUME CompleteInv, AZ_DownloadFile
    PROVE  Advances
<1>1. load.phase = "folder" /\ Same /\ Top.phase = "walk" /\ Top.files # {}
  BY DEF AZ_DownloadFile, InFolder
<1>2. PICK file : file = CHOOSE n \in Top.files : TRUE
  OBVIOUS
<1>3. file \in Top.files
  BY <1>1, <1>2
<1>4. PICK f : Fault(f, "get") /\ Saved(file, Top.path \o file, f)
  BY <1>2 DEF AZ_DownloadFile
<1>5. FolderStep
  BY <1>1, <1>4, FaultIs DEF FolderStep
<1> QED
  BY <1>1, <1>3, <1>4, <1>5, SavedCovers

\* A file of a share is downloaded: from the directory of its path, as long as no
\* request fails while that is looked up.
LEMMA AZFSDownloadCovers ==
    ASSUME CompleteInv, AZFS_DownloadFile
    PROVE  Advances
<1>1. load.phase = "folder" /\ Same /\ Top.phase = "walk" /\ Top.files # {} /\ backend = "azfs"
  BY DEF AZFS_DownloadFile, InFolder
<1>2. PICK file : file = CHOOSE n \in Top.files : TRUE
  OBVIOUS
<1>3. PICK p : p = Top.path
  OBVIOUS
<1>4. PICK path : path = p \o file
  OBVIOUS
<1>5. file \in Top.files /\ IsSeq(file) /\ Len(file) = 1 /\ IsSeq(p) /\ Len(p) >= 1
  BY <1>1, <1>2, <1>3, OpenFolder DEF Shape
<1>6. PICK f, unnoticed, dir :
        /\ f \in BOOLEAN /\ unnoticed \in BOOLEAN
        /\ unnoticed => f
        /\ dir \in WorkingSubdirs(path, f)
        /\ Fault(f, IF unnoticed THEN "lookup" ELSE "get")
        /\ Saved(file, Append(dir, Last(file)), f /\ ~unnoticed)
  BY <1>2, <1>3, <1>4 DEF AZFS_DownloadFile, MayFail, Unnoticed
<1>7. FolderStep
  BY <1>1, <1>6, FaultIs DEF FolderStep
<1>8. ASSUME ~f, ~IsDir(path), path \in DOMAIN remote
      PROVE  Append(dir, Last(file)) = path
  <2>1. PICK k : k = Len(p)
    OBVIOUS
  <2>2. k \in Nat /\ k >= 1
    BY <1>5, <2>1 DEF IsSeq
  <2>3. IsSeq(path) /\ Len(path) = k + 1 /\ IsStrictPrefix(p, path)
    <3>1. IsSeq(path) /\ Len(path) = Len(p) + Len(file)
      BY <1>4, <1>5, ConcatIsSeq
    <3>2. Len(file) >= 1
      BY <1>5
    <3>3. IsStrictPrefix(p, path)
      BY <1>4, <1>5, <3>2, WithinFolder
    <3> QED
      BY <1>5, <2>1, <3>1, <3>3
  <2>4. k \in 0 .. Len(path) /\ k + 1 \in 0 .. Len(path) /\ k \in 1 .. Len(path)
    BY <2>2, <2>3
  <2>5. SubSeq(path, 1, k) = p
    <3>1. \A i \in 1 .. k : p[i] = path[i]
      BY <1>5, <2>1, <2>3, StrictPrefixIs
    <3>2. /\ IsSeq(SubSeq(path, 1, k)) /\ Len(SubSeq(path, 1, k)) = k
          /\ \A i \in 1 .. k : SubSeq(path, 1, k)[i] = path[i]
      BY <2>3, <2>4, FirstNames
    <3> QED
      BY <1>5, <2>1, <3>1, <3>2, SameSeq
  <2>6. SubSeq(path, 1, k + 1) = path
    BY <2>3, <2>4, FirstNames, SameSeq
  <2>7. IsDir(SubSeq(path, 1, k))
    BY <1>8, <2>3, <2>5, NameIsListed
  <2>8. \A i \in k + 1 .. Len(path) : ~IsDir(SubSeq(path, 1, i))
    <3>1. \A i \in k + 1 .. Len(path) : i = k + 1
      BY <2>2, <2>3
    <3> QED
      BY <1>8, <2>6, <3>1
  <2>9. Len(path) \in Nat
    BY <2>2, <2>3
  <2>10. WorkingSubdirs(path, FALSE) = {p}
    BY <2>4, <2>5, <2>7, <2>8, <2>9, WorkingAt
  <2>11. dir = p
    BY <1>6, <1>8, <2>10
  <2>12. file = <<Last(file)>>
    <3>1. PICK n : n = Last(file)
      OBVIOUS
    <3>2. n = file[1]
      BY <1>5, <3>1 DEF Last
    <3>3. IsSeq(<<n>>) /\ Len(<<n>>) = 1 /\ <<n>>[1] = n
      BY OneName
    <3>4. \A i \in 1 .. 1 : i = 1
      OBVIOUS
    <3>5. file = <<n>>
      BY <1>5, <3>2, <3>3, <3>4, SameSeq
    <3> QED
      BY <3>1, <3>5
  <2> QED
    BY <1>4, <1>5, <2>11, <2>12, AppendIs
<1>9. Clean' => ~f \/ (f /\ ~unnoticed)
  <2>1. "lookup" \in Silent'
    BY <1>1 DEF Silent, Same
  <2>2. unnoticed => "lookup" \in failed'
    BY <1>6, FaultIs
  <2> QED
    BY <2>1, <2>2 DEF Clean
<1>10. CASE f /\ ~unnoticed
  <2>1. load' = Returned(Failed) /\ UNCHANGED copies
    BY <1>6, <1>10 DEF Saved
  <2> QED
    BY <1>7, <2>1, FailedCovers
<1>11. CASE ~(f /\ ~unnoticed)
  <2>1. Clean' => (~IsDir(path) /\ path \in DOMAIN remote => Append(dir, Last(file)) = path)
    BY <1>8, <1>9, <1>11
  <2> QED
    BY <1>1, <1>3, <1>4, <1>5, <1>6, <1>7, <2>1, SavedCovers
<1> QED
  BY <1>10, <1>11

\* A folder in the folder: one whose local directory cannot be made ends the
\* version as if it were complete.
LEMMA WalkCovers ==
    ASSUME CompleteInv, WalkFolder
    PROVE  Advances
<1>1. /\ load.phase = "folder" /\ Same /\ UNCHANGED copies /\ Top.phase = "walk" /\ Top.dirs # {}
      /\ backend \in {"s3", "gs", "az", "azfs"}
  BY FilesAssumption DEF WalkFolder, InFolder, CompleteInv, FilesInv, Numbers
<1>2. PICK d : d = CHOOSE n \in Top.dirs : TRUE
  OBVIOUS
<1>3. d \in Top.dirs
  BY <1>1, <1>2
<1>4. PICK f \in BOOLEAN, unmade \in BOOLEAN :
        /\ ~(f /\ unmade)
        /\ Fault(f \/ unmade, IF f THEN "checkPath" ELSE "mkdir")
        /\ load' = IF f THEN Returned(Failed) ELSE Descend(d, unmade)
  BY <1>2 DEF WalkFolder, MayFail, checkPath
<1>5. FolderStep /\ backend # "s3"
  BY <1>1, <1>4, FaultIs, OpenFolder DEF FolderStep, Shape
<1>6. CASE f
  BY <1>1, <1>4, <1>5, <1>6, FailedCovers
<1>7. CASE unmade
  <2>1. load' = Returned(Ok)
    BY <1>4, <1>7 DEF Descend
  <2>2. ~Clean'
    <3>1. "mkdir" \in failed'
      BY <1>4, <1>7, FaultIs
    <3>2. "mkdir" \in Silent'
      BY <1>1, <1>5 DEF Silent, Same
    <3> QED
      BY <3>1, <3>2 DEF Clean
  <2> QED
    BY <1>1, <1>5, <2>1, <2>2, ReturnedCovers
<1>8. CASE ~f /\ ~unmade
  <2>1. load' = Descend(d, FALSE)
    BY <1>4, <1>8 DEF Descend
  <2> QED
    BY <1>1, <1>3, <1>5, <2>1, DescendCovers
<1> QED
  BY <1>6, <1>7, <1>8

\* A folder is done: nothing of it is to come.
LEMMA FolderDoneCovers ==
    ASSUME CompleteInv, FolderDone
    PROVE  Advances
<1>1. /\ load.phase = "folder" /\ Same /\ UNCHANGED copies /\ Top.phase = "walk" /\ failed' = failed
      /\ Top.dirs = {} /\ Top.files = {} /\ load' = Returned(Ok)
  BY DEF FolderDone, InFolder
<1>2. PICK T : T = Top
  OBVIOUS
<1>3. \A o : ~Covers(backend, T, o)
  BY <1>1, <1>2 DEF Covers, S3Covers, TreeCovers, InOneOf, IsOneOf
<1>4. FolderStep
  BY <1>1 DEF FolderStep
<1> QED
  BY <1>1, <1>2, <1>3, <1>4, ReturnedCovers

-----------------------------------------------------------------------------
\* The downloads that succeed: the versions and the operations

\* A download that has failed, has not begun or is over claims nothing.
LEMMA ClaimsNothing ==
    ASSUME load'.stack = <<>>, op'.kind = "idle" => load'.phase = "none", load'.phase # "folder",
           \/ load'.phase = "none"
           \/ load'.result # Ok
           \/ load'.phase = "versions" /\ op'.batch \subseteq load'.todo
    PROVE  Advances
<1>1. Shapes'
  <2>1. Len(load'.stack) = 0
    OBVIOUS
  <2> QED
    BY <2>1 DEF Shapes
<1>2. InOperation'
  BY DEF InOperation
<1>3. NoneLeft'
  BY DEF NoneLeft, Finished
<1>4. DoneComplete'
  BY DEF DoneComplete, Clean, DoneVersions
<1>5. LackIsToCome'
  BY DEF LackIsToCome
<1> QED
  BY <1>1, <1>2, <1>3, <1>4, <1>5 DEF Advances

\* The directory for the copies of a model is made, or not.
LEMMA CreateTempPathCovers ==
    ASSUME CompleteInv, CreateTempPath
    PROVE  Advances
<1>1. /\ load = [phase |-> load.phase, todo |-> load.todo, version |-> load.version,
                 result |-> load.result, stack |-> load.stack]
      /\ load.phase = "versions" /\ load.stack = <<>> /\ load.todo = op.batch /\ op.kind # "idle" /\ op' = op
  BY DEF CreateTempPath, CompleteInv, FilesInv, FoldersOf, Downloading
<1>2. \/ load' = [load EXCEPT !.phase = "done", !.result = Failed]
      \/ load' = [load EXCEPT !.version = "?"]
  BY DEF CreateTempPath
<1>3. CASE load' = [load EXCEPT !.phase = "done", !.result = Failed]
  <2>1. load' = [phase |-> "done", todo |-> load.todo, version |-> load.version, result |-> Failed, stack |-> <<>>]
    BY <1>1, <1>3
  <2>2. load'.phase = "done" /\ load'.result = Failed /\ load'.stack = <<>>
    BY <2>1
  <2> QED
    BY <1>1, <2>2, ClaimsNothing DEF Failed, Ok
<1>4. CASE load' = [load EXCEPT !.version = "?"]
  <2>1. load' = [phase |-> "versions", todo |-> load.todo, version |-> "?", result |-> load.result, stack |-> <<>>]
    BY <1>1, <1>4
  <2>2. load'.phase = "versions" /\ load'.todo = load.todo /\ load'.stack = <<>>
    BY <2>1
  <2> QED
    BY <1>1, <2>2, ClaimsNothing
<1> QED
  BY <1>2, <1>3, <1>4

\* The next version is downloaded: all that is wanted of it is below its path.
LEMMA NextVersionCovers ==
    ASSUME CompleteInv, NextVersion
    PROVE  Advances
<1> DEFINE v == CHOOSE v \in load.todo : TRUE
<1>1. PICK f \in checkPath :
        /\ Fault(f, "checkPath")
        /\ load' = IF f THEN [VersionDone(Failed) EXCEPT !.version = v, !.todo = @ \ {v}]
                   ELSE [load EXCEPT !.phase = "folder", !.version = v, !.todo = @ \ {v}, !.stack = <<Folder(<<v>>)>>]
  BY DEF NextVersion
<1>2. /\ load = [phase |-> load.phase, todo |-> load.todo, version |-> load.version,
                 result |-> load.result, stack |-> load.stack]
      /\ FoldersOf(load) /\ load.phase = "versions" /\ load.stack = <<>> /\ op.kind # "idle" /\ v \in load.todo
      /\ UNCHANGED <<backend, remote, calm, copies, temp, op>>
  BY DEF NextVersion, CompleteInv, FilesInv, FoldersOf, Downloading, files
<1> HIDE DEF v
<1>3. /\ Fault(f, "checkPath")
      /\ f => load' = [VersionDone(Failed) EXCEPT !.version = v, !.todo = @ \ {v}]
      /\ ~f => load' = [load EXCEPT !.phase = "folder", !.version = v, !.todo = @ \ {v}, !.stack = <<Folder(<<v>>)>>]
  BY <1>1
<1>4. CASE f
  <2>1. PICK w : w = VersionDone(Failed)
    OBVIOUS
  <2>2. PICK p, r : w = [phase |-> p, todo |-> load.todo, version |-> load.version, result |-> r, stack |-> <<>>]
    BY <1>2, <2>1 DEF VersionDone
  <2>3. w.stack = <<>> /\ w.phase \in {"versions", "done"} /\ w.result # Ok
    <3>1. Failed # Ok
      BY DEF Failed, Ok
    <3> QED
      BY <1>2, <2>1, <3>1, VersionDoneIs
  <2>4. load' = [w EXCEPT !.version = v, !.todo = w.todo \ {v}]
    BY <1>3, <1>4, <2>1
  <2>5. load' = [phase |-> p, todo |-> load.todo \ {v}, version |-> v, result |-> r, stack |-> <<>>]
    BY <2>2, <2>4
  <2>6. load'.stack = <<>> /\ load'.phase = w.phase /\ load'.result = w.result
    BY <2>2, <2>5
  <2> QED
    BY <1>2, <2>3, <2>6, ClaimsNothing
<1>5. CASE ~f
  <2>1. PICK g : g = Folder(<<v>>)
    OBVIOUS
  <2>2. load' = [phase |-> "folder", todo |-> load.todo \ {v}, version |-> v, result |-> load.result, stack |-> <<g>>]
    BY <1>2, <1>3, <1>5, <2>1
  <2>3. IsSeq(<<g>>) /\ Len(<<g>>) = 1 /\ <<g>>[1] = g
    BY OneName
  <2>4. /\ load'.phase = "folder" /\ load'.todo = load.todo \ {v} /\ load'.version = v /\ load'.result = load.result
        /\ Len(load'.stack) = 1 /\ load'.stack[1] = g
    BY <2>2, <2>3
  <2>5. /\ g.path = <<v>> /\ g.phase = "check" /\ g.opened = <<>> /\ g.want = "dirs"
        /\ g.dirs = {} /\ g.files = {}
    BY <2>1 DEF Folder
  <2>6. Shape(backend, g)
    BY <2>5, OneName DEF Shape
  <2>7. Shapes'
    <3>1. \A i \in 1 .. 1 : i = 1
      OBVIOUS
    <3> QED
      BY <1>2, <2>4, <2>6, <3>1 DEF Shapes, Shape
  <2>8. InOperation' /\ NoneLeft'
    BY <1>2, <2>4 DEF InOperation, NoneLeft, Finished
  <2>9. Clean' => Clean
    <3>1. failed \subseteq failed' /\ Silent' = Silent
      BY <1>2, <1>3, FaultIs DEF Silent
    <3> QED
      BY <1>2, <2>4, <3>1 DEF Clean
  <2>10. \A u : Wanted(u)' = Wanted(u) /\ (OnePage(u)' <=> OnePage(u))
    <3>1. \A u : Wanted(u)' = Wanted(u)
      BY <1>2 DEF Wanted, Below, IsDir
    <3>2. \A u : OnePage(u)' <=> OnePage(u)
      BY <1>2 DEF OnePage, Below, Names
    <3> QED
      BY <3>1, <3>2
  <2>11. DoneComplete'
    <3>1. DoneVersions' = DoneVersions
      BY <1>2, <2>4 DEF DoneVersions
    <3>2. \A o : HasCopy(o)' <=> HasCopy(o)
      BY <1>2 DEF HasCopy, Local
    <3>3. ASSUME Clean', NEW u \in DoneVersions, OnePage(u), NEW o \in Wanted(u)
          PROVE  HasCopy(o)
      BY <1>2, <2>9, <3>3 DEF CompleteInv, DoneComplete, Complete
    <3> QED
      BY <2>10, <3>1, <3>2, <3>3 DEF DoneComplete, Complete
  <2>12. LackIsToCome'
    <3>1. ASSUME NEW o \in Wanted(v)
          PROVE  ToCome(o)'
      <4>1. IsStrictPrefix(g.path, o)
        BY <2>5 DEF Wanted, Below
      <4>2. Covers(backend, g, o)
        BY <2>5, <4>1 DEF Covers, S3Covers, TreeCovers
      <4>3. 1 \in 1 .. Len(load'.stack)
        BY <2>4
      <4> QED
        BY <1>2, <2>4, <4>2, <4>3 DEF ToCome, Covers
    <3> QED
      BY <2>4, <2>10, <3>1 DEF LackIsToCome
  <2> QED
    BY <2>7, <2>8, <2>11, <2>12 DEF Advances
<1> QED
  BY <1>4, <1>5

\* The last version is done.
LEMMA AllVersionsDoneCovers ==
    ASSUME CompleteInv, AllVersionsDone
    PROVE  Advances
<1>1. /\ load.phase = "versions" /\ load.todo = {} /\ load.stack = <<>> /\ op.kind # "idle"
      /\ UNCHANGED <<backend, remote, calm, failed, copies, temp, op>>
  BY DEF AllVersionsDone, CompleteInv, FilesInv, FoldersOf, Downloading, files
<1>2. load' = [phase |-> "done", todo |-> load.todo, version |-> load.version, result |-> load.result, stack |-> <<>>]
  BY DEF CompleteInv, FilesInv, AllVersionsDone, FoldersOf
<1>3. /\ load'.phase = "done" /\ load'.todo = {} /\ load'.result = load.result /\ load'.stack = <<>>
  BY <1>1, <1>2
<1>4. Shapes'
  <2>1. Len(load'.stack) = 0
    BY <1>3
  <2> QED
    BY <2>1 DEF Shapes
<1>5. InOperation' /\ NoneLeft' /\ LackIsToCome'
  BY <1>1, <1>3 DEF InOperation, NoneLeft, LackIsToCome
<1>6. DoneComplete'
  <2>1. Clean' => Clean
    BY <1>1, <1>3 DEF Clean, Silent
  <2>2. DoneVersions' = DoneVersions
    BY <1>1, <1>3 DEF DoneVersions
  <2>3. \A u : Wanted(u)' = Wanted(u)
    BY <1>1 DEF Wanted, Below, IsDir
  <2>4. \A u : OnePage(u)' <=> OnePage(u)
    BY <1>1 DEF OnePage, Below, Names
  <2>5. \A o : HasCopy(o)' <=> HasCopy(o)
    BY <1>1 DEF HasCopy, Local
  <2>6. ASSUME Clean', NEW u \in DoneVersions, OnePage(u), NEW o \in Wanted(u)
        PROVE  HasCopy(o)
    BY <1>1, <2>1, <2>6 DEF CompleteInv, DoneComplete, Complete
  <2> QED
    BY <2>2, <2>3, <2>4, <2>5, <2>6 DEF DoneComplete, Complete
<1> QED
  BY <1>4, <1>5, <1>6 DEF Advances

\* The operations of the model: a download begins with nothing done, and is over
\* once a version has been loaded with what it brought.
LEMMA OperationCovers ==
    ASSUME CompleteInv,
           \/ \E vs \in SUBSET Versions, fresh \in BOOLEAN : AddVersions(vs, fresh)
           \/ \E vs \in SUBSET Versions, fresh, moved \in BOOLEAN : ReloadVersions(vs, fresh, moved)
           \/ ReloadVersion \/ LoadVersion \/ OperationDone
           \/ \E v \in Versions : RetireVersion(v)
    PROVE  Advances
<1>1. ASSUME NEW vs, NEW fresh, AddVersions(vs, fresh)
      PROVE  Advances
  <2>1. load' = [phase |-> "versions", todo |-> vs, version |-> "", result |-> Ok, stack |-> <<>>]
    BY <1>1 DEF AddVersions, StartDownload, NoLoad
  <2>2. op'.kind = "add" /\ op'.batch = vs
    BY <1>1 DEF AddVersions
  <2>3. load'.phase = "versions" /\ load'.todo = vs /\ load'.stack = <<>>
    BY <2>1
  <2> QED
    BY <2>2, <2>3, ClaimsNothing
<1>2. ASSUME NEW vs, NEW fresh, NEW moved, ReloadVersions(vs, fresh, moved)
      PROVE  Advances
  <2>1. load' = load /\ load.phase = "none" /\ load.stack = <<>>
    BY <1>2 DEF ReloadVersions, CompleteInv, InOperation, FilesInv, FoldersOf
  <2> QED
    BY <2>1, ClaimsNothing
<1>3. CASE ReloadVersion
  <2>1. op' = op /\ op.kind = "reload"
    BY <1>3 DEF ReloadVersion
  <2>2. \/ load' = [phase |-> "versions", todo |-> op.batch, version |-> "", result |-> Ok, stack |-> <<>>]
        \/ load' = [phase |-> "done", todo |-> {}, version |-> "", result |-> Failed, stack |-> <<>>]
    BY <1>3 DEF ReloadVersion, StartDownload, NoLoad
  <2>3. CASE load' = [phase |-> "versions", todo |-> op.batch, version |-> "", result |-> Ok, stack |-> <<>>]
    <3>1. load'.phase = "versions" /\ load'.todo = op.batch /\ load'.stack = <<>>
      BY <2>3
    <3> QED
      BY <2>1, <3>1, ClaimsNothing
  <2>4. CASE load' = [phase |-> "done", todo |-> {}, version |-> "", result |-> Failed, stack |-> <<>>]
    <3>1. load'.phase = "done" /\ load'.result # Ok /\ load'.stack = <<>>
      BY <2>4 DEF Failed, Ok
    <3> QED
      BY <2>1, <3>1, ClaimsNothing
  <2> QED
    BY <2>2, <2>3, <2>4
<1>4. CASE LoadVersion
  <2>1. load.phase = "done" /\ op.kind # "idle" /\ load.stack = <<>>
    BY <1>4 DEF LoadVersion, CompleteInv, InOperation, FilesInv, FoldersOf
  <2>2. op'.kind = op.kind
    <3>1. op' = [op EXCEPT !.todo = Tail(op.todo)]
      BY <1>4 DEF LoadVersion
    <3>2. op' = [kind |-> op.kind, todo |-> Tail(op.todo), batch |-> op.batch, moved |-> op.moved]
      BY <3>1 DEF CompleteInv, FilesInv, Operating
    <3> QED
      BY <3>2
  <2>3. load' = [load EXCEPT !.result = Failed] \/ load' = NoLoad
    BY <1>4 DEF LoadVersion
  <2>4. CASE load' = NoLoad
    BY <2>4, ClaimsNothing DEF NoLoad
  <2>5. CASE load' = [load EXCEPT !.result = Failed]
    <3>1. load' = [phase |-> "done", todo |-> load.todo, version |-> load.version, result |-> Failed, stack |-> <<>>]
      BY <2>1, <2>5 DEF CompleteInv, FilesInv, FoldersOf
    <3>2. load'.phase = "done" /\ load'.result # Ok /\ load'.stack = <<>>
      BY <3>1 DEF Failed, Ok
    <3> QED
      BY <2>1, <2>2, <3>2, ClaimsNothing
  <2> QED
    BY <2>3, <2>4, <2>5
<1>5. CASE OperationDone
  BY <1>5, ClaimsNothing DEF OperationDone, NoLoad
<1>6. ASSUME NEW v, RetireVersion(v)
      PROVE  Advances
  <2>1. load' = load /\ load.phase = "none" /\ load.stack = <<>>
    BY <1>6 DEF RetireVersion, CompleteInv, InOperation, FilesInv, FoldersOf
  <2> QED
    BY <2>1, ClaimsNothing
<1> QED
  BY <1>1, <1>2, <1>3, <1>4, <1>5, <1>6

\* What the owner of the storage does is remembered.
LEMMA ChangeCovers ==
    ASSUME CompleteInv, Change
    PROVE  Advances
<1>1. UNCHANGED <<backend, op, load>> /\ calm' = FALSE
  BY DEF Change
<1>2. Shapes' /\ InOperation' /\ NoneLeft'
  BY <1>1 DEF CompleteInv, Shapes, Shape, InOperation, NoneLeft, Finished
<1>3. ~Clean'
  BY <1>1 DEF Clean
<1>4. DoneComplete' /\ LackIsToCome'
  BY <1>3 DEF DoneComplete, LackIsToCome
<1> QED
  BY <1>2, <1>4 DEF Advances

\* isDirectory of each of the storages.
LEMMA CheckCovers ==
    ASSUME CompleteInv, S3_Check \/ GS_Check \/ AZ_Check \/ AZFS_Check
    PROVE  Advances
<1>1. load.phase = "folder" /\ Same /\ UNCHANGED copies /\ Top.phase = "check"
  BY DEF S3_Check, GS_Check, AZ_Check, AZFS_Check, InFolder
<1>2. PICK f, is : Fault(f, "isDirectory") /\ Checked(is)
  BY DEF S3_Check, GS_Check, AZ_Check, AZFS_Check
<1>3. FolderStep
  BY <1>1, <1>2, FaultIs DEF FolderStep
<1> QED
  BY <1>1, <1>2, <1>3, CheckedCovers

\* Every step of a download keeps track of what is to come.
LEMMA DownloadCovers ==
    ASSUME CompleteInv, Download
    PROVE  Advances
<1>1. CASE S3_GetObject \/ GS_DownloadFile
  BY <1>1, GetFileCovers DEF S3_GetObject, GS_DownloadFile
<1>2. CASE S3_Check \/ GS_Check \/ AZ_Check \/ AZFS_Check
  BY <1>2, CheckCovers
<1>3. CASE S3_List \/ S3_Sort \/ GS_List \/ GS_Sort \/ Sorted \/ AZ_List \/ AZFS_List
  BY <1>3, S3ListCovers, S3SortCovers, GSListCovers, GSSortCovers, SortedCovers, AZListCovers, AZFSListCovers
<1>4. CASE AZ_DownloadFile \/ AZFS_DownloadFile \/ WalkFolder \/ FolderDone
  BY <1>4, AZDownloadCovers, AZFSDownloadCovers, WalkCovers, FolderDoneCovers
<1>5. CASE CreateTempPath \/ NextVersion \/ AllVersionsDone
  BY <1>5, CreateTempPathCovers, NextVersionCovers, AllVersionsDoneCovers
<1> QED
  BY <1>1, <1>2, <1>3, <1>4, <1>5 DEF Download

-----------------------------------------------------------------------------
\* The theorems

\* At first nothing has been copied.
LEMMA FilesInit == Init => FilesInv
<1> SUFFICES ASSUME Init PROVE FilesInv
  OBVIOUS
<1>1. Numbers
  BY FilesAssumption DEF Init, Numbers, States, NoPath
<1>2. Operating
  BY DEF Init, Operating, Idle
<1>3. FoldersOf(load) /\ Downloading
  BY NoFolders DEF Init, NoLoad, Downloading
<1>4. CopiesInPlace /\ CopiesAreTrue
  BY DEF Init, CopiesInPlace, CopiesAreTrue
<1>5. AvailableHasCopy
  BY DEF Init, AvailableHasCopy
<1> QED
  BY <1>1, <1>2, <1>3, <1>4, <1>5 DEF FilesInv

\* The invariant of the copies holds in every reachable state: the directories
\* of a download stay until it ends, and every local file is in the directory
\* of its version.
THEOREM FilesInvariant == Spec => []FilesInv
<1>1. FilesInv /\ [Next]_vars => FilesInv'
  <2> SUFFICES ASSUME FilesInv, [Next]_vars PROVE FilesInv'
    OBVIOUS
  <2>1. CASE UNCHANGED vars
    <3>1. UNCHANGED <<backend, remote, dirs, copies, temp, instance, config>> /\ UNCHANGED <<op, load>>
      BY <2>1 DEF vars
    <3>2. Operating' /\ FoldersOf(load)' /\ Downloading'
      BY <3>1 DEF FilesInv, Operating, Downloading
    <3> QED
      BY <3>1, <3>2, QuietRest DEF FilesInv
  <2>2. CASE Download
    BY <2>2, CreateTempPathKeeps, NextVersionKeeps, AllVersionsDoneKeeps, S3Steps, GSSteps, AzureSteps,
       FileSteps, FolderSteps DEF Download
  <2>3. CASE \E vs \in SUBSET Versions, fresh \in BOOLEAN : AddVersions(vs, fresh)
    BY <2>3, AddVersionsKeeps
  <2>4. CASE \E vs \in SUBSET Versions, fresh, moved \in BOOLEAN : ReloadVersions(vs, fresh, moved)
    BY <2>4, ReloadVersionsKeeps
  <2>5. CASE \E v \in Versions : RetireVersion(v)
    BY <2>5, RetireVersionKeeps
  <2>6. CASE Change \/ ReloadVersion \/ LoadVersion \/ OperationDone
    BY <2>6, ChangeKeeps, ReloadVersionKeeps, LoadVersionKeeps, OperationDoneKeeps
  <2> QED
    BY <2>1, <2>2, <2>3, <2>4, <2>5, <2>6 DEF Next
<1> QED
  BY <1>1, FilesInit, PTL DEF Spec

\* The variables have their types: a local file is below one of the temporary
\* paths that were made, and instances and configuration point to those.
THEOREM FilesTypeCorrect == Spec => []TypeOK
<1>1. FilesInv => TypeOK
  <2> SUFFICES ASSUME FilesInv PROVE TypeOK
    OBVIOUS
  <2>1. load.phase \in {"none", "versions", "folder", "done"}
    BY DEF FilesInv, FoldersOf
  <2>2. \A i \in DOMAIN load.stack : load.stack[i].phase \in {"check", "list", "sort", "walk"}
    <3>1. \A i \in 1 .. Len(load.stack) : load.stack[i].phase \in FolderPhases
      BY DEF FilesInv, FoldersOf, FolderOf
    <3>2. DOMAIN load.stack = 1 .. Len(load.stack)
      BY DEF FilesInv, FoldersOf, IsSeq
    <3> QED
      BY <3>1, <3>2 DEF FolderPhases
  <2>3. \A l \in DOMAIN copies : l[1] \in 1 .. temp /\ l[2] \in Versions
    BY DEF FilesInv, CopiesInPlace
  <2> QED
    BY <2>1, <2>2, <2>3 DEF FilesInv, Numbers, States, TypeOK
<1> QED
  BY <1>1, FilesInvariant, PTL

\* A version that serves has its local copy, whatever other versions are
\* downloaded, fail to load or are retired, and whatever happens to the
\* storage: the file system deletes a temporary directory only when it held
\* nothing but the version that goes.
THEOREM ServingVersionsKeepTheirCopies == Spec => []AvailableHasCopy
<1>1. FilesInv => AvailableHasCopy
  BY DEF FilesInv
<1> QED
  BY <1>1, FilesInvariant, PTL

\* A local file is the copy of the remote file with the same path, but for file
\* shares: downloadFileFolder puts nothing where another file belongs.
THEOREM CopiesHaveTheirPath == Spec => []CopiesAreTrue
<1>1. FilesInv => CopiesAreTrue
  BY DEF FilesInv
<1> QED
  BY <1>1, FilesInvariant, PTL

\* At first nothing is under download.
LEMMA CompleteInit == Init => CompleteInv
<1> SUFFICES ASSUME Init PROVE CompleteInv
  OBVIOUS
<1>1. load.phase = "none" /\ Len(load.stack) = 0
  BY DEF Init, NoLoad
<1>2. Shapes
  BY <1>1 DEF Shapes
<1>3. InOperation /\ NoneLeft /\ DoneComplete /\ LackIsToCome
  BY <1>1 DEF InOperation, NoneLeft, Finished, DoneComplete, LackIsToCome
<1> QED
  BY <1>2, <1>3, FilesInit DEF CompleteInv

\* As long as nothing has failed that the code lets pass, every wanted file of
\* the versions downloaded so far has its copy, and one of the version under
\* download has it or an open folder is going to bring it.
THEOREM DownloadsLoseNothing == Spec => []CompleteInv
<1>1. CompleteInv /\ [Next]_vars => Advances
  <2> SUFFICES ASSUME CompleteInv, [Next]_vars PROVE Advances
    OBVIOUS
  <2>1. CASE UNCHANGED vars
    <3>1. UNCHANGED <<backend, remote, calm, failed, copies, temp>> /\ UNCHANGED <<op, load>>
      BY <2>1 DEF vars, files
    <3>2. Shapes' /\ InOperation' /\ NoneLeft'
      BY <3>1 DEF CompleteInv, Shapes, Shape, InOperation, NoneLeft, Finished
    <3>3. /\ \A v : Wanted(v)' = Wanted(v) /\ (OnePage(v)' <=> OnePage(v))
          /\ \A o : (HasCopy(o)' <=> HasCopy(o)) /\ (ToCome(o)' <=> ToCome(o))
          /\ Clean' <=> Clean
      <4>1. \A v : Wanted(v)' = Wanted(v)
        BY <3>1 DEF Wanted, Below, IsDir
      <4>2. \A v : OnePage(v)' <=> OnePage(v)
        BY <3>1 DEF OnePage, Below, Names
      <4>3. \A o : HasCopy(o)' <=> HasCopy(o)
        BY <3>1 DEF HasCopy, Local
      <4>4. \A o : ToCome(o)' <=> ToCome(o)
        BY <3>1 DEF ToCome, Covers
      <4>5. Clean' <=> Clean
        BY <3>1 DEF Clean, Silent
      <4> QED
        BY <4>1, <4>2, <4>3, <4>4, <4>5
    <3>4. DoneComplete'
      <4>1. DoneVersions' = DoneVersions
        BY <3>1 DEF DoneVersions
      <4> QED
        BY <3>1, <3>3, <4>1 DEF CompleteInv, DoneComplete, Complete
    <3>5. LackIsToCome'
      BY <3>1, <3>3 DEF CompleteInv, LackIsToCome
    <3> QED
      BY <3>2, <3>4, <3>5 DEF Advances
  <2>2. CASE Download
    BY <2>2, DownloadCovers
  <2>3. CASE Change
    BY <2>3, ChangeCovers
  <2>4. CASE \/ \E vs \in SUBSET Versions, fresh \in BOOLEAN : AddVersions(vs, fresh)
             \/ \E vs \in SUBSET Versions, fresh, moved \in BOOLEAN : ReloadVersions(vs, fresh, moved)
             \/ ReloadVersion \/ LoadVersion \/ OperationDone
             \/ \E v \in Versions : RetireVersion(v)
    BY <2>4, OperationCovers
  <2> QED
    BY <2>1, <2>2, <2>3, <2>4 DEF Next
<1>2. CompleteInv /\ [Next]_vars /\ FilesInv' => CompleteInv'
  BY <1>1 DEF Advances, CompleteInv
<1> QED
  BY <1>2, CompleteInit, FilesInvariant, PTL DEF Spec

\* A download that reports success has brought every wanted file of every version,
\* unchanged, from whatever storage and whatever failed on the way, but for the
\* failures that are let pass, folders larger than a page and objects that change
\* meanwhile; and a copy is of the file with its own path.
THEOREM DownloadsComplete == Spec => []DownloadsAreTrue
<1>1. CompleteInv => DownloadsAreTrue
  <2> SUFFICES ASSUME CompleteInv PROVE DownloadsAreTrue
    OBVIOUS
  <2>1. CopiesAreTrue
    BY DEF CompleteInv, FilesInv
  <2>2. SuccessIsComplete
    <3> SUFFICES ASSUME Finished, calm, failed \cap Silent = {}, NEW v \in op.batch, OnePage(v)
                 PROVE  Complete(v)
      BY DEF SuccessIsComplete
    <3>1. Clean /\ load.phase = "done"
      BY DEF Finished, Clean
    <3>2. v \in DoneVersions
      BY <3>1 DEF CompleteInv, NoneLeft, DoneVersions
    <3> QED
      BY <3>1, <3>2 DEF CompleteInv, DoneComplete
  <2> QED
    BY <2>1, <2>2 DEF DownloadsAreTrue
<1> QED
  BY <1>1, DownloadsLoseNothing, PTL
=============================================================================
