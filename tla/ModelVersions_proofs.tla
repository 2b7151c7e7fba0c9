------------------------ MODULE ModelVersions_proofs ------------------------
(***************************************************************************)
(* For all versions, listed in whatever order, and all policies, settings  *)
(* and custom loaders: requests that name no version get the highest       *)
(* available one, the cleaner of idle sequences looks after what serves,   *)
(* and an update retires no version that the policy falls back to, but for *)
(* the versions that failed and std::binary_search overlooked.  It         *)
(* overlooks none when directories are listed in the order of the numbers. *)
(*                                                                         *)
(* None is inductive.  In the middle of an update the default version may  *)
(* be one that has just failed to reload; that it is put right, or         *)
(* overlooked, follows from the failed version being planned for clean-up  *)
(* unless it is still available (Planned, FailedStay), and from those that *)
(* are still available having been overlooked (Missed).  The same plan is  *)
(* what frees the cleaner of a version that it knows by a dropped sequence *)
(* manager (Registrations).                                                *)
(***************************************************************************)
EXTENDS ModelVersions, NaturalsInduction, WellFoundedInduction, FiniteSetTheorems, TLAPS

-----------------------------------------------------------------------------
(***************************************************************************)
(* The inductive invariant                                                 *)
(***************************************************************************)

\* What has failed in this update.
Failed == versionsFailed \cup allFailedVersions

\* Who is being worked on, and in which state.
Working ==
    /\ pc \in {"adding", "reloading"} => current \in Versions /\ status[current] = "LOADING"
    /\ pc = "adding" => registration[current] = "none"
    /\ pc \in {"retiring", "retiringAll"} => current \in Versions /\ status[current] = "UNLOADING"

\* The plan: what is to be started is not registered, what is to be reloaded
\* is, only what failed is struck off what is available, and what is to be
\* retired has neither failed nor is it requested from what is available.
Struck == availableVersions \subseteq disk /\ disk \ availableVersions \subseteq allFailedVersions
Planned ==
    /\ pc \in {"add", "adding"} => toStart \cap Registered = {}
    /\ pc \in {"add", "adding", "reload", "reloading"} => Struck /\ toReload \subseteq Registered
    /\ pc \in {"retire", "retiring"} =>
        /\ Struck
        /\ versionsFailed \subseteq allFailedVersions
        /\ toRetire \cap Filter(policy, availableVersions) \subseteq blacklist
        /\ toRetire \cap allFailedVersions = {}
        /\ pc = "retiring" => current \notin allFailedVersions
    /\ pc \notin {"add", "adding", "reload", "reloading", "retire", "retiring"} => Failed = {}

\* What failed in this update has an instance, which is not unloaded.
FailedStay ==
    \A v \in Failed :
        status[v] \in {"FAILED", "AVAILABLE"} \/ (pc = "reloading" /\ v = current)

\* What failed, has not been loaded since and is still available was overlooked,
\* or will be looked for once more.
Missed ==
    \A v \in allFailedVersions \cap availableVersions :
        LoadFailed(v) =>
            /\ pc \in {"add", "adding", "reload", "reloading"} => v \in overlooked \cup versionsFailed
            /\ pc \in {"retire", "retiring"} /\ toRetire # {} => v \in overlooked

\* The entries of the cleaner.
Registrations ==
    \A v \in Versions :
        /\ status[v] = "absent" => registration[v] = "none"
        /\ registration[v] = "own" => status[v] = "AVAILABLE"
        /\ autoCleanupEnabled /\ status[v] = "AVAILABLE" =>
            \/ registration[v] = "own"
            \/ /\ registration[v] = "old"
               /\ \/ v \in overlooked
                  \/ pc \in {"reload", "reloading"} /\ v \in versionsFailed
                  \/ pc \in {"retire", "retiring"} /\ v \in toCleanup

\* A default version is right but for some versions: it is one of those, or the
\* highest available one among the others.
RightBut(d, st, S) == d \in S \/ d = HighestAvailable(st, S)

\* What has failed, now or before, without having been struck off or loaded.
Suspect == overlooked \cup {v \in Failed : LoadFailed(v)}

\* The default version is right but for these, or will be looked for again
\* before the update ends.
Default ==
    /\ \/ pc = "retiringAll"
       \/ pc \in {"add", "adding", "reload"} /\ RightBut(defaultVersion, status, Suspect)
       \/ pc = "reloading" /\ RightBut(defaultVersion, status, Suspect \cup {current})
       \/ pc = "retire" /\ (toRetire # {} \/ toCleanup # {})
       \/ /\ pc \in {"idle", "retire", "retiring", "retireAll", "cleanupAll"}
          /\ RightBut(defaultVersion, status, overlooked)
    /\ pc # "retiringAll" /\ defaultVersion # 0 => ~WillEndUnloaded(defaultVersion)

\* All of it.
VersionsInv == TypeOK /\ Working /\ Planned /\ FailedStay /\ Missed /\ Registrations /\ Default

-----------------------------------------------------------------------------
(***************************************************************************)
(* The operators                                                           *)
(***************************************************************************)

\* A nonempty set of naturals has a least element.
LEMMA LeastNatural ==
    ASSUME NEW T \in SUBSET Nat, T # {}
    PROVE  \E x \in T : \A y \in T : x <= y
<1> DEFINE R == OpToRel(<, Nat)
<1>1. PICK x \in T : \A y \in T : <<y, x>> \notin R
    BY NatLessThanWellFounded, WFMin, Zenon
<1>2. \A y \in T : ~(y < x)
    BY <1>1 DEF OpToRel
<1> QED BY <1>2

\* Version numbers are positive.
LEMMA VersionsArePositive == Versions \subseteq Nat \ {0}
  BY VersionsAssumption DEF Versions, Range

\* Finitely many naturals are bounded.
LEMMA ListIsBounded ==
    ASSUME NEW N \in Nat, NEW f \in [1 .. N -> Nat]
    PROVE  \E b \in Nat : \A i \in 1 .. N : f[i] <= b
<1> DEFINE Bounded(n) == \E b \in Nat : \A i \in 1 .. n : f[i] <= b
           T == {n \in 0 .. N : ~Bounded(n)}
<1>1. SUFFICES ASSUME ~Bounded(N) PROVE FALSE
    OBVIOUS
<1>2. T \in SUBSET Nat /\ N \in T
    BY <1>1
<1>3. PICK n \in T : \A m \in T : n <= m
  <2> HIDE DEF T
  <2> QED BY <1>2, LeastNatural
<1>4. n \in Nat /\ n <= N /\ ~Bounded(n)
    OBVIOUS
<1>5. n # 0
  <2>1. 0 \in Nat /\ \A i \in 1 .. 0 : f[i] <= 0
    OBVIOUS
  <2> QED BY <1>4, <2>1
<1>6. Bounded(n - 1)
  <2>1. n - 1 \in 0 .. N /\ ~(n <= n - 1)
    BY <1>4, <1>5
  <2>2. n - 1 \notin T
    BY <1>3, <2>1
  <2> QED BY <2>1, <2>2
<1>7. PICK b \in Nat : \A i \in 1 .. (n - 1) : f[i] <= b
    BY <1>6
<1>8. PICK c \in Nat : c = f[n]
    BY <1>4, <1>5
<1>9. ASSUME NEW i \in 1 .. n PROVE f[i] <= b + c
  <2>1. CASE i = n
    BY <1>8, <2>1
  <2>2. CASE i # n
    <3>1. i \in 1 .. (n - 1) /\ f[i] \in Nat
      BY <1>4, <2>2
    <3>2. f[i] <= b
      BY <1>7, <3>1
    <3> QED BY <3>1, <3>2
  <2> QED BY <2>1, <2>2
<1>10. b + c \in Nat
    OBVIOUS
<1> QED
    BY <1>4, <1>9, <1>10

\* The listing is finite, so that version numbers are bounded.
LEMMA VersionsAreBounded == \E b \in Nat : \A v \in Versions : v <= b
<1>1. Len(DirOrder) \in Nat /\ DOMAIN DirOrder = 1 .. Len(DirOrder)
      /\ DirOrder \in [1 .. Len(DirOrder) -> Nat]
    BY VersionsAssumption
<1>2. PICK b \in Nat : \A i \in 1 .. Len(DirOrder) : DirOrder[i] <= b
    BY <1>1, ListIsBounded
<1> QED
    BY <1>1, <1>2 DEF Versions, Range

\* ... and that there are finitely many of them.
LEMMA VersionsAreFinite == IsFiniteSet(Versions)
<1>1. PICK b \in Nat : \A v \in Versions : v <= b
    BY VersionsAreBounded
<1>2. Versions \subseteq 0 .. b
    BY <1>1, VersionsArePositive
<1>3. IsFiniteSet(0 .. b)
    BY FS_Interval
<1> QED
    BY <1>2, <1>3, FS_Subset

\* The least of some versions is among them.
LEMMA MinIsOne ==
    ASSUME NEW S \in SUBSET Versions, S # {}
    PROVE  Min(S) \in S
<1>1. S \in SUBSET Nat
    BY VersionsArePositive
<1>2. PICK x \in S : \A y \in S : x <= y
    BY <1>1, LeastNatural
<1> QED
    BY <1>2 DEF Min

\* Some versions have a greatest one.
LEMMA HasGreatest ==
    ASSUME NEW S \in SUBSET Versions, S # {}
    PROVE  \E x \in S : \A y \in S : x >= y
<1> DEFINE T == {b \in Nat : \A v \in S : v <= b}
<1>1. S \in SUBSET Nat
    BY VersionsArePositive
<1>2. T \in SUBSET Nat /\ T # {}
    BY VersionsAreBounded
<1>3. PICK m \in T : \A b \in T : m <= b
  <2> HIDE DEF T
  <2> QED BY <1>2, LeastNatural
<1>4. m \in Nat /\ \A v \in S : v <= m
    OBVIOUS
<1>5. m \in S
  <2>1. SUFFICES ASSUME m \notin S PROVE FALSE
    OBVIOUS
  <2>2. \A v \in S : v < m
    BY <1>1, <1>4, <2>1
  <2>3. PICK w \in S : w < m
    BY <2>2
  <2>4. m - 1 \in Nat /\ \A v \in S : v <= m - 1
    BY <1>1, <1>4, <2>2, <2>3
  <2>5. m - 1 \in T
    BY <2>4
  <2> QED BY <1>3, <1>4, <2>5
<1> QED
    BY <1>1, <1>4, <1>5

\* ... which is the one that is found.
LEMMA MaxIsOne ==
    ASSUME NEW S \in SUBSET Versions, S # {}
    PROVE  Max(S) \in S
<1>1. PICK x \in S : \A y \in S : x >= y
    BY HasGreatest
<1> QED
    BY <1>1 DEF Max

\* A version found by updateDefaultVersion is available and not ignored.
LEMMA HighestIsAvailable ==
    ASSUME NEW st, NEW ignored, HighestAvailable(st, ignored) # 0
    PROVE  /\ HighestAvailable(st, ignored) \in Versions \ ignored
           /\ st[HighestAvailable(st, ignored)] = "AVAILABLE"
<1> DEFINE C == {v \in Versions \ ignored : st[v] = "AVAILABLE"}
<1>1. C # {} /\ HighestAvailable(st, ignored) = Max(C)
    BY DEF HighestAvailable
<1>2. Max(C) \in C
  <2>1. C \in SUBSET Versions
    OBVIOUS
  <2> HIDE DEF C
  <2> QED BY <1>1, <2>1, MaxIsOne
<1> QED
    BY <1>1, <1>2

\* To ignore a version is to look as if it were not available.
LEMMA HighestIgnores ==
    ASSUME NEW st, NEW st2, NEW v \in Versions, st2[v] # "AVAILABLE",
           \A w \in Versions \ {v} : st2[w] = st[w]
    PROVE  HighestAvailable(st, {v}) = HighestAvailable(st2, {})
<1> DEFINE C == {w \in Versions \ {v} : st[w] = "AVAILABLE"}
           C2 == {w \in Versions \ {} : st2[w] = "AVAILABLE"}
<1>1. C = C2
    OBVIOUS
<1>2. /\ HighestAvailable(st, {v}) = IF C = {} THEN 0 ELSE Max(C)
      /\ HighestAvailable(st2, {}) = IF C2 = {} THEN 0 ELSE Max(C2)
    BY DEF HighestAvailable
<1> HIDE DEF C, C2
<1> QED
    BY <1>1, <1>2

\* The greatest of some versions is the greatest of those among them that it
\* belongs to.
LEMMA MaxOfFewer ==
    ASSUME NEW S \in SUBSET Versions, NEW T \in SUBSET S, S # {}, Max(S) \in T
    PROVE  Max(T) = Max(S)
<1>1. S \in SUBSET Nat
    BY VersionsArePositive
<1>2. Max(S) \in S /\ \A y \in S : Max(S) >= y
  <2>1. Max(S) \in S
    BY MaxIsOne
  <2>2. PICK x \in S : \A y \in S : x >= y
    BY HasGreatest
  <2> QED BY <2>1, <2>2 DEF Max
<1>3. ASSUME NEW x \in T, \A y \in T : x >= y PROVE x = Max(S)
  <2>1. x \in Nat /\ Max(S) \in Nat /\ x >= Max(S) /\ Max(S) >= x
    BY <1>1, <1>2, <1>3
  <2> QED BY <2>1
<1>4. \E x \in T : \A y \in T : x >= y
    BY <1>2
<1> QED
    BY <1>3, <1>4 DEF Max

\* A default version that is right stays so when more versions are left out,
\* and whatever becomes of those.
LEMMA StaysRight ==
    ASSUME NEW d, NEW st, NEW st2, NEW S \in SUBSET Versions, NEW T, S \subseteq T,
           RightBut(d, st, S),
           \A w \in Versions \ T : st2[w] = "AVAILABLE" <=> st[w] = "AVAILABLE"
    PROVE  RightBut(d, st2, T)
<1> DEFINE C == {w \in Versions \ S : st[w] = "AVAILABLE"}
           C2 == {w \in Versions \ T : st2[w] = "AVAILABLE"}
<1>1. SUFFICES ASSUME d \notin T PROVE d = HighestAvailable(st2, T)
    BY DEF RightBut
<1>2. d = IF C = {} THEN 0 ELSE Max(C)
    BY <1>1 DEF RightBut, HighestAvailable
<1>3. HighestAvailable(st2, T) = IF C2 = {} THEN 0 ELSE Max(C2)
    BY DEF HighestAvailable
<1>4. C2 = C \ T /\ C \in SUBSET Versions
    OBVIOUS
<1> HIDE DEF C, C2
<1>5. CASE C = {}
    BY <1>2, <1>3, <1>4, <1>5
<1>6. CASE C # {}
  <2>1. d = Max(C) /\ d \in C
    BY <1>2, <1>4, <1>6, MaxIsOne
  <2>2. d \in C2 /\ C2 \in SUBSET C
    BY <1>1, <1>4, <2>1
  <2>3. Max(C2) = Max(C)
    BY <1>4, <1>6, <2>1, <2>2, MaxOfFewer
  <2> QED BY <1>3, <2>1, <2>2, <2>3
<1> QED
    BY <1>5, <1>6

\* The highest available version is right whatever is left out.
LEMMA HighestIsRight ==
    ASSUME NEW d, NEW st, NEW T, d = HighestAvailable(st, {})
    PROVE  RightBut(d, st, T)
<1>1. RightBut(d, st, {})
    BY DEF RightBut
<1>2. PICK S \in SUBSET Versions : S = {}
    OBVIOUS
<1> QED
    BY <1>1, <1>2, StaysRight

\* A policy asks only for what is available.
LEMMA FilterSelects ==
    ASSUME NEW p \in Policies, NEW versions
    PROVE  Filter(p, versions) \subseteq versions
<1>1. p.kind \in {"all", "specific", "latest"}
    BY PoliciesAssumption
<1> QED
    BY <1>1 DEF Filter

\* A version that a policy asks for is asked for when there are fewer others.
LEMMA FilterOfFewer ==
    ASSUME NEW p \in Policies, NEW B \in SUBSET Versions, NEW A \in SUBSET B, NEW v \in A,
           v \in Filter(p, B)
    PROVE  v \in Filter(p, A)
<1>1. CASE p.kind = "all"
    BY <1>1 DEF Filter
<1>2. CASE p.kind = "specific"
    BY <1>2 DEF Filter
<1>3. CASE p.kind = "latest"
  <2> DEFINE Above(S) == {w \in S : w > v}
  <2>1. Cardinality(Above(B)) < p.num /\ p.num \in Nat
    BY <1>3, PoliciesAssumption DEF Filter
  <2>2. IsFiniteSet(Above(B)) /\ Above(A) \subseteq Above(B)
    BY VersionsAreFinite, FS_Subset
  <2>3. Cardinality(Above(A)) <= Cardinality(Above(B))
        /\ Cardinality(Above(A)) \in Nat /\ Cardinality(Above(B)) \in Nat
    <3> HIDE DEF Above
    <3> QED BY <2>2, FS_Subset, FS_CardinalityType
  <2>4. Cardinality(Above(A)) < p.num
    <3> HIDE DEF Above
    <3> QED BY <2>1, <2>3
  <2> QED BY <1>3, <2>4 DEF Filter
<1>4. p.kind \in {"all", "specific", "latest"}
    BY PoliciesAssumption
<1> QED
    BY <1>1, <1>2, <1>3, <1>4

\* What getVersionsToChange plans.
LEMMA Plan ==
    ASSUME TypeOK, NEW available \in SUBSET Versions
    PROVE  /\ VersionsToStart(available) \subseteq available \ Registered
           /\ VersionsToReload(available) \subseteq available \cap Registered
           /\ VersionsToRetire(available) \subseteq Versions
           /\ VersionsToRetire(available) \cap Filter(policy, available) \subseteq blacklist
           /\ \A v \in Registered \ available : ~WillEndUnloaded(v) => v \in VersionsToRetire(available)
<1>1. Requested(available) \subseteq Filter(policy, available)
      /\ Filter(policy, available) \ blacklist \subseteq Requested(available)
    BY DEF Requested
<1>2. Filter(policy, available) \subseteq available
    BY FilterSelects DEF TypeOK
<1> QED
    BY <1>1, <1>2 DEF VersionsToStart, VersionsToReload, VersionsToRetire, Registered

\* In a listing in numeric order every failed version is found.
LEMMA FailedAreFound ==
    ASSUME Ordered(Versions), NEW available \in SUBSET Versions, NEW failed
    PROVE  RemoveFailed(available, failed) = {available \ failed}
<1>1. Ordered(available)
    BY DEF Ordered
<1> QED
    BY <1>1 DEF RemoveFailed

-----------------------------------------------------------------------------
(***************************************************************************)
(* The steps                                                               *)
(***************************************************************************)

\* The initial states satisfy the invariant.
LEMMA VersionsInitial == Init => VersionsInv
<1> SUFFICES ASSUME Init PROVE VersionsInv
    OBVIOUS
<1>1. TypeOK
    BY LoaderAssumption, CleanupsAssumption DEF Init, TypeOK, States, PCs
<1>2. RightBut(defaultVersion, status, overlooked)
  <2>1. HighestAvailable(status, {}) = 0
    BY HighestIsAvailable DEF Init
  <2> QED BY <2>1, HighestIsRight DEF Init
<1>3. Working /\ Planned /\ FailedStay /\ Missed /\ Registrations /\ Default
    BY <1>2 DEF Init, Working, Planned, FailedStay, Missed, Registrations, Default, Failed
<1> QED BY <1>1, <1>3 DEF VersionsInv

\* The operator acts between the updates, on what no conjunct is about then.
LEMMA OperatorKeeps ==
    ASSUME VersionsInv, OperatorStep
    PROVE  VersionsInv'
<1>1. /\ pc = "idle" /\ pc' = pc /\ current' = current /\ status' = status /\ defaultVersion' = defaultVersion
      /\ autoCleanupEnabled' = autoCleanupEnabled /\ registration' = registration
      /\ loadedParams' = loadedParams /\ availableVersions' = availableVersions
      /\ toStart' = toStart /\ toReload' = toReload /\ toRetire' = toRetire /\ toCleanup' = toCleanup
      /\ versionsFailed' = versionsFailed /\ allFailedVersions' = allFailedVersions
      /\ overlooked' = overlooked
    BY DEF OperatorStep, cleaner, lists
<1>2. /\ disk' \subseteq Versions /\ blacklist' \subseteq Versions
      /\ policy' \in Policies /\ params' \in Params
      /\ entry' \in {"served", "removed", "invalid"} /\ loader' \in LoaderStates
    BY RefusableAssumption DEF OperatorStep, VersionsInv, TypeOK
<1>3. TypeOK'
    BY <1>1, <1>2 DEF VersionsInv, TypeOK
<1>4. Working' /\ Planned' /\ FailedStay' /\ Missed' /\ Registrations'
    BY <1>1 DEF VersionsInv, Working, Planned, FailedStay, Missed, Registrations, Failed
<1>5. Default'
    BY <1>1 DEF VersionsInv, Default, WillEndUnloaded
<1> QED BY <1>3, <1>4, <1>5 DEF VersionsInv

\* The first plan is made of what is on the disk.
LEMMA BeginKeeps ==
    ASSUME VersionsInv, BeginUpdate
    PROVE  VersionsInv'
<1> USE DEF VersionsInv
<1>0. /\ pc = "idle" /\ pc' = "add" /\ current' = current /\ status' = status
      /\ defaultVersion' = defaultVersion
      /\ autoCleanupEnabled' = autoCleanupEnabled /\ registration' = registration
      /\ loadedParams' = loadedParams /\ availableVersions' = disk
      /\ toCleanup' = toCleanup /\ disk' = disk
      /\ versionsFailed' = versionsFailed /\ allFailedVersions' = allFailedVersions
      /\ overlooked' = overlooked
    BY DEF BeginUpdate, cleaner, operator
<1>1. /\ toStart' \subseteq disk \ Registered
      /\ toReload' \subseteq disk \cap Registered
      /\ toRetire' \subseteq Versions
    BY Plan DEF TypeOK, BeginUpdate
<1>2. TypeOK'
    BY <1>0, <1>1 DEF BeginUpdate, operator, TypeOK, PCs
<1>3. Failed = {} /\ Failed' = {} /\ Registered' = Registered
    BY <1>0 DEF Planned, Failed, Registered
<1>4. Working' /\ Planned' /\ FailedStay' /\ Missed'
  <2>1. Planned'
    <3>1. allFailedVersions' = {}
      BY <1>3 DEF Failed
    <3> QED BY <1>0, <1>1, <1>3, <3>1 DEF Planned, Struck
  <2> QED BY <1>0, <1>3, <2>1 DEF Working, FailedStay, Missed, Failed
<1>5. Registrations'
    BY <1>0 DEF Registrations
<1>6. Default'
  <2>1. Suspect' = overlooked
    BY <1>0, <1>3 DEF Suspect
  <2> QED BY <1>0, <2>1 DEF Default, WillEndUnloaded
<1> QED BY <1>2, <1>4, <1>5, <1>6

\* A version that is not registered is added: it was not available before and
\* is not now.
LEMMA AddKeeps ==
    ASSUME VersionsInv, AddVersion
    PROVE  VersionsInv'
<1> USE DEF VersionsInv
<1>0. /\ pc = "add" /\ pc' = "adding" /\ defaultVersion' = defaultVersion
      /\ autoCleanupEnabled' = autoCleanupEnabled /\ registration' = registration
      /\ loadedParams' = loadedParams /\ availableVersions' = availableVersions
      /\ toStart' = toStart \ {current'} /\ toReload' = toReload /\ toRetire' = toRetire
      /\ toCleanup' = toCleanup /\ disk' = disk
      /\ versionsFailed' = versionsFailed /\ allFailedVersions' = allFailedVersions
      /\ overlooked' = overlooked
      /\ status' = [status EXCEPT ![current'] = "LOADING"]
    BY DEF AddVersion, SetStatus, cleaner, operator
<1>1. current' \in toStart
    BY MinIsOne DEF AddVersion, TypeOK
<1>2. TypeOK'
    BY <1>0, <1>1 DEF AddVersion, operator, TypeOK, PCs, States
<1>3. /\ current' \in Versions /\ status[current'] = "absent" /\ current' \notin Registered
      /\ status'[current'] = "LOADING"
      /\ \A v \in Versions \ {current'} : status'[v] = status[v]
    BY <1>0, <1>1 DEF TypeOK, Planned, Registered
<1>4. Registered' = Registered \cup {current'} /\ Failed' = Failed
    BY <1>0, <1>3 DEF Registered, Failed
<1>5. current' \notin Failed /\ Failed \subseteq Versions
    BY <1>0, <1>3 DEF FailedStay, TypeOK, Failed
<1>6. Working'
    BY <1>0, <1>3 DEF Working, Registrations
<1>7. Planned'
    BY <1>0, <1>3, <1>4 DEF Planned, Struck
<1>8. FailedStay'
    BY <1>0, <1>3, <1>4, <1>5 DEF FailedStay
<1>11. Missed'
    BY <1>0, <1>3 DEF Missed, LoadFailed, Registrations, TypeOK
<1>9. Registrations'
    BY <1>0, <1>3 DEF Registrations
<1>10. Default'
  <2>1. Suspect' = Suspect
    BY <1>0, <1>3, <1>4, <1>5 DEF Suspect, LoadFailed
  <2>2. Suspect \in SUBSET Versions
    BY <1>5 DEF Suspect, TypeOK
  <2>3. \A w \in Versions \ Suspect : status'[w] = "AVAILABLE" <=> status[w] = "AVAILABLE"
    BY <1>3
  <2>4. RightBut(defaultVersion, status, Suspect)
    BY <1>0 DEF Default
  <2>5. RightBut(defaultVersion, status', Suspect)
    BY <2>2, <2>3, <2>4, StaysRight
  <2> QED BY <1>0, <1>3, <2>1, <2>5 DEF Default, WillEndUnloaded, TypeOK
<1> QED BY <1>2, <1>6, <1>7, <1>8, <1>9, <1>10, <1>11

\* A version that is reloaded stops serving, and the cleaner forgets it.
LEMMA ReloadKeeps ==
    ASSUME VersionsInv, ReloadVersion
    PROVE  VersionsInv'
<1> USE DEF VersionsInv
<1>0. /\ pc = "reload" /\ pc' = "reloading" /\ defaultVersion' = defaultVersion
      /\ autoCleanupEnabled' = autoCleanupEnabled
      /\ loadedParams' = loadedParams /\ availableVersions' = availableVersions
      /\ toStart' = toStart /\ toReload' = toReload \ {current'} /\ toRetire' = toRetire
      /\ toCleanup' = toCleanup /\ disk' = disk
      /\ versionsFailed' = versionsFailed /\ allFailedVersions' = allFailedVersions
      /\ overlooked' = overlooked
      /\ status' = [status EXCEPT ![current'] = "LOADING"]
      /\ IF status[current'] = "AVAILABLE" THEN registration' = [registration EXCEPT ![current'] = "none"]
         ELSE registration' = registration
    BY DEF ReloadVersion, SetStatus, Register, cleaner, operator
<1>1. current' \in toReload
    BY MinIsOne DEF ReloadVersion, TypeOK
<1>2. TypeOK'
    BY <1>0, <1>1 DEF ReloadVersion, operator, TypeOK, PCs, States
<1>3. /\ current' \in Versions /\ current' \in Registered
      /\ status'[current'] = "LOADING" /\ registration'[current'] # "own"
      /\ \A v \in Versions \ {current'} : status'[v] = status[v] /\ registration'[v] = registration[v]
    BY <1>0, <1>1 DEF TypeOK, Planned, Registrations
<1>4. Registered' = Registered /\ Failed' = Failed /\ Failed \subseteq Versions
    BY <1>0, <1>3 DEF Registered, Failed, TypeOK
<1>5. Working'
    BY <1>0, <1>3 DEF Working
<1>6. Planned'
    BY <1>0, <1>3, <1>4 DEF Planned, Struck
<1>7. FailedStay'
    BY <1>0, <1>3, <1>4 DEF FailedStay
<1>10. Missed'
    BY <1>0, <1>3 DEF Missed, LoadFailed, TypeOK
<1>8. Registrations'
    BY <1>0, <1>3 DEF Registrations
<1>9. Default'
  <2> DEFINE T == Suspect' \cup {current'}
  <2>1. T = Suspect \cup {current'}
    BY <1>0, <1>3, <1>4 DEF Suspect, LoadFailed
  <2>2. Suspect \in SUBSET Versions /\ Suspect \subseteq T
    BY <1>4, <2>1 DEF Suspect, TypeOK
  <2>3. \A w \in Versions \ T : status'[w] = "AVAILABLE" <=> status[w] = "AVAILABLE"
    BY <1>3
  <2>4. RightBut(defaultVersion, status, Suspect)
    BY <1>0 DEF Default
  <2>5. RightBut(defaultVersion, status', T)
    BY <2>2, <2>3, <2>4, StaysRight
  <2> QED BY <1>0, <1>3, <2>5 DEF Default, WillEndUnloaded, TypeOK
<1> QED BY <1>2, <1>5, <1>6, <1>7, <1>8, <1>9, <1>10

\* What the end of a load changes, whatever its outcome.
LEMMA LoadChanges ==
    ASSUME VersionsInv, NEW s \in {"AVAILABLE", "FAILED"}, LoadEnds(s)
    PROVE  /\ pc \in {"adding", "reloading"} /\ current \in Versions /\ current' = 0
           /\ pc = "adding" => pc' = "add"
           /\ pc = "reloading" => pc' = "reload"
           /\ status[current] = "LOADING" /\ status'[current] = s
           /\ \A v \in Versions \ {current} : status'[v] = status[v]
           /\ Registered' = Registered /\ current \in Registered
           /\ status' \in [Versions -> States] /\ loadedParams' \in [Versions -> Params]
           /\ pc' \in PCs
<1> USE DEF VersionsInv
<1>1. /\ pc \in {"adding", "reloading"} /\ current \in Versions /\ current' = 0
      /\ pc = "adding" => pc' = "add"
      /\ pc = "reloading" => pc' = "reload"
      /\ status[current] = "LOADING"
      /\ status' = [status EXCEPT ![current] = s]
      /\ loadedParams' = [loadedParams EXCEPT ![current] = params]
    BY DEF LoadEnds, SetStatus, Working
<1>2. /\ status'[current] = s /\ \A v \in Versions \ {current} : status'[v] = status[v]
      /\ status' \in [Versions -> States] /\ loadedParams' \in [Versions -> Params]
    BY <1>1 DEF TypeOK, States
<1>3. Registered' = Registered /\ current \in Registered
    BY <1>1, <1>2 DEF Registered
<1> QED BY <1>1, <1>2, <1>3 DEF PCs

\* A loaded version is registered with the cleaner and counts for the default.
LEMMA LoadSucceedsKeeps ==
    ASSUME VersionsInv, LoadSucceeds
    PROVE  VersionsInv'
<1> USE DEF VersionsInv
<1>0. /\ autoCleanupEnabled' = autoCleanupEnabled /\ availableVersions' = availableVersions
      /\ toStart' = toStart /\ toReload' = toReload /\ toRetire' = toRetire
      /\ toCleanup' = toCleanup /\ disk' = disk /\ blacklist' = blacklist /\ policy' = policy
      /\ params' = params /\ entry' = entry /\ loader' = loader
      /\ versionsFailed' = versionsFailed /\ allFailedVersions' = allFailedVersions
      /\ overlooked' = overlooked \ {current}
      /\ registration' = [registration EXCEPT ![current] = IF autoCleanupEnabled THEN "own" ELSE "none"]
      /\ registration[current] = "none"
      /\ defaultVersion' = HighestAvailable(status', {})
    BY DEF LoadSucceeds, RegisterLoaded, Register, operator, lists
<1>1. LoadEnds("AVAILABLE")
    BY DEF LoadSucceeds
<1>2. PICK s \in {"AVAILABLE", "FAILED"} : s = "AVAILABLE"
    OBVIOUS
<1>3. /\ pc \in {"adding", "reloading"} /\ current \in Versions /\ current' = 0
      /\ pc = "adding" => pc' = "add"
      /\ pc = "reloading" => pc' = "reload"
      /\ status'[current] = "AVAILABLE"
      /\ \A v \in Versions \ {current} : status'[v] = status[v]
      /\ Registered' = Registered /\ current \in Registered
      /\ status' \in [Versions -> States] /\ loadedParams' \in [Versions -> Params]
      /\ pc' \in PCs
    BY <1>1, <1>2, LoadChanges
<1>4. /\ registration'[current] = IF autoCleanupEnabled THEN "own" ELSE "none"
      /\ \A v \in Versions \ {current} : registration'[v] = registration[v]
    BY <1>0, <1>3 DEF TypeOK
<1>5. defaultVersion' # 0 => defaultVersion' \in Versions /\ status'[defaultVersion'] = "AVAILABLE"
    BY <1>0, HighestIsAvailable
<1>6. TypeOK'
  <2>1. registration' \in [Versions -> IF autoCleanupEnabled THEN {"none", "own", "old"} ELSE {"none"}]
    BY <1>0, <1>3 DEF TypeOK
  <2> QED BY <1>0, <1>3, <1>5, <2>1 DEF TypeOK
<1>7. Failed' = Failed /\ Failed \subseteq Versions
    BY <1>0, <1>3 DEF Failed, Planned, TypeOK
<1>8. Working'
    BY <1>3 DEF Working
<1>9. Planned'
    BY <1>0, <1>3, <1>7 DEF Planned, Struck
<1>10. FailedStay'
    BY <1>3, <1>4, <1>7 DEF FailedStay
<1>13. Missed'
    BY <1>0, <1>3, <1>4 DEF Missed, LoadFailed, TypeOK
<1>11. Registrations'
    BY <1>0, <1>3, <1>4 DEF Registrations
<1>12. Default'
  <2>1. RightBut(defaultVersion', status', Suspect')
    BY <1>0, HighestIsRight
  <2> QED BY <1>3, <1>5, <2>1 DEF Default, WillEndUnloaded
<1> QED BY <1>6, <1>8, <1>9, <1>10, <1>11, <1>12, <1>13

\* What a load that counts as failed changes.
LEMMA FailureKeeps ==
    ASSUME VersionsInv, NEW s \in {"AVAILABLE", "FAILED"}, LoadEnds(s),
           s = "AVAILABLE" => registration[current] # "none",
           versionsFailed' = versionsFailed \cup {current},
           UNCHANGED <<cleaner, operator, defaultVersion, availableVersions, toStart, toReload, toRetire,
                       toCleanup, allFailedVersions, overlooked>>
    PROVE  VersionsInv'
<1> USE DEF VersionsInv
<1>0. /\ autoCleanupEnabled' = autoCleanupEnabled /\ availableVersions' = availableVersions
      /\ toStart' = toStart /\ toReload' = toReload /\ toRetire' = toRetire
      /\ toCleanup' = toCleanup /\ disk' = disk /\ blacklist' = blacklist /\ policy' = policy
      /\ params' = params /\ entry' = entry /\ loader' = loader
      /\ allFailedVersions' = allFailedVersions /\ overlooked' = overlooked
      /\ registration' = registration /\ defaultVersion' = defaultVersion
    BY DEF operator, cleaner
<1>1. /\ pc \in {"adding", "reloading"} /\ current \in Versions /\ current' = 0
      /\ pc = "adding" => pc' = "add"
      /\ pc = "reloading" => pc' = "reload"
      /\ status[current] = "LOADING" /\ status'[current] = s
      /\ \A v \in Versions \ {current} : status'[v] = status[v]
      /\ Registered' = Registered /\ current \in Registered
      /\ status' \in [Versions -> States] /\ loadedParams' \in [Versions -> Params]
      /\ pc' \in PCs
    BY LoadChanges
<1>2. TypeOK'
    BY <1>0, <1>1 DEF TypeOK
<1>3. s = "AVAILABLE" => pc = "reloading" /\ registration[current] = "old"
    BY <1>1 DEF Working, Registrations, TypeOK
<1>4. Failed' = Failed \cup {current} /\ Failed \subseteq Versions
    BY <1>0, <1>1 DEF Failed, Planned, TypeOK
<1>5. Working'
    BY <1>1 DEF Working
<1>6. Planned'
    BY <1>0, <1>1, <1>4 DEF Planned, Struck
<1>7. FailedStay'
    BY <1>0, <1>1, <1>3, <1>4 DEF FailedStay
<1>10. Missed'
    BY <1>0, <1>1 DEF Missed, LoadFailed, TypeOK
<1>8. Registrations'
    BY <1>0, <1>1, <1>3 DEF Registrations
<1>9. Default'
  <2>1. defaultVersion # 0 => ~WillEndUnloaded(defaultVersion)'
    BY <1>0, <1>1 DEF Default, WillEndUnloaded, TypeOK
  <2>2. Suspect' = Suspect \cup {current}
    BY <1>0, <1>1, <1>3, <1>4 DEF Suspect, LoadFailed
  <2>3. Suspect \in SUBSET Versions /\ Suspect' \in SUBSET Versions /\ Suspect \subseteq Suspect'
    BY <1>1, <1>4, <2>2 DEF Suspect, TypeOK
  <2>4. \A w \in Versions \ Suspect' : status'[w] = "AVAILABLE" <=> status[w] = "AVAILABLE"
    BY <1>1, <2>2
  <2>5. RightBut(defaultVersion, status, Suspect) \/ RightBut(defaultVersion, status, Suspect')
    BY <1>1, <2>2 DEF Default
  <2>6. RightBut(defaultVersion, status', Suspect')
    BY <2>3, <2>4, <2>5, StaysRight
  <2> QED BY <1>0, <1>1, <2>1, <2>6 DEF Default
<1> QED BY <1>2, <1>5, <1>6, <1>7, <1>8, <1>9, <1>10

\* A load that fails, and one whose registration fails.
LEMMA LoadFailsKeeps ==
    ASSUME VersionsInv, LoadFails \/ RegistrationFails
    PROVE  VersionsInv'
<1>1. CASE LoadFails
  <2>1. PICK s \in {"AVAILABLE", "FAILED"} : s = "FAILED"
    OBVIOUS
  <2>2. LoadEnds(s)
    BY <1>1, <2>1 DEF LoadFails
  <2> QED BY <1>1, <2>1, <2>2, FailureKeeps DEF LoadFails
<1>2. CASE RegistrationFails
  <2>1. PICK s \in {"AVAILABLE", "FAILED"} : s = "AVAILABLE"
    OBVIOUS
  <2>2. LoadEnds(s)
    BY <1>2, <2>1 DEF RegistrationFails
  <2> QED BY <1>2, <2>1, <2>2, FailureKeeps DEF RegistrationFails
<1> QED BY <1>1, <1>2

\* What RemoveFailed leaves: of the available versions, all but some that failed.
LEMMA FailedAreRemoved ==
    ASSUME NEW left, NEW failed, NEW available \in RemoveFailed(left, failed)
    PROVE  available \subseteq left /\ left \ available \subseteq failed
  BY DEF RemoveFailed

\* What failed is struck off or overlooked.
LEMMA EndOfPassKeeps ==
    ASSUME VersionsInv, EndOfPass
    PROVE  VersionsInv'
<1> USE DEF VersionsInv
<1>0. /\ pc = "add" /\ pc' \in {"add", "reload"} /\ current' = current /\ status' = status
      /\ defaultVersion' = defaultVersion /\ toCleanup' = toCleanup
      /\ autoCleanupEnabled' = autoCleanupEnabled /\ registration' = registration
      /\ loadedParams' = loadedParams /\ disk' = disk /\ blacklist' = blacklist /\ policy' = policy
      /\ params' = params /\ entry' = entry /\ loader' = loader
    BY DEF EndOfPass, cleaner, operator, lists
<1>1. /\ availableVersions' \subseteq availableVersions
      /\ availableVersions \ availableVersions' \subseteq allFailedVersions'
      /\ allFailedVersions \subseteq allFailedVersions'
      /\ toStart' \subseteq Versions \ Registered
      /\ toReload' \subseteq Registered
      /\ toRetire' \subseteq Versions
      /\ Failed' = Failed
      /\ versionsFailed' \subseteq Versions /\ allFailedVersions' \subseteq Versions
      /\ overlooked \subseteq overlooked'
      /\ overlooked' \subseteq overlooked \cup {v \in Failed : LoadFailed(v)}
      /\ \A v \in allFailedVersions' \cap availableVersions' :
            LoadFailed(v) => v \in overlooked' \cup versionsFailed'
  <2>0. /\ availableVersions \subseteq Versions /\ versionsFailed \subseteq Versions
        /\ allFailedVersions \subseteq Versions
        /\ \A v \in allFailedVersions \cap availableVersions :
              LoadFailed(v) => v \in overlooked \cup versionsFailed
    BY <1>0 DEF TypeOK, Missed
  <2>1. CASE versionsFailed = {}
    <3>1. lists' = lists /\ toStart = {} /\ overlooked' = overlooked
      BY <2>1 DEF EndOfPass
    <3> QED BY <1>0, <2>0, <3>1 DEF lists, Planned, Failed, TypeOK
  <2>2. CASE versionsFailed # {}
    <3>1. PICK available \in RemoveFailed(availableVersions, versionsFailed) :
            /\ availableVersions' = available
            /\ overlooked' = overlooked \cup {v \in versionsFailed \cap available : LoadFailed(v)}
            /\ allFailedVersions' = allFailedVersions \cup versionsFailed
            /\ toStart' = VersionsToStart(available)
            /\ toReload' = VersionsToReload(available)
            /\ toRetire' = VersionsToRetire(available)
            /\ versionsFailed' \in {versionsFailed, {}}
      BY <2>2 DEF EndOfPass, Overlook
    <3>2. available \subseteq availableVersions /\ availableVersions \ available \subseteq versionsFailed
      BY FailedAreRemoved
    <3>3. available \in SUBSET Versions
      BY <2>0, <3>2
    <3>4. Failed' = Failed
      BY <3>1 DEF Failed
    <3>5. /\ VersionsToStart(available) \subseteq available \ Registered
          /\ VersionsToReload(available) \subseteq available \cap Registered
          /\ VersionsToRetire(available) \subseteq Versions
      BY <3>3, Plan
    <3>6. \A v \in allFailedVersions' \cap available : LoadFailed(v) => v \in overlooked'
      BY <2>0, <3>1, <3>2
    <3>7. overlooked' \subseteq overlooked \cup {v \in Failed : LoadFailed(v)}
      BY <3>1 DEF Failed
    <3>8. versionsFailed' \subseteq Versions /\ allFailedVersions' \subseteq Versions
      BY <2>0, <3>1
    <3>9. toStart' \subseteq Versions \ Registered /\ toReload' \subseteq Registered
      BY <3>1, <3>3, <3>5
    <3> QED BY <3>1, <3>2, <3>4, <3>5, <3>6, <3>7, <3>8, <3>9
  <2> QED BY <2>1, <2>2
<1>2. TypeOK'
  <2>1. toStart' \subseteq Versions /\ toReload' \subseteq Versions /\ toCleanup' \subseteq Versions
        /\ overlooked' \subseteq Versions /\ availableVersions' \subseteq Versions
    BY <1>0, <1>1 DEF TypeOK, Registered, Failed
  <2> QED BY <1>0, <1>1, <2>1 DEF TypeOK, PCs
<1>3. Registered' = Registered
    BY <1>0 DEF Registered
<1>4. Working'
    BY <1>0 DEF Working
<1>5. Planned'
    BY <1>0, <1>1, <1>3 DEF Planned, Struck
<1>6. FailedStay'
    BY <1>0, <1>1 DEF FailedStay
<1>7. Registrations'
    BY <1>0, <1>1 DEF Registrations
<1>8. Missed'
    BY <1>0, <1>1 DEF Missed, LoadFailed
<1>9. Default'
  <2>1. Suspect' = Suspect
    BY <1>0, <1>1 DEF Suspect, LoadFailed
  <2> QED BY <1>0, <2>1 DEF Default, WillEndUnloaded
<1> QED BY <1>2, <1>4, <1>5, <1>6, <1>7, <1>8, <1>9

\* Every version that failed is cleaned up or overlooked, none of them is retired.
LEMMA RefreshKeeps ==
    ASSUME VersionsInv, Refresh
    PROVE  VersionsInv'
<1> USE DEF VersionsInv
<1>0. /\ pc = "reload" /\ pc' = "retire" /\ current' = current /\ status' = status
      /\ defaultVersion' = defaultVersion /\ toStart' = {} /\ toReload' = toReload
      /\ autoCleanupEnabled' = autoCleanupEnabled /\ registration' = registration
      /\ loadedParams' = loadedParams /\ disk' = disk /\ blacklist' = blacklist /\ policy' = policy
      /\ params' = params /\ entry' = entry /\ loader' = loader
      /\ versionsFailed' = versionsFailed
      /\ allFailedVersions' = allFailedVersions \cup versionsFailed
    BY DEF Refresh, cleaner, operator
<1>1. PICK available \in RemoveFailed(availableVersions, versionsFailed) :
        /\ availableVersions' = available
        /\ overlooked' = overlooked \cup {v \in versionsFailed \cap available : LoadFailed(v)}
        /\ toRetire' = VersionsToRetire(available) \ allFailedVersions'
        /\ toCleanup' = VersionsToRetire(available) \cap allFailedVersions'
    BY DEF Refresh, Overlook
<1>2. available \subseteq availableVersions /\ availableVersions \ available \subseteq versionsFailed
    BY FailedAreRemoved
<1>3. available \in SUBSET Versions
    BY <1>2 DEF TypeOK
<1>4. Failed' = Failed /\ Failed' = allFailedVersions'
    BY <1>0 DEF Failed
<1>5. /\ VersionsToRetire(available) \subseteq Versions
      /\ VersionsToRetire(available) \cap Filter(policy, available) \subseteq blacklist
      /\ \A v \in Registered \ available : ~WillEndUnloaded(v) => v \in VersionsToRetire(available)
    BY <1>3, Plan
<1>6. TypeOK'
    BY <1>0, <1>1, <1>3, <1>5 DEF TypeOK, PCs
<1>7. \A v \in allFailedVersions' \cap available : LoadFailed(v) => v \in overlooked'
    BY <1>0, <1>1, <1>2 DEF Missed
<1>13. \A v \in Failed : LoadFailed(v) => v \in overlooked' \cup toCleanup'
  <2>1. SUFFICES ASSUME NEW v \in Failed, LoadFailed(v), v \notin overlooked' PROVE v \in toCleanup'
    OBVIOUS
  <2>2. v \in Versions /\ v \in Registered /\ ~WillEndUnloaded(v)
    BY <1>0 DEF FailedStay, Registered, WillEndUnloaded, Failed, TypeOK
  <2>3. v \in allFailedVersions' /\ v \notin available
    BY <1>4, <1>7, <2>1
  <2> QED BY <1>1, <1>5, <2>2, <2>3
<1>8. Working'
    BY <1>0 DEF Working
<1>9. Planned'
  <2>1. toRetire' \cap Filter(policy', availableVersions') \subseteq blacklist'
    BY <1>0, <1>1, <1>5
  <2>2. Struck'
    BY <1>0, <1>1, <1>2 DEF Planned, Struck
  <2> QED BY <1>0, <1>1, <2>1, <2>2 DEF Planned
<1>10. FailedStay'
    BY <1>0, <1>4 DEF FailedStay
<1>14. Missed'
    BY <1>0, <1>1, <1>7 DEF Missed, LoadFailed
<1>11. Registrations'
    BY <1>0, <1>1, <1>13 DEF Registrations, Failed, LoadFailed
<1>12. Default'
  <2>1. defaultVersion # 0 => ~WillEndUnloaded(defaultVersion)'
    BY <1>0 DEF Default, WillEndUnloaded
  <2>2. CASE toRetire' # {} \/ toCleanup' # {}
    BY <1>0, <2>1, <2>2 DEF Default
  <2>3. CASE toRetire' = {} /\ toCleanup' = {}
    <3>1. Suspect = overlooked'
      BY <1>1, <1>13, <2>3 DEF Suspect, Failed
    <3>2. RightBut(defaultVersion, status, Suspect)
      BY <1>0 DEF Default
    <3> QED BY <1>0, <2>1, <3>1, <3>2 DEF Default
  <2> QED BY <2>2, <2>3
<1> QED BY <1>6, <1>8, <1>9, <1>10, <1>11, <1>12, <1>14

\* The default version has moved away when a version is retired.
LEMMA RetireKeeps ==
    ASSUME VersionsInv, RetireVersion
    PROVE  VersionsInv'
<1> USE DEF VersionsInv
<1>0. /\ pc = "retire" /\ pc' = "retiring" /\ defaultVersion' = HighestAvailable(status, {current'})
      /\ autoCleanupEnabled' = autoCleanupEnabled
      /\ registration' = [registration EXCEPT ![current'] = "none"]
      /\ loadedParams' = loadedParams /\ availableVersions' = availableVersions
      /\ toStart' = toStart /\ toReload' = toReload /\ toRetire' = toRetire \ {current'}
      /\ toCleanup' = toCleanup /\ disk' = disk /\ blacklist' = blacklist /\ policy' = policy
      /\ params' = params /\ entry' = entry /\ loader' = loader
      /\ versionsFailed' = versionsFailed /\ allFailedVersions' = allFailedVersions
      /\ overlooked' = overlooked \ {current'}
      /\ status' = [status EXCEPT ![current'] = "UNLOADING"]
    BY DEF RetireVersion, SetStatus, Register, operator
<1>1. current' \in toRetire
    BY MinIsOne DEF RetireVersion, TypeOK
<1>2. /\ current' \in Versions /\ status'[current'] = "UNLOADING" /\ registration'[current'] = "none"
      /\ \A v \in Versions \ {current'} : status'[v] = status[v] /\ registration'[v] = registration[v]
    BY <1>0, <1>1 DEF TypeOK
<1>3. /\ defaultVersion' = HighestAvailable(status', {})
      /\ defaultVersion' # 0 => defaultVersion' \in Versions \ {current'} /\ status[defaultVersion'] = "AVAILABLE"
  <2>1. status'[current'] # "AVAILABLE" /\ \A w \in Versions \ {current'} : status'[w] = status[w]
    BY <1>2
  <2>2. HighestAvailable(status, {current'}) = HighestAvailable(status', {})
    BY <1>2, <2>1, HighestIgnores
  <2> QED BY <1>0, <2>2, HighestIsAvailable
<1>4. TypeOK'
    BY <1>0, <1>1, <1>2, <1>3 DEF TypeOK, PCs, States
<1>5. Failed' = Failed /\ Failed = allFailedVersions /\ current' \notin Failed /\ Failed \subseteq Versions
    BY <1>0, <1>1 DEF Failed, Planned, TypeOK
<1>6. Working'
    BY <1>0, <1>2 DEF Working
<1>7. Planned'
    BY <1>0, <1>1, <1>5 DEF Planned, Struck
<1>8. FailedStay'
    BY <1>0, <1>2, <1>5 DEF FailedStay
<1>11. Missed'
    BY <1>0, <1>1, <1>2, <1>5 DEF Missed, LoadFailed, TypeOK
<1>9. Registrations'
    BY <1>0, <1>2 DEF Registrations
<1>10. Default'
  <2>1. RightBut(defaultVersion', status', overlooked')
    BY <1>3, HighestIsRight
  <2> QED BY <1>0, <1>2, <1>3, <2>1 DEF Default, WillEndUnloaded
<1> QED BY <1>4, <1>6, <1>7, <1>8, <1>9, <1>10, <1>11

\* A retirement ends; the version was not available any more.
LEMMA RetireEndsKeeps ==
    ASSUME VersionsInv, RetireEnds
    PROVE  VersionsInv'
<1> USE DEF VersionsInv
<1>0. /\ pc \in {"retiring", "retiringAll"} /\ current' = 0
      /\ pc = "retiring" => pc' = "retire" /\ defaultVersion' = defaultVersion
      /\ pc = "retiringAll" => pc' = "retireAll" /\ defaultVersion' = HighestAvailable(status', {})
      /\ autoCleanupEnabled' = autoCleanupEnabled /\ registration' = registration
      /\ loadedParams' = loadedParams /\ availableVersions' = availableVersions
      /\ toStart' = toStart /\ toReload' = toReload /\ toRetire' = toRetire
      /\ toCleanup' = toCleanup /\ disk' = disk /\ blacklist' = blacklist /\ policy' = policy
      /\ params' = params /\ entry' = entry /\ loader' = loader
      /\ versionsFailed' = versionsFailed /\ allFailedVersions' = allFailedVersions
      /\ overlooked' = overlooked
      /\ status' = [status EXCEPT ![current] = "END"]
    BY DEF RetireEnds, SetStatus, cleaner, operator, lists
<1>1. current \in Versions /\ status[current] = "UNLOADING"
    BY <1>0 DEF Working
<1>2. /\ status'[current] = "END"
      /\ \A v \in Versions \ {current} : status'[v] = status[v]
    BY <1>0, <1>1 DEF TypeOK
<1>3. RightBut(defaultVersion', status', overlooked')
  <2>1. CASE pc = "retiring"
    <3>1. RightBut(defaultVersion, status, overlooked) /\ overlooked \in SUBSET Versions
      BY <2>1 DEF Default, TypeOK
    <3>2. \A w \in Versions \ overlooked : status'[w] = "AVAILABLE" <=> status[w] = "AVAILABLE"
      BY <1>1, <1>2
    <3>3. RightBut(defaultVersion, status', overlooked)
      BY <3>1, <3>2, StaysRight
    <3> QED BY <1>0, <2>1, <3>3
  <2>2. CASE pc = "retiringAll"
    BY <1>0, <2>2, HighestIsRight
  <2> QED BY <1>0, <2>1, <2>2
<1>4. defaultVersion' # 0 => defaultVersion' \in Versions /\ status'[defaultVersion'] \notin {"UNLOADING", "END"}
  <2>1. CASE pc = "retiring"
    <3>1. defaultVersion # 0 => defaultVersion \in Versions /\ status[defaultVersion] \notin {"UNLOADING", "END"}
      BY <2>1 DEF Default, WillEndUnloaded, TypeOK
    <3>2. defaultVersion' = defaultVersion
      BY <1>0, <2>1
    <3> QED BY <1>1, <1>2, <3>1, <3>2
  <2>2. CASE pc = "retiringAll"
    <3>1. defaultVersion' = HighestAvailable(status', {})
      BY <1>0, <2>2
    <3>2. defaultVersion' # 0 => defaultVersion' \in Versions /\ status'[defaultVersion'] = "AVAILABLE"
      BY <3>1, HighestIsAvailable
    <3> QED BY <3>2
  <2> QED BY <1>0, <2>1, <2>2
<1>5. TypeOK'
    BY <1>0, <1>1, <1>4 DEF TypeOK, PCs, States
<1>6. Failed' = Failed /\ current \notin Failed /\ Failed \subseteq Versions
    BY <1>0, <1>1 DEF Failed, FailedStay, TypeOK
<1>7. Working'
    BY <1>0 DEF Working
<1>8. Planned'
    BY <1>0, <1>6 DEF Planned, Struck
<1>9. FailedStay'
    BY <1>0, <1>2, <1>6 DEF FailedStay
<1>12. Missed'
    BY <1>0, <1>2, <1>6 DEF Missed, LoadFailed, Failed
<1>10. Registrations'
    BY <1>0, <1>1, <1>2 DEF Registrations
<1>11. Default'
    BY <1>0, <1>3, <1>4 DEF Default, WillEndUnloaded
<1> QED BY <1>5, <1>7, <1>8, <1>9, <1>10, <1>11, <1>12

\* A clean-up takes the version out of what is available, and leaves no
\* entry of the cleaner that would be taken for its own.
LEMMA CleanupKeeps ==
    ASSUME VersionsInv, CleanupVersion
    PROVE  VersionsInv'
<1> USE DEF VersionsInv
<1>0. PICK v : v = Min(toCleanup)
    OBVIOUS
<1>1. /\ pc = "retire" /\ pc' = pc /\ current' = current /\ defaultVersion' = HighestAvailable(status, {v})
      /\ autoCleanupEnabled' = autoCleanupEnabled
      /\ registration' = [registration EXCEPT ![v] = IF registration[v] = "own" THEN "old" ELSE registration[v]]
      /\ loadedParams' = loadedParams /\ availableVersions' = availableVersions
      /\ toStart' = toStart /\ toReload' = toReload /\ toRetire' = toRetire
      /\ toCleanup' = toCleanup \ {v} /\ disk' = disk /\ blacklist' = blacklist /\ policy' = policy
      /\ params' = params /\ entry' = entry /\ loader' = loader
      /\ versionsFailed' = versionsFailed /\ allFailedVersions' = allFailedVersions
      /\ overlooked' = overlooked \ {v}
      /\ status' = [status EXCEPT ![v] = "FAILED"]
    BY <1>0 DEF CleanupVersion, SetStatus, DropSequences, Register, operator
<1>2. v \in toCleanup /\ v \in Versions /\ toRetire = {}
    BY <1>0, MinIsOne DEF CleanupVersion, TypeOK
<1>3. /\ status'[v] = "FAILED"
      /\ registration'[v] = IF registration[v] = "own" THEN "old" ELSE registration[v]
      /\ \A w \in Versions \ {v} : status'[w] = status[w] /\ registration'[w] = registration[w]
    BY <1>1, <1>2 DEF TypeOK
<1>4. /\ defaultVersion' = HighestAvailable(status', {})
      /\ defaultVersion' # 0 => defaultVersion' \in Versions /\ status'[defaultVersion'] = "AVAILABLE"
  <2>1. status'[v] # "AVAILABLE" /\ \A w \in Versions \ {v} : status'[w] = status[w]
    BY <1>3
  <2>2. HighestAvailable(status, {v}) = HighestAvailable(status', {})
    BY <1>2, <2>1, HighestIgnores
  <2>3. defaultVersion' = HighestAvailable(status', {})
    BY <1>1, <2>2
  <2> QED BY <2>3, HighestIsAvailable
<1>5. registration[v] = "own" => autoCleanupEnabled
    BY <1>2 DEF TypeOK
<1>6. TypeOK'
  <2>1. registration' \in [Versions -> IF autoCleanupEnabled THEN {"none", "own", "old"} ELSE {"none"}]
    BY <1>1, <1>2, <1>5 DEF TypeOK
  <2> QED BY <1>1, <1>2, <1>4, <2>1 DEF TypeOK, PCs, States
<1>7. Failed' = Failed /\ Failed \subseteq Versions
    BY <1>1 DEF Failed, TypeOK
<1>8. Working'
    BY <1>1 DEF Working
<1>9. Planned'
    BY <1>1, <1>7 DEF Planned, Struck
<1>10. FailedStay'
    BY <1>1, <1>3, <1>7 DEF FailedStay
<1>13. Missed'
    BY <1>1, <1>2 DEF Missed
<1>11. Registrations'
    BY <1>1, <1>3 DEF Registrations
<1>12. Default'
  <2>1. RightBut(defaultVersion', status', overlooked')
    BY <1>4, HighestIsRight
  <2> QED BY <1>1, <1>4, <2>1 DEF Default, WillEndUnloaded
<1> QED BY <1>6, <1>8, <1>9, <1>10, <1>11, <1>12, <1>13

\* The update ends with nothing left to retire or to clean up.
LEMMA EndUpdateKeeps ==
    ASSUME VersionsInv, EndUpdate
    PROVE  VersionsInv'
<1> USE DEF VersionsInv
<1>0. /\ pc = "retire" /\ pc' = "idle" /\ toRetire = {} /\ toCleanup = {}
      /\ availableVersions' = {} /\ versionsFailed' = {} /\ allFailedVersions' = {}
      /\ overlooked' = overlooked
      /\ current' = current /\ status' = status /\ defaultVersion' = defaultVersion
      /\ autoCleanupEnabled' = autoCleanupEnabled /\ registration' = registration
      /\ loadedParams' = loadedParams
      /\ toStart' = toStart /\ toReload' = toReload /\ toRetire' = toRetire /\ toCleanup' = toCleanup
      /\ disk' = disk /\ blacklist' = blacklist /\ policy' = policy
      /\ params' = params /\ entry' = entry /\ loader' = loader
    BY DEF EndUpdate, cleaner, operator
<1>1. TypeOK'
    BY <1>0 DEF TypeOK, PCs
<1>2. Failed' = {}
    BY <1>0 DEF Failed
<1>3. Working' /\ FailedStay' /\ Missed'
    BY <1>0, <1>2 DEF Working, FailedStay, Missed
<1>4. Planned'
    BY <1>0, <1>2 DEF Planned
<1>5. Registrations'
    BY <1>0 DEF Registrations
<1>6. Default'
    BY <1>0 DEF Default, WillEndUnloaded
<1> QED BY <1>1, <1>3, <1>4, <1>5, <1>6

\* retireAllVersions and cleanupAllVersions begin and end between updates.
LEMMA AllKeeps ==
    ASSUME VersionsInv, BeginRetireAll \/ EndRetireAll
    PROVE  VersionsInv'
<1> USE DEF VersionsInv
<1>0. /\ pc \in {"idle", "retireAll", "cleanupAll"} /\ pc' \in {"idle", "retireAll", "cleanupAll"}
      /\ current' = current /\ status' = status /\ defaultVersion' = defaultVersion
      /\ autoCleanupEnabled' = autoCleanupEnabled /\ registration' = registration
      /\ loadedParams' = loadedParams /\ availableVersions' = availableVersions
      /\ toStart' = toStart /\ toReload' = toReload /\ toCleanup' = toCleanup
      /\ toRetire' \in {toRetire, Registered}
      /\ versionsFailed' = versionsFailed /\ allFailedVersions' = allFailedVersions
      /\ overlooked' = overlooked
      /\ disk' = disk /\ blacklist' = blacklist /\ policy' = policy
      /\ params' = params /\ entry' = entry /\ loader' = loader
    BY DEF BeginRetireAll, EndRetireAll, cleaner, operator, lists
<1>1. TypeOK'
    BY <1>0 DEF TypeOK, PCs, Registered
<1>2. Failed' = {} /\ Failed = {}
    BY <1>0 DEF Failed, Planned
<1>3. Working' /\ FailedStay' /\ Missed'
    BY <1>0, <1>2 DEF Working, FailedStay, Missed, Failed
<1>4. Planned'
    BY <1>0, <1>2 DEF Planned
<1>5. Registrations'
    BY <1>0 DEF Registrations
<1>6. Default'
    BY <1>0 DEF Default, WillEndUnloaded
<1> QED BY <1>1, <1>3, <1>4, <1>5, <1>6

\* One version of all is retired.
LEMMA RetireNextKeeps ==
    ASSUME VersionsInv, RetireNext
    PROVE  VersionsInv'
<1> USE DEF VersionsInv
<1>0. /\ pc = "retireAll" /\ pc' = "retiringAll" /\ defaultVersion' = defaultVersion
      /\ autoCleanupEnabled' = autoCleanupEnabled
      /\ registration' = [registration EXCEPT ![current'] = "none"]
      /\ loadedParams' = loadedParams /\ availableVersions' = availableVersions
      /\ toStart' = toStart /\ toReload' = toReload /\ toRetire' = toRetire \ {current'}
      /\ toCleanup' = toCleanup /\ disk' = disk /\ blacklist' = blacklist /\ policy' = policy
      /\ params' = params /\ entry' = entry /\ loader' = loader
      /\ versionsFailed' = versionsFailed /\ allFailedVersions' = allFailedVersions
      /\ overlooked' = overlooked \ {current'}
      /\ status' = [status EXCEPT ![current'] = "UNLOADING"]
    BY DEF RetireNext, SetStatus, Register, operator
<1>1. current' \in Versions
    BY MinIsOne DEF RetireNext, TypeOK
<1>2. /\ status'[current'] = "UNLOADING" /\ registration'[current'] = "none"
      /\ \A v \in Versions \ {current'} : status'[v] = status[v] /\ registration'[v] = registration[v]
    BY <1>0, <1>1 DEF TypeOK
<1>3. TypeOK'
    BY <1>0, <1>1 DEF TypeOK, PCs, States
<1>4. Failed' = {} /\ Failed = {}
    BY <1>0 DEF Failed, Planned
<1>5. Working' /\ FailedStay' /\ Missed'
    BY <1>0, <1>1, <1>2, <1>4 DEF Working, FailedStay, Missed, Failed
<1>6. Planned'
    BY <1>0, <1>4 DEF Planned
<1>7. Registrations'
    BY <1>0, <1>2 DEF Registrations
<1>8. Default'
    BY <1>0 DEF Default
<1> QED BY <1>3, <1>5, <1>6, <1>7, <1>8

\* One version of all is cleaned up, and the default version looked for again.
LEMMA CleanupNextKeeps ==
    ASSUME VersionsInv, CleanupNext
    PROVE  VersionsInv'
<1> USE DEF VersionsInv
<1>0. PICK v : v = Min(toRetire)
    OBVIOUS
<1>1. /\ pc = "cleanupAll" /\ pc' = pc /\ current' = current /\ defaultVersion' = HighestAvailable(status', {})
      /\ autoCleanupEnabled' = autoCleanupEnabled
      /\ registration' = [registration EXCEPT ![v] = IF registration[v] = "own" THEN "old" ELSE registration[v]]
      /\ loadedParams' = loadedParams /\ availableVersions' = availableVersions
      /\ toStart' = toStart /\ toReload' = toReload /\ toRetire' = toRetire \ {v}
      /\ toCleanup' = toCleanup /\ disk' = disk /\ blacklist' = blacklist /\ policy' = policy
      /\ params' = params /\ entry' = entry /\ loader' = loader
      /\ versionsFailed' = versionsFailed /\ allFailedVersions' = allFailedVersions
      /\ overlooked' = overlooked \ {v}
      /\ status' = [status EXCEPT ![v] = "FAILED"]
    BY <1>0 DEF CleanupNext, SetStatus, DropSequences, Register, operator
<1>2. v \in Versions
    BY <1>0, MinIsOne DEF CleanupNext, TypeOK
<1>3. /\ status'[v] = "FAILED"
      /\ registration'[v] = IF registration[v] = "own" THEN "old" ELSE registration[v]
      /\ \A w \in Versions \ {v} : status'[w] = status[w] /\ registration'[w] = registration[w]
    BY <1>1, <1>2 DEF TypeOK
<1>4. defaultVersion' # 0 => defaultVersion' \in Versions /\ status'[defaultVersion'] = "AVAILABLE"
    BY <1>1, HighestIsAvailable
<1>5. TypeOK'
  <2>1. registration[v] = "own" => autoCleanupEnabled
    BY <1>2 DEF TypeOK
  <2>2. registration' \in [Versions -> IF autoCleanupEnabled THEN {"none", "own", "old"} ELSE {"none"}]
    BY <1>1, <1>2, <2>1 DEF TypeOK
  <2> QED BY <1>1, <1>2, <1>4, <2>2 DEF TypeOK, PCs, States
<1>6. Failed' = {} /\ Failed = {}
    BY <1>1 DEF Failed, Planned
<1>7. Working' /\ FailedStay' /\ Missed'
    BY <1>1, <1>6 DEF Working, FailedStay, Missed, Failed
<1>8. Planned'
    BY <1>1, <1>6 DEF Planned
<1>9. Registrations'
    BY <1>1, <1>3 DEF Registrations
<1>10. Default'
  <2>1. RightBut(defaultVersion', status', overlooked')
    BY <1>1, HighestIsRight
  <2> QED BY <1>1, <1>4, <2>1 DEF Default, WillEndUnloaded
<1> QED BY <1>5, <1>7, <1>8, <1>9, <1>10

\* Stuttering.
LEMMA StutterKeeps ==
    ASSUME VersionsInv, UNCHANGED vars
    PROVE  VersionsInv'
<1>1. TypeOK' /\ Working' /\ Planned' /\ FailedStay' /\ Missed' /\ Registrations' /\ Default'
    BY DEF VersionsInv, vars, TypeOK, Working, Planned, Struck, FailedStay, Missed, Registrations, Default,
           Suspect, LoadFailed, RightBut, HighestAvailable, Failed, Registered, WillEndUnloaded
<1> QED BY <1>1 DEF VersionsInv

-----------------------------------------------------------------------------
(***************************************************************************)
(* The theorems                                                            *)
(***************************************************************************)

\* The invariant holds throughout, in whatever order the directories are listed
\* (reloadModelWithVersions, which searches the listing with std::binary_search
\* and may overlook versions that failed to load).
THEOREM VersionsInvariant ==
    Spec => []VersionsInv
<1>1. ASSUME VersionsInv, [Next]_vars PROVE VersionsInv'
  <2>1. CASE UNCHANGED vars
    BY <1>1, <2>1, StutterKeeps
  <2>2. CASE OperatorStep
    BY <1>1, <2>2, OperatorKeeps
  <2>3. CASE BeginUpdate
    BY <1>1, <2>3, BeginKeeps
  <2>4. CASE AddVersion
    BY <1>1, <2>4, AddKeeps
  <2>5. CASE ReloadVersion
    BY <1>1, <2>5, ReloadKeeps
  <2>6. CASE LoadSucceeds
    BY <1>1, <2>6, LoadSucceedsKeeps
  <2>7. CASE LoadFails \/ RegistrationFails
    BY <1>1, <2>7, LoadFailsKeeps
  <2>8. CASE EndOfPass
    BY <1>1, <2>8, EndOfPassKeeps
  <2>9. CASE Refresh
    BY <1>1, <2>9, RefreshKeeps
  <2>10. CASE RetireVersion
    BY <1>1, <2>10, RetireKeeps
  <2>11. CASE RetireEnds
    BY <1>1, <2>11, RetireEndsKeeps
  <2>12. CASE CleanupVersion
    BY <1>1, <2>12, CleanupKeeps
  <2>13. CASE EndUpdate
    BY <1>1, <2>13, EndUpdateKeeps
  <2>14. CASE BeginRetireAll \/ EndRetireAll
    BY <1>1, <2>14, AllKeeps
  <2>15. CASE RetireNext
    BY <1>1, <2>15, RetireNextKeeps
  <2>16. CASE CleanupNext
    BY <1>1, <2>16, CleanupNextKeeps
  <2> QED
    BY <1>1, <2>1, <2>2, <2>3, <2>4, <2>5, <2>6, <2>7, <2>8, <2>9, <2>10, <2>11, <2>12, <2>13,
       <2>14, <2>15, <2>16, Zenon DEF Next, Update
<1> QED
    BY <1>1, VersionsInitial, PTL DEF Spec

\* Between updates a request that names no version gets the highest available
\* one, and during an update never one that is being unloaded; the exceptions
\* are versions that failed to load and were overlooked (Model::
\* updateDefaultVersion and its callers).
THEOREM DefaultVersionIsServed ==
    Spec => []DefaultIsServed
<1>1. VersionsInv => DefaultIsServed
    BY DEF VersionsInv, Default, RightBut, DefaultIsServed
<1> QED
    BY <1>1, VersionsInvariant, PTL

\* The cleaner of idle sequences knows every version that serves, and between
\* updates by the sequence manager that requests use unless the version was
\* overlooked (StatefulModelInstance::loadModel, reloadModel, retireModel,
\* cleanupFailedLoad).
THEOREM WhatServesIsCleaned ==
    Spec => []CleanedWhenServed
<1>1. VersionsInv => CleanedWhenServed
    BY DEF VersionsInv, Registrations, CleanedWhenServed
<1> QED
    BY <1>1, VersionsInvariant, PTL

\* An update retires an available version only if the policy does not ask for
\* it once the versions that have just failed, and were not overlooked, are left
\* out (reloadModelWithVersions, Model::retireVersions).
THEOREM RetiredVersionsAreReplaced ==
    Spec => RetiresOnlyReplaced
<1> DEFINE Replaced == \A v \in Versions :
               pc = "retire" /\ status[v] = "AVAILABLE" /\ status'[v] = "UNLOADING" => ~Fallback(v)
<1>1. ASSUME VersionsInv, [Next]_vars PROVE Replaced
  <2>1. SUFFICES ASSUME NEW v \in Versions,
                        pc = "retire", status[v] = "AVAILABLE", status'[v] = "UNLOADING"
                 PROVE  ~Fallback(v)
    OBVIOUS
  <2>2. RetireVersion
    <3>1. CASE UNCHANGED vars
      BY <2>1, <3>1 DEF vars
    <3>2. CASE CleanupVersion
      <4>1. status' = [status EXCEPT ![Min(toCleanup)] = "FAILED"]
        BY <3>2 DEF CleanupVersion, SetStatus
      <4> QED BY <1>1, <2>1, <4>1 DEF VersionsInv, TypeOK
    <3>3. CASE EndUpdate
      BY <2>1, <3>3 DEF EndUpdate
    <3> QED
      BY <1>1, <2>1, <3>1, <3>2, <3>3
         DEF Next, Update, OperatorStep, BeginUpdate, AddVersion, ReloadVersion, LoadSucceeds, LoadFails,
             RegistrationFails, LoadEnds, EndOfPass, Refresh, RetireEnds, BeginRetireAll, RetireNext,
             CleanupNext, EndRetireAll
  <2>3. v \in toRetire
    <3>1. current' \in toRetire /\ status' = [status EXCEPT ![current'] = "UNLOADING"]
      BY <1>1, <2>2, MinIsOne DEF RetireVersion, SetStatus, VersionsInv, TypeOK
    <3> QED BY <1>1, <2>1, <3>1 DEF VersionsInv, TypeOK
  <2> DEFINE known == disk \ {w \in allFailedVersions \ overlooked : LoadFailed(w)}
  <2>4. availableVersions \subseteq known /\ known \in SUBSET Versions
    BY <1>1, <2>1, <2>3 DEF VersionsInv, Planned, Struck, Missed, TypeOK
  <2>5. SUFFICES ASSUME v \in Filter(policy, known), v \notin blacklist PROVE FALSE
    BY DEF Fallback
  <2>6. policy \in Policies /\ v \in known
    BY <1>1, <2>4, <2>5, FilterSelects DEF VersionsInv, TypeOK
  <2>7. v \in availableVersions
    BY <1>1, <2>1, <2>3, <2>6 DEF VersionsInv, Planned, Struck
  <2>8. v \in Filter(policy, availableVersions)
    <3> HIDE DEF known
    <3> QED BY <2>4, <2>5, <2>6, <2>7, FilterOfFewer
  <2> QED
    BY <1>1, <2>1, <2>3, <2>5, <2>8 DEF VersionsInv, Planned
<1>2. VersionsInv /\ [Next]_vars => [Replaced]_vars
    BY <1>1
<1> QED
    BY <1>2, VersionsInvariant, PTL DEF Spec, RetiresOnlyReplaced

\* No version is ever overlooked when directories are listed in the order of
\* the version numbers, as they are while all numbers have as many digits: the
\* exceptions of the three properties need listings such as 10, 9.
THEOREM InOrderNothingIsOverlooked ==
    ASSUME Ordered(Versions)
    PROVE  Spec => [](overlooked = {})
<1> DEFINE None == overlooked = {}
<1>1. Init => None
    BY DEF Init
<1>2. ASSUME VersionsInv, None, [Next]_vars PROVE None'
  <2>1. ASSUME NEW available \in RemoveFailed(availableVersions, versionsFailed)
        PROVE  versionsFailed \cap available = {}
    <3>1. RemoveFailed(availableVersions, versionsFailed) = {availableVersions \ versionsFailed}
      BY <1>2, FailedAreFound DEF VersionsInv, TypeOK
    <3> QED BY <2>1, <3>1
  <2>2. CASE EndOfPass \/ Refresh
    BY <1>2, <2>1, <2>2 DEF EndOfPass, Refresh, Overlook
  <2>3. CASE ~(EndOfPass \/ Refresh)
    BY <1>2, <2>3
       DEF vars, Next, Update, OperatorStep, BeginUpdate, AddVersion, ReloadVersion, LoadSucceeds, LoadFails,
           RegistrationFails, RetireVersion, RetireEnds, CleanupVersion, EndUpdate, BeginRetireAll, RetireNext,
           CleanupNext, EndRetireAll
  <2> QED
    BY <2>2, <2>3
<1>3. VersionsInv /\ None /\ [Next]_vars => None'
    BY <1>2
<1>4. Spec => []VersionsInv
    BY VersionsInvariant
<1> QED
    BY <1>1, <1>3, <1>4, PTL DEF Spec
=============================================================================
