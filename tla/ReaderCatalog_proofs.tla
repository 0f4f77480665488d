-------------------------- MODULE ReaderCatalog_proofs ------------------------
(***************************************************************************)
(* What builds and syncs keep of the reader's catalog, for any works,      *)
(* sources, commands and number of builds.                                 *)
(***************************************************************************)
EXTENDS ReaderCatalog, TLAPS

(* An id minted for a work is a text id, and never None.                   *)
LEMMA UniqueIdType ==
    ASSUME NEW w \in Works
    PROVE  UniqueId(w) \in TextId /\ UniqueId(w) # None
<1>1. UniqueId(w) \in TextId
  BY DEF UniqueId, TextId
<1> QED
  BY <1>1, CatalogAssumption

LEMMA BookType == ASSUME NEW i \in DOMAIN Stream PROVE Stream[i] \in Books
BY DEF Books

LEMMA Passes == DOMAIN NextPass = {"json", "perseus", "first1k"}
             /\ \A p \in DOMAIN NextPass : NextPass[p] \in {"perseus", "first1k", "witness"}
BY DEF NextPass

LEMMA GeneratedType == ASSUME TypeOK PROVE Generated \subseteq Alias
<1> SUFFICES ASSUME NEW a \in Generated PROVE a \in Alias
  OBVIOUS
<1>1. PICK w \in Surviving : \E n \in {listed[w], Urn[w], w} :
        a = [name |-> n, language |-> Language[w], target |-> listed[w]]
  BY DEF Generated
<1>2. w \in Works /\ listed[w] \in TextId /\ Language[w] \in Nat
  BY CatalogAssumption DEF Surviving, Listed, TypeOK
<1> QED
  BY <1>1, <1>2 DEF Alias, Names

LEMMA FoundType == ASSUME NEW ids PROVE Found(ids) \subseteq Listed
<1>1. \A i \in ids : Resolved(i) \subseteq Listed
  BY DEF Resolved
<1> QED
  BY <1>1 DEF Found

LEMMA InitType == Init => TypeOK
<1> SUFFICES ASSUME Init PROVE TypeOK
  OBVIOUS
<1>1. builds \in 0 .. MaxBuilds
  BY CatalogAssumption DEF Init
<1>2. pc = "idle" /\ todo = {} /\ regs = {} /\ sliced = FALSE /\ ended = "none"
  BY DEF Init
<1>3. /\ content \in [Works -> Nat] /\ file \in [Works -> Nat]
      /\ artifact \in [Works -> Nat] /\ refs \in [Works -> Nat]
  BY DEF Init
<1>4. /\ listed \in [Works -> TextId \cup {None}] /\ witness \in [Works -> TextId \cup {None}]
      /\ aliases \subseteq Alias /\ classified \subseteq Works
  BY DEF Init
<1> QED
  BY <1>1, <1>2, <1>3, <1>4 DEF TypeOK

LEMMA TypeStep == TypeOK /\ [Next]_vars => TypeOK'
<1> SUFFICES ASSUME TypeOK, [Next]_vars PROVE TypeOK'
  OBVIOUS
<1> USE CatalogAssumption, Passes DEF TypeOK, rows, build
<1>1. ASSUME NEW cmd \in Commands, Start(cmd) PROVE TypeOK'
  <2>1. builds' \in 0 .. MaxBuilds /\ cmd.slice \in BOOLEAN
    BY <1>1 DEF Start
  <2>2. pc' = "book" /\ todo' \subseteq DOMAIN Stream /\ regs' = {} /\ ended' = "running"
        /\ sliced' \in BOOLEAN /\ content' \in [Works -> Nat]
    BY <1>1, <2>1 DEF Start
  <2>3. CASE cmd.wipe
    BY <1>1, <2>1, <2>2, <2>3 DEF Start
  <2>4. CASE ~cmd.wipe
    BY <1>1, <2>1, <2>2, <2>4 DEF Start
  <2> QED
    BY <2>3, <2>4
<1>2. CASE FlushBook
  BY <1>2 DEF FlushBook
<1>3. CASE Register
  BY <1>3, UniqueIdType DEF Register
<1>4. CASE DeleteSuperseded
  BY <1>4 DEF DeleteSuperseded, Delete
<1>5. CASE Witness
  BY <1>5 DEF Witness, KeptWitness
<1>6. CASE RegisterAliases
  BY <1>6, GeneratedType DEF RegisterAliases, KeptAliases
<1>7. CASE RegisterRefs
  BY <1>7 DEF RegisterRefs
<1>8. CASE Fail
  BY <1>8 DEF Fail, KeptWitness, KeptAliases
<1>9. ASSUME NEW ids \in Tables, NEW merge \in BOOLEAN, Sync(ids, merge) \/ SyncFails(ids, merge)
      PROVE  TypeOK'
  <2>1. KeptRows(ids, merge) \subseteq Works /\ Found(ids) \subseteq Works
    BY FoundType DEF KeptRows, Listed
  <2> QED
    BY <1>9, <2>1 DEF Sync, SyncFails
<1>10. ASSUME NEW w \in Works, Edit(w) PROVE TypeOK'
  BY <1>10 DEF Edit
<1>11. CASE UNCHANGED vars
  BY <1>11 DEF vars
<1> QED
  BY <1>1, <1>2, <1>3, <1>4, <1>5, <1>6, <1>7, <1>8, <1>9, <1>10, <1>11 DEF Next

(* The tables keep their types in every run.                               *)
THEOREM CatalogTypes == Spec => []TypeOK
BY InitType, TypeStep, PTL DEF Spec

-----------------------------------------------------------------------------
(* No command leaves a classification of a work that is not listed: builds *)
(* delete both or neither, and syncs store only what they resolve.         *)
THEOREM ClassifiedCorrect == Spec => []ClassifiedAreListed
<1>1. Init => ClassifiedAreListed
  BY DEF Init, ClassifiedAreListed
<1>2. TypeOK /\ ClassifiedAreListed /\ [Next]_vars => ClassifiedAreListed'
  <2> SUFFICES ASSUME TypeOK, ClassifiedAreListed, [Next]_vars PROVE ClassifiedAreListed'
    OBVIOUS
  <2> USE DEF ClassifiedAreListed, Listed, TypeOK
  <2>1. ASSUME NEW cmd \in Commands, Start(cmd) PROVE ClassifiedAreListed'
    BY <2>1 DEF Start, rows
  <2>2. CASE Register
    BY <2>2, UniqueIdType DEF Register
  <2>3. CASE DeleteSuperseded
    BY <2>3 DEF DeleteSuperseded, Delete
  <2>4. CASE FlushBook \/ Witness \/ RegisterAliases \/ RegisterRefs \/ Fail
    BY <2>4 DEF FlushBook, Witness, RegisterAliases, RegisterRefs, Fail, rows
  <2>5. ASSUME NEW ids \in Tables, NEW merge \in BOOLEAN,
               Sync(ids, merge) \/ SyncFails(ids, merge)
        PROVE  ClassifiedAreListed'
    <3>1. KeptRows(ids, merge) \subseteq Listed
      BY DEF KeptRows
    <3>2. Listed' = Listed
      BY <2>5 DEF Sync, SyncFails
    <3>3. classified' \subseteq KeptRows(ids, merge) \cup Found(ids)
      BY <2>5 DEF Sync, SyncFails
    <3> QED
      BY <3>1, <3>2, <3>3, FoundType DEF ClassifiedAreListed
  <2>6. ASSUME NEW w \in Works, Edit(w) PROVE ClassifiedAreListed'
    BY <2>6 DEF Edit, rows
  <2>7. CASE UNCHANGED vars
    BY <2>7 DEF vars, rows
  <2> QED
    BY <2>1, <2>2, <2>3, <2>4, <2>5, <2>6, <2>7 DEF Next
<1> QED
  BY <1>1, <1>2, CatalogTypes, PTL DEF Spec

-----------------------------------------------------------------------------
(* A source slice leaves the works it did not select as they were.         *)
THEOREM SlicesCorrect == Spec => SliceKeepsOthers
<1> DEFINE Keeps ==
        \A w \in Listed :
          \/ Selected(w) \/ listed'[w] = None
          \/ /\ listed'[w] = listed[w] /\ artifact'[w] = artifact[w]
             /\ refs'[w] = refs[w] /\ witness'[w] = witness[w] /\ file'[w] = file[w]
             /\ OwnAlias(w) \in aliases \ aliases' => NameTaken(w)
<1>1. TypeOK /\ [Next]_vars => [sliced /\ pc # "idle" => Keeps]_vars
  <2> SUFFICES ASSUME TypeOK, Next, sliced, pc # "idle", NEW w \in Listed, ~Selected(w),
                      listed'[w] # None
               PROVE  /\ listed'[w] = listed[w] /\ artifact'[w] = artifact[w]
                      /\ refs'[w] = refs[w] /\ witness'[w] = witness[w] /\ file'[w] = file[w]
                      /\ OwnAlias(w) \in aliases \ aliases' => NameTaken(w)
    OBVIOUS
  <2>1. w \in Works /\ w \notin regs /\ w \notin Surviving
    BY DEF Listed, Selected, Surviving
  <2>2. OwnAlias(w) \in aliases \ KeptAliases => NameTaken(w)
    <3> SUFFICES ASSUME OwnAlias(w) \in aliases, OwnAlias(w) \notin KeptAliases PROVE NameTaken(w)
      OBVIOUS
    <3>1. PICK b \in Generated :
            (b.language = Language[w] /\ b.name = w) \/ b.target = listed[w]
      BY DEF KeptAliases, Replaced, OwnAlias
    <3>2. PICK v \in Surviving : \E n \in {listed[v], Urn[v], v} :
            b = [name |-> n, language |-> Language[v], target |-> listed[v]]
      BY DEF Generated
    <3>3. b.target = listed[v] /\ b.language = Language[v] /\ b.name \in {listed[v], Urn[v], v}
      BY <3>2
    <3>4. listed[v] \in TextId
      BY DEF Surviving, Listed, TypeOK
    <3> QED
      BY <2>1, <3>1, <3>3, <3>4, CatalogAssumption DEF NameTaken
  <2>3. CASE FlushBook
    BY <2>1, <2>3 DEF FlushBook, Selected, TypeOK, rows
  <2>4. CASE Register
    BY <2>1, <2>4 DEF Register, TypeOK
  <2>5. CASE DeleteSuperseded
    <3>1. w \notin Superseded
      BY <2>1, <2>5 DEF DeleteSuperseded, Delete
    <3>2. OwnAlias(w) \in aliases => OwnAlias(w) \in aliases'
      <4>1. OwnAlias(w).target = listed[w] /\ listed[w] \in TextId
        BY <2>1 DEF OwnAlias, Listed, TypeOK
      <4>2. listed[w] \notin Superseded
        BY <4>1, CatalogAssumption DEF Superseded, Listed
      <4> QED
        BY <2>5, <4>1, <4>2 DEF DeleteSuperseded, Delete
    <3> QED
      BY <2>1, <2>5, <3>1, <3>2 DEF DeleteSuperseded, Delete
  <2>6. CASE Witness
    BY <2>1, <2>6 DEF Witness, KeptWitness
  <2>7. CASE RegisterAliases
    BY <2>2, <2>7 DEF RegisterAliases
  <2>8. CASE RegisterRefs
    BY <2>1, <2>8 DEF RegisterRefs
  <2>9. CASE Fail
    <3>1. witness'[w] = witness[w]
      BY <2>1, <2>9 DEF Fail, KeptWitness, TypeOK
    <3> QED
      BY <2>2, <2>9, <3>1 DEF Fail
  <2>10. ~(\E cmd \in Commands : Start(cmd))
    BY DEF Start
  <2>11. ~(\E ids \in Tables, merge \in BOOLEAN : Sync(ids, merge) \/ SyncFails(ids, merge))
    BY DEF Sync, SyncFails
  <2>12. ~(\E v \in Works : Edit(v))
    BY DEF Edit
  <2> QED
    BY <2>3, <2>4, <2>5, <2>6, <2>7, <2>8, <2>9, <2>10, <2>11, <2>12 DEF Next
<1> QED
  BY <1>1, CatalogTypes, PTL DEF Spec, SliceKeepsOthers

-----------------------------------------------------------------------------
(* What each of the three passes has removed by then stays away, since     *)
(* later steps of the build only delete works.                             *)
NoTwins == \A v, w \in Listed : v # w => Twin[w] # v
NoneBeside(better) ==
    \A v, w \in Listed : v # w =>
        ~ (/\ Collection[w] = better /\ Collection[v] \in {"phi", "tlg"}
           /\ Urn[w] = Urn[v] /\ Language[w] = Language[v])
NoneUnderId ==
    \A v, w \in Listed : v # w =>
        ~ (/\ Collection[w] = "first1k" /\ Collection[v] \in {"phi", "tlg"}
           /\ listed[w] = listed[v] /\ Language[w] = Language[v])
Last == {"witness", "alias", "refs"}
GoneInv ==
    /\ ended = "success" => pc = "idle"
    /\ ended = "success" \/ pc \in Last \cup {"perseus", "first1k"} => NoTwins
    /\ ended = "success" \/ pc \in Last \cup {"first1k"} => NoneBeside("perseus")
    /\ ended = "success" \/ pc \in Last => NoneBeside("first1k") /\ NoneUnderId

LEMMA FewerListed ==
    ASSUME Listed' \subseteq Listed, \A w \in Listed' : listed'[w] = listed[w]
    PROVE  /\ NoTwins => NoTwins'
           /\ NoneBeside("perseus") => NoneBeside("perseus")'
           /\ NoneBeside("first1k") => NoneBeside("first1k")'
           /\ NoneUnderId => NoneUnderId'
BY DEF NoTwins, NoneBeside, NoneUnderId

LEMMA DeleteLeaves ==
    ASSUME NEW gone, Delete(gone)
    PROVE  Listed' = Listed \ gone /\ \A w \in Listed' : listed'[w] = listed[w]
BY DEF Delete, Listed

LEMMA GoneStep == TypeOK /\ GoneInv /\ [Next]_vars => GoneInv'
<1> SUFFICES ASSUME TypeOK, GoneInv, [Next]_vars PROVE GoneInv'
  OBVIOUS
<1> USE Passes
<1>1. ASSUME NEW cmd \in Commands, Start(cmd) PROVE GoneInv'
  BY <1>1 DEF Start, GoneInv, Last
<1>2. CASE FlushBook
  BY <1>2 DEF FlushBook, GoneInv, Last
<1>3. CASE Register
  BY <1>3 DEF Register, GoneInv, Last
<1>4. CASE DeleteSuperseded
  <2>1. Listed' = Listed \ Superseded /\ \A w \in Listed' : listed'[w] = listed[w]
    BY <1>4, DeleteLeaves DEF DeleteSuperseded
  <2>2. pc \in DOMAIN NextPass /\ pc' = NextPass[pc] /\ ended' = ended /\ ended # "success"
    BY <1>4 DEF DeleteSuperseded, GoneInv
  <2>3. CASE pc = "json"
    <3>1. NoTwins'
      BY <2>1, <2>3 DEF NoTwins, Superseded, Replaces
    <3> QED
      BY <2>2, <2>3, <3>1 DEF GoneInv, Last, NextPass
  <2>4. CASE pc = "perseus"
    <3>1. NoneBeside("perseus")'
      BY <2>1, <2>4 DEF NoneBeside, Superseded, Replaces
    <3> QED
      BY <2>1, <2>2, <2>4, <3>1, FewerListed DEF GoneInv, Last, NextPass
  <2>5. CASE pc = "first1k"
    <3>1. NoneBeside("first1k")' /\ NoneUnderId'
      BY <2>1, <2>5 DEF NoneBeside, NoneUnderId, Superseded, Replaces
    <3> QED
      BY <2>1, <2>2, <2>5, <3>1, FewerListed DEF GoneInv, Last, NextPass
  <2> QED
    BY <2>2, <2>3, <2>4, <2>5
<1>5. CASE Witness \/ RegisterAliases \/ RegisterRefs \/ Fail
  <2>1. Listed' = Listed /\ listed' = listed
    BY <1>5 DEF Witness, RegisterAliases, RegisterRefs, Fail, Listed
  <2>2. CASE Fail
    BY <2>2 DEF Fail, GoneInv, Last
  <2>3. CASE Witness \/ RegisterAliases \/ RegisterRefs
    BY <2>1, <2>3, FewerListed DEF Witness, RegisterAliases, RegisterRefs, GoneInv, Last
  <2> QED
    BY <1>5, <2>2, <2>3
<1>6. ASSUME Listed' = Listed, listed' = listed, pc' = pc, ended' = ended PROVE GoneInv'
  BY <1>6, FewerListed DEF GoneInv, Last
<1>7. ASSUME NEW ids \in Tables, NEW merge \in BOOLEAN, Sync(ids, merge) \/ SyncFails(ids, merge)
      PROVE  GoneInv'
  BY <1>6, <1>7 DEF Sync, SyncFails, Listed, build
<1>8. ASSUME NEW w \in Works, Edit(w) PROVE GoneInv'
  BY <1>6, <1>8 DEF Edit, Listed, rows, build
<1>9. CASE UNCHANGED vars
  BY <1>6, <1>9 DEF vars, Listed, rows, build
<1> QED
  BY <1>1, <1>2, <1>3, <1>4, <1>5, <1>7, <1>8, <1>9 DEF Next

(* A build that succeeded leaves no JSON text beside its GRETIL twin, no   *)
(* legacy text beside Perseus or First1K under its URN and none beside     *)
(* First1K under its listed text id, whatever was built or failed before.  *)
THEOREM SupersededCorrect == Spec => []SupersededAreGone
<1>1. Init => GoneInv
  BY DEF Init, GoneInv, Last
<1>2. GoneInv => SupersededAreGone
  BY DEF GoneInv, SupersededAreGone, Legacy, NoTwins, NoneBeside, NoneUnderId
<1> QED
  BY <1>1, <1>2, GoneStep, CatalogTypes, PTL DEF Spec
-----------------------------------------------------------------------------
(* The names that point to a work by other than a text id are its own id   *)
(* and the URNs and ids of works of the alias's language.                  *)
AliasNames ==
    \A a \in aliases : \/ a.name \in TextId
                       \/ \E v \in Works : a.language = Language[v] /\ a.name \in {Urn[v], v}

(* What a build has registered of its works by each of its steps, and what *)
(* it leaves when it succeeds.                                             *)
FitInv ==
    /\ pc # "idle" => ended = "running"
    /\ pc # "idle" => \A w \in regs : file[w] = content[w]
    /\ pc \in DOMAIN NextPass \cup Last => \A w \in Surviving : artifact[w] = content[w]
    /\ pc \in {"alias", "refs"} => \A w \in Surviving : witness[w] = listed[w]
    /\ pc = "refs" => \A w \in Surviving : OwnsId(w) => Resolve(w) = {SameText(w)}
    /\ BuiltFits
    /\ AliasNames

(* Every generated name is of a surviving work, in its language.           *)
LEMMA GeneratedNames ==
    ASSUME TypeOK, NEW b \in Generated
    PROVE  \E v \in Surviving :
             /\ b.name \in {listed[v], Urn[v], v} /\ b.language = Language[v]
             /\ b.target = listed[v] /\ listed[v] \in TextId
<1>1. PICK v \in Surviving : \E n \in {listed[v], Urn[v], v} :
        b = [name |-> n, language |-> Language[v], target |-> listed[v]]
  BY DEF Generated
<1>2. listed[v] \in TextId
  BY DEF Surviving, Listed, TypeOK
<1> QED
  BY <1>1, <1>2

LEMMA AliasNamesStep ==
    ASSUME TypeOK, AliasNames, aliases' \subseteq aliases \cup Generated
    PROVE  AliasNames'
<1> SUFFICES ASSUME NEW b \in Generated
             PROVE  \/ b.name \in TextId
                    \/ \E v \in Works : b.language = Language[v] /\ b.name \in {Urn[v], v}
  BY DEF AliasNames
<1>1. PICK v \in Surviving :
        /\ b.name \in {listed[v], Urn[v], v} /\ b.language = Language[v]
        /\ listed[v] \in TextId
  BY GeneratedNames
<1> QED
  BY <1>1 DEF Surviving, Listed

(* A work that owns its id is not named ambiguously: the texts that share  *)
(* the name in its language are gone by now.                               *)
LEMMA OwnIsGenerated ==
    ASSUME TypeOK, GoneInv, pc = "alias", NEW w \in Surviving, OwnsId(w)
    PROVE  OwnAlias(w) \in Generated
<1> DEFINE known == UNION {{[name |-> n, language |-> Language[v], target |-> listed[v]] :
                               n \in {listed[v], Urn[v], v}} : v \in Surviving}
<1>1. w \in Works /\ w \in Listed /\ w \notin TextId
  BY CatalogAssumption DEF Surviving, Listed
<1>2. OwnAlias(w) \in known
  BY DEF OwnAlias
<1>3. ASSUME NEW b \in known, b.name = w, b.language = Language[w] PROVE b.target = listed[w]
  <2>1. PICK v \in Surviving : \E n \in {listed[v], Urn[v], v} :
          b = [name |-> n, language |-> Language[v], target |-> listed[v]]
    OBVIOUS
  <2>2. /\ w \in {listed[v], Urn[v], v} /\ Language[v] = Language[w] /\ b.target = listed[v]
        /\ v \in Works /\ v \in Listed /\ listed[v] \in TextId
    BY <1>3, <2>1 DEF Surviving, Listed, TypeOK
  <2>3. CASE v # w
    <3>1. /\ Urn[v] = w /\ Urn[w] = w
          /\ Collection[w] \in {"perseus", "first1k"} /\ Collection[v] \in {"phi", "tlg"}
      BY <1>1, <2>2, <2>3 DEF OwnsId
    <3>2. NoneBeside("perseus") /\ NoneBeside("first1k")
      BY DEF GoneInv, Last
    <3> QED
      BY <1>1, <2>2, <2>3, <3>1, <3>2 DEF NoneBeside
  <2> QED
    BY <2>2, <2>3
<1> HIDE DEF known
<1>4. Generated = {a \in known : \A b \in known :
                      b.name = a.name /\ b.language = a.language => b.target = a.target}
  BY DEF Generated, known
<1>5. OwnAlias(w).name = w /\ OwnAlias(w).language = Language[w] /\ OwnAlias(w).target = listed[w]
  BY DEF OwnAlias
<1> QED
  BY <1>2, <1>3, <1>4, <1>5

(* Once the aliases are registered, such a work is found under its id.     *)
LEMMA FoundById ==
    ASSUME TypeOK, GoneInv, AliasNames, RegisterAliases, NEW w \in Surviving, OwnsId(w)
    PROVE  Resolve(w)' = {SameText(w)'}
<1> DEFINE own == OwnAlias(w)
<1>1. listed' = listed /\ aliases' = KeptAliases \cup Generated /\ KeptAliases \subseteq aliases
  BY DEF RegisterAliases, KeptAliases
<1>2. own \in Generated
  BY OwnIsGenerated DEF RegisterAliases
<1>3. /\ w \in Works /\ w \notin TextId /\ listed[w] \in TextId /\ Language[w] \in Nat
      /\ own = [name |-> w, language |-> Language[w], target |-> listed[w]]
  BY CatalogAssumption DEF Surviving, Listed, TypeOK, OwnAlias
<1>4. ASSUME NEW b \in Generated, b.name = w
      PROVE  Language[w] <= b.language /\ (b.language = Language[w] => b = own)
  <2>1. PICK v \in Surviving :
          /\ b.name \in {listed[v], Urn[v], v} /\ b.language = Language[v]
          /\ b.target = listed[v] /\ listed[v] \in TextId
    BY GeneratedNames
  <2>2. v \in Works /\ Language[v] \in Nat
    BY CatalogAssumption DEF Surviving, Listed
  <2>3. Language[w] <= b.language
    BY <1>3, <1>4, <2>1, <2>2 DEF OwnsId
  <2>4. b.language = Language[w] => b.target = listed[w]
    BY <1>2, <1>3, <1>4 DEF Generated
  <2>5. b = [name |-> b.name, language |-> b.language, target |-> b.target]
    BY GeneratedType DEF Alias
  <2> QED
    BY <1>3, <1>4, <2>3, <2>4, <2>5
<1>5. ASSUME NEW b \in KeptAliases, b.name = w PROVE Language[w] < b.language
  <2>1. PICK v \in Works : b.language = Language[v] /\ w \in {Urn[v], v}
    BY <1>1, <1>3, <1>5 DEF AliasNames
  <2>2. Language[v] \in Nat /\ Language[w] <= Language[v]
    BY <1>3, <2>1, CatalogAssumption DEF OwnsId
  <2>3. b.language # Language[w]
    BY <1>2, <1>3, <1>5 DEF KeptAliases, Replaced
  <2> QED
    BY <1>3, <2>1, <2>2, <2>3
<1>6. own \in Named(w)'
  BY <1>1, <1>2, <1>3 DEF Named
<1>7. First(w)' = {own}
  <2>1. ASSUME NEW b \in Named(w)' PROVE Language[w] <= b.language
    <3>1. (b \in KeptAliases \/ b \in Generated) /\ b.name = w
      BY <1>1, <2>1 DEF Named
    <3>2. b.language \in Nat
      BY <1>1, <3>1, GeneratedType DEF TypeOK, Alias
    <3> QED
      BY <1>3, <1>4, <1>5, <3>1, <3>2
  <2>2. ASSUME NEW b \in Named(w)', b.language <= Language[w] PROVE b = own
    <3>1. b \in KeptAliases \/ b \in Generated
      BY <1>1, <2>2 DEF Named
    <3>2. b.name = w /\ b.language \in Nat
      BY <1>1, <2>2, GeneratedType DEF Named, TypeOK, Alias
    <3> QED
      BY <1>3, <1>4, <1>5, <2>2, <3>1, <3>2
  <2>3. own \in First(w)'
    BY <1>3, <1>6, <2>1 DEF First
  <2>4. ASSUME NEW b \in First(w)' PROVE b = own
    BY <1>3, <1>6, <2>2, <2>4 DEF First
  <2> QED
    BY <2>3, <2>4
<1> DEFINE found(t) == IF t \in Listed' THEN {t}
                      ELSE {v \in Listed' : Urn[v] = t \/ listed'[v] = t}
<1>8. found(listed[w]) = SameText(w)'
  <2>1. listed[w] \notin Works /\ \A v \in Works : Urn[v] # listed[w]
    BY <1>3, CatalogAssumption
  <2> QED
    BY <1>1, <2>1 DEF SameText, Listed
<1>9. Named(w)' # {}
  BY <1>6
<1>10. own.target = listed[w]
  BY <1>3
<1>11. Resolve(w)' = {found(a.target) : a \in First(w)'}
  BY <1>9 DEF Resolve, Direct
<1> HIDE DEF found, own
<1>12. Resolve(w)' = {found(own.target)}
  BY <1>7, <1>11
<1> QED
  BY <1>8, <1>10, <1>12

(* Lookups read the listed works and the aliases, and nothing else.        *)
LEMMA SameLookups ==
    ASSUME UNCHANGED <<listed, aliases>>, NEW w
    PROVE  Resolve(w)' = Resolve(w) /\ SameText(w)' = SameText(w)
<1>1. Listed' = Listed
  BY DEF Listed
<1>2. Named(w)' = Named(w)
  BY DEF Named
<1>3. First(w)' = First(w)
  BY <1>2 DEF First
<1> QED
  BY <1>1, <1>2, <1>3 DEF Resolve, Direct, SameText

LEMMA FitUnchanged ==
    ASSUME FitInv, UNCHANGED <<file, listed, artifact, witness, refs, aliases, pc, regs, ended>>,
           pc # "idle" => content' = content
    PROVE  FitInv'
<1>1. Surviving' = Surviving
  BY DEF Surviving, Listed
<1>2. BuiltFits'
  BY <1>1, SameLookups DEF FitInv, BuiltFits, OwnsId
<1>3. pc' = "refs" => \A w \in Surviving' : OwnsId(w) => Resolve(w)' = {SameText(w)'}
  BY <1>1, SameLookups DEF FitInv
<1>4. AliasNames'
  BY DEF FitInv, AliasNames
<1> QED
  BY <1>1, <1>2, <1>3, <1>4, Passes DEF FitInv, Last, OwnsId

LEMMA FitStep == TypeOK /\ GoneInv /\ FitInv /\ [Next]_vars => FitInv'
<1> SUFFICES ASSUME TypeOK, GoneInv, FitInv, [Next]_vars PROVE FitInv'
  OBVIOUS
<1> USE Passes
<1>a. AliasNames /\ (pc # "idle" => ended = "running")
  BY DEF FitInv
<1>1. ASSUME NEW cmd \in Commands, Start(cmd) PROVE FitInv'
  <2>1. pc' = "book" /\ ended' = "running" /\ regs' = {} /\ (aliases' = {} \/ aliases' = aliases)
    BY <1>1 DEF Start, rows
  <2>2. AliasNames' /\ BuiltFits'
    BY <1>a, <2>1 DEF AliasNames, BuiltFits
  <2> QED
    BY <2>1, <2>2 DEF FitInv, Last
<1>2. CASE FlushBook
  <2>1. \A w \in regs' : file'[w] = content'[w]
    BY <1>2 DEF FlushBook, FitInv, TypeOK
  <2>2. pc' \in {"book", "register"} /\ ended' = "running"
    BY <1>2, <1>a DEF FlushBook
  <2>3. AliasNames' /\ BuiltFits'
    BY <1>2, <1>a, <2>2 DEF FlushBook, rows, AliasNames, BuiltFits
  <2> QED
    BY <2>1, <2>2, <2>3 DEF FitInv, Last
<1>3. CASE Register
  <2>1. pc' = "json" /\ ended' = "running" /\ UNCHANGED <<file, content, regs, aliases>>
    BY <1>3, <1>a DEF Register
  <2>2. \A w \in Surviving' : artifact'[w] = content'[w]
    BY <1>3 DEF Register, Surviving, Listed
  <2>3. AliasNames' /\ BuiltFits'
    BY <1>a, <2>1 DEF AliasNames, BuiltFits
  <2> QED
    BY <1>3, <2>1, <2>2, <2>3 DEF Register, FitInv, Last
<1>4. CASE DeleteSuperseded
  <2>1. /\ pc' \in {"perseus", "first1k", "witness"} /\ ended' = "running"
        /\ UNCHANGED <<file, content, regs>> /\ aliases' \subseteq aliases
    BY <1>4, <1>a DEF DeleteSuperseded, Delete
  <2>2. \A w \in Surviving' : artifact'[w] = content'[w]
    <3>1. Listed' = Listed \ Superseded
      BY <1>4, DeleteLeaves DEF DeleteSuperseded
    <3>2. \A w \in Surviving : artifact[w] = content[w]
      BY <1>4 DEF DeleteSuperseded, FitInv
    <3> QED
      BY <1>4, <2>1, <3>1, <3>2 DEF DeleteSuperseded, Delete, Surviving, Listed
  <2>3. AliasNames' /\ BuiltFits'
    BY <1>a, <2>1 DEF AliasNames, BuiltFits
  <2>4. \A w \in regs' : file'[w] = content'[w]
    BY <1>4, <2>1 DEF DeleteSuperseded, FitInv
  <2> QED
    BY <2>1, <2>2, <2>3, <2>4 DEF FitInv
<1>5. CASE Witness
  <2>1. /\ pc = "witness" /\ pc' = "alias" /\ ended' = "running"
        /\ UNCHANGED <<file, content, regs, aliases, listed, artifact>>
    BY <1>5, <1>a DEF Witness
  <2>2. Surviving' = Surviving /\ Surviving \subseteq Works
    BY <2>1 DEF Surviving, Listed
  <2>3. \A w \in Surviving' : witness'[w] = listed'[w] /\ artifact'[w] = content'[w]
    BY <1>5, <2>1, <2>2 DEF Witness, FitInv, Last
  <2>4. AliasNames' /\ BuiltFits'
    BY <1>a, <2>1 DEF AliasNames, BuiltFits
  <2> QED
    BY <2>1, <2>3, <2>4 DEF FitInv
<1>6. CASE RegisterAliases
  <2>1. /\ pc = "alias" /\ pc' = "refs" /\ ended' = "running"
        /\ UNCHANGED <<file, content, regs, listed, artifact, witness>>
        /\ aliases' \subseteq aliases \cup Generated
    BY <1>6, <1>a DEF RegisterAliases, KeptAliases
  <2>2. Surviving' = Surviving
    BY <2>1 DEF Surviving, Listed
  <2>3. \A w \in Surviving' : OwnsId(w) => Resolve(w)' = {SameText(w)'}
    BY <1>6, <1>a, <2>2, FoundById
  <2>4. AliasNames' /\ BuiltFits'
    BY <1>a, <2>1, AliasNamesStep DEF BuiltFits
  <2>5. \A w \in Surviving' : witness'[w] = listed'[w] /\ artifact'[w] = content'[w]
    BY <2>1, <2>2 DEF FitInv, Last
  <2>6. \A w \in regs' : file'[w] = content'[w]
    BY <2>1 DEF FitInv
  <2> QED
    BY <2>1, <2>3, <2>4, <2>5, <2>6 DEF FitInv, OwnsId
<1>7. CASE RegisterRefs
  <2>1. /\ pc = "refs" /\ pc' = "idle" /\ ended' = "success"
        /\ UNCHANGED <<file, content, regs, listed, artifact, witness, aliases>>
    BY <1>7 DEF RegisterRefs
  <2>2. Surviving' = Surviving /\ Surviving \subseteq Works /\ Surviving \subseteq regs
    BY <2>1 DEF Surviving, Listed
  <2>3. \A w \in Surviving : /\ refs'[w] = content[w] /\ file[w] = content[w]
                             /\ artifact[w] = content[w] /\ witness[w] = listed[w]
    BY <1>7, <2>1, <2>2 DEF RegisterRefs, FitInv, Last
  <2>4. \A w \in Surviving : OwnsId(w) => Resolve(w)' = {SameText(w)'}
    BY <2>1, SameLookups DEF FitInv
  <2>5. AliasNames' /\ BuiltFits'
    BY <1>a, <2>1, <2>2, <2>3, <2>4 DEF AliasNames, BuiltFits, OwnsId
  <2> QED
    BY <2>1, <2>5 DEF FitInv, Last
<1>8. CASE Fail
  <2>1. pc' = "idle" /\ ended' = "failed" /\ aliases' \subseteq aliases
    BY <1>8 DEF Fail, KeptAliases
  <2>2. AliasNames' /\ BuiltFits'
    BY <1>a, <2>1 DEF AliasNames, BuiltFits
  <2> QED
    BY <2>1, <2>2 DEF FitInv, Last
<1>9. ASSUME NEW ids \in Tables, NEW merge \in BOOLEAN, Sync(ids, merge) \/ SyncFails(ids, merge)
      PROVE  FitInv'
  BY <1>9, FitUnchanged DEF Sync, SyncFails, build
<1>10. ASSUME NEW w \in Works, Edit(w) PROVE FitInv'
  BY <1>10, FitUnchanged DEF Edit, rows, build
<1>11. CASE UNCHANGED vars
  BY <1>11, FitUnchanged DEF vars, rows, build
<1> QED
  BY <1>1, <1>2, <1>3, <1>4, <1>5, <1>6, <1>7, <1>8, <1>9, <1>10, <1>11 DEF Next

(* A build that succeeded leaves book files, artifact rows, citations and  *)
(* witnesses that agree, and works that are found under the ids they own.  *)
THEOREM BuiltCorrect == Spec => []BuiltFits
<1>1. Init => GoneInv /\ FitInv
  BY DEF Init, GoneInv, FitInv, BuiltFits, AliasNames, NextPass, Last
<1>2. FitInv => BuiltFits
  BY DEF FitInv
<1> QED
  BY <1>1, <1>2, GoneStep, FitStep, CatalogTypes, PTL DEF Spec
=============================================================================
