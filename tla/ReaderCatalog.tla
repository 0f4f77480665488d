---------------------------- MODULE ReaderCatalog -----------------------------
(***************************************************************************)
(* The reader's catalog.duckdb and its per-book files, under `databuild    *)
(* reader' (a full build, a build over what is there, a slice of source    *)
(* files) and `reader sync-classifications'.                               *)
(*                                                                         *)
(* Every register_* call of a build is a transaction of its own on a new   *)
(* connection, or two, a delete and an insert; a build that raises leaves  *)
(* the earlier ones behind.  Commands run one after the other.  A source   *)
(* yields the same works each time; what they contain may be edited        *)
(* between commands, and a text is the number of its edition.  Left out:   *)
(* curated tables, which each build reloads whole, --limit, and tags,      *)
(* which follow their classification.                                      *)
(***************************************************************************)
EXTENDS Naturals, Sequences, FiniteSets

CONSTANTS
    Works,       \* work ids
    Collection,  \* collection of a work
    Language,    \* language of a work, in the order aliases are looked up
    Urn,         \* its CTS work URN; that of a Perseus work is its id
    Minted,      \* the CTSv2 text id minted from language, title, incipit
    Book,        \* the book file that holds it
    Stream,      \* the book files in the order their sources are read
    Twin,        \* the JSON work that a GRETIL text replaces, or None
    None,
    Commands,    \* build commands: source files, --wipe, --source-path
    Tables,      \* classification files: the work ids they name
    MaxBuilds,   \* bound on builds
    MaxEdits     \* bound on edits of the sources

Books == {Stream[i] : i \in DOMAIN Stream}

(* canonical_text_id: as minted, or with the source id of its work.        *)
TextId == [minted : {Minted[w] : w \in Works}, suffix : Works \cup {None}]

ASSUME CatalogAssumption ==
    /\ None \notin Works /\ (Works \cup {None}) \cap TextId = {}
    /\ \A w \in Works : Urn[w] \notin TextId
    /\ Stream \in Seq({Book[w] : w \in Works}) /\ \A w \in Works : Book[w] \in Books
    /\ \A w \in Works : Language[w] \in Nat
    /\ Twin \in [Works -> Works \cup {None}]
    /\ Commands \subseteq [books : (SUBSET Books) \ {{}}, wipe : BOOLEAN, slice : BOOLEAN]
    /\ Tables \subseteq SUBSET Works
    /\ MaxBuilds \in Nat /\ MaxEdits \in Nat

Names  == Works \cup {Urn[w] : w \in Works} \cup TextId
Alias  == [name : Names, language : Nat, target : TextId]

VARIABLES
    content,    \* edition of each work in the sources
    file,       \* edition of each work in its book file, 0 if none
    listed,     \* works: the text id of a listed work, or None
    artifact,   \* artifacts: the edition registered, 0 if none
    witness,    \* source_witnesses: the text id a work witnesses, or None
    refs,       \* citation_references: the edition they cite, 0 if none
    aliases,    \* generated rows of aliases
    classified, \* works with a row in work_classifications
    pc,         \* what the running build does
    todo,       \* positions of the books it has still to flush
    regs,       \* works it flushed
    sliced,     \* --source-path was given
    ended,      \* how the last build ended
    builds      \* builds started

rows    == <<listed, artifact, witness, refs, aliases, classified>>
build   == <<pc, todo, regs, sliced, ended, builds>>
vars    == <<content, file, rows, build>>

Listed == {w \in Works : listed[w] # None}

Init ==
    /\ content = [w \in Works |-> 1]
    /\ file = [w \in Works |-> 0]
    /\ listed = [w \in Works |-> None]
    /\ artifact = [w \in Works |-> 0]
    /\ witness = [w \in Works |-> None]
    /\ refs = [w \in Works |-> 0]
    /\ aliases = {} /\ classified = {}
    /\ pc = "idle" /\ todo = {} /\ regs = {} /\ sliced = FALSE /\ ended = "none"
    /\ builds = 0

-----------------------------------------------------------------------------
(* ReaderBuilder.build.                                                    *)

(* With wipe_existing the output root is removed first, files and all.     *)
Start(cmd) ==
    /\ pc = "idle" /\ builds < MaxBuilds /\ builds' = builds + 1
    /\ pc' = "book"
    /\ todo' = {i \in DOMAIN Stream : Stream[i] \in cmd.books}
    /\ regs' = {} /\ sliced' = cmd.slice /\ ended' = "running"
    /\ IF cmd.wipe
       THEN /\ file' = [w \in Works |-> 0]
            /\ listed' = [w \in Works |-> None]
            /\ artifact' = [w \in Works |-> 0]
            /\ witness' = [w \in Works |-> None]
            /\ refs' = [w \in Works |-> 0]
            /\ aliases' = {} /\ classified' = {}
       ELSE UNCHANGED <<file, rows>>
    /\ UNCHANGED content

(* _flush_pending_book: the rows of a book file are replaced by those of   *)
(* the works that its source file yields.                                  *)
FlushBook ==
    /\ pc = "book"
    /\ \E i \in todo :
          /\ \A j \in todo : i <= j
          /\ LET own == {w \in Works : Book[w] = Stream[i]}
             IN  /\ file' = [w \in Works |-> IF w \in own THEN content[w] ELSE file[w]]
                 /\ regs' = regs \cup own
          /\ todo' = todo \ {i}
    /\ pc' = IF todo' = {} THEN "register" ELSE "book"
    /\ UNCHANGED <<content, rows, sliced, ended, builds>>

(* _ensure_unique_canonical_text_ids: works of this build that minted the  *)
(* same id in one language all get a suffix.                               *)
SameId(w) == {v \in regs : Minted[v] = Minted[w] /\ Language[v] = Language[w]}
UniqueId(w) ==
    [minted |-> Minted[w], suffix |-> IF SameId(w) = {w} THEN None ELSE w]

(* register_books.                                                         *)
Register ==
    /\ pc = "register"
    /\ listed' = [w \in Works |-> IF w \in regs THEN UniqueId(w) ELSE listed[w]]
    /\ artifact' = [w \in Works |-> IF w \in regs THEN content[w] ELSE artifact[w]]
    /\ pc' = "json"
    /\ UNCHANGED <<content, file, witness, refs, aliases, classified,
                   todo, regs, sliced, ended, builds>>

(* Works that a better source replaces, in each of the three passes: by    *)
(* stem, by URN, by URN or text id.                                        *)
Replaces(w, v) ==
    CASE pc = "json"    -> Twin[w] = v
      [] pc = "perseus" -> Collection[w] = "perseus" /\ Urn[w] = Urn[v]
      [] OTHER          -> Collection[w] = "first1k" /\ (Urn[w] = Urn[v] \/ listed[w] = listed[v])
M_Superseded ==
    {v \in Listed : \E w \in regs \ {v} :
        /\ Replaces(w, v)
        /\ pc # "json" => Language[w] = Language[v] /\ Collection[v] \in {"phi", "tlg"}}
Superseded ==
    {v \in Listed : \E w \in Listed \ {v} :
        /\ Replaces(w, v)
        /\ pc # "json" => Language[w] = Language[v] /\ Collection[v] \in {"phi", "tlg"}}

(* delete_reader_works, which leaves the witnesses.                        *)
M_Delete(gone) ==
    /\ listed' = [w \in Works |-> IF w \in gone THEN None ELSE listed[w]]
    /\ artifact' = [w \in Works |-> IF w \in gone THEN 0 ELSE artifact[w]]
    /\ refs' = [w \in Works |-> IF w \in gone THEN 0 ELSE refs[w]]
    /\ aliases' = {a \in aliases : a.target \notin gone}
    /\ UNCHANGED classified
M_DeleteRows(gone) ==
    /\ listed' = [w \in Works |-> IF w \in gone THEN None ELSE listed[w]]
    /\ artifact' = [w \in Works |-> IF w \in gone THEN None ELSE artifact[w]]
    /\ refs' = [w \in Works |-> IF w \in gone THEN 0 ELSE refs[w]]
    /\ aliases' = {a \in aliases : a.target \notin gone}
    /\ classified' = classified \ gone
Delete(gone) ==
    /\ listed' = [w \in Works |-> IF w \in gone THEN None ELSE listed[w]]
    /\ artifact' = [w \in Works |-> IF w \in gone THEN 0 ELSE artifact[w]]
    /\ refs' = [w \in Works |-> IF w \in gone THEN 0 ELSE refs[w]]
    /\ aliases' = {a \in aliases : a.target \notin gone}
    /\ classified' = classified \ gone

NextPass == [json |-> "perseus", perseus |-> "first1k", first1k |-> "witness"]

DeleteSuperseded ==
    /\ pc \in DOMAIN NextPass
    /\ Delete(Superseded)
    /\ pc' = NextPass[pc]
    /\ UNCHANGED <<content, file, witness, todo, regs, sliced, ended, builds>>

Surviving == regs \cap Listed

(* register_source_witnesses: all of them replaced, in a slice its own.    *)
M_KeptWitness == [w \in Works |-> None]
KeptWitness ==
    [w \in Works |-> IF sliced /\ w \notin Surviving THEN witness[w] ELSE None]
Witness ==
    /\ pc = "witness"
    /\ witness' = [w \in Works |-> IF w \in Surviving THEN listed[w] ELSE KeptWitness[w]]
    /\ pc' = "alias"
    /\ UNCHANGED <<content, file, listed, artifact, refs, aliases, classified,
                   todo, regs, sliced, ended, builds>>

(* _aliases_for_registrations, then register_aliases: a work is known by   *)
(* its text id, URN and id, unless a name has two targets in one language. *)
Generated ==
    LET known == UNION {{[name |-> n, language |-> Language[w], target |-> listed[w]] :
                            n \in {listed[w], Urn[w], w}} : w \in Surviving}
    IN  {a \in known : \A b \in known :
            b.name = a.name /\ b.language = a.language => b.target = a.target}
M_Replaced(a) == \E b \in Generated : b.target = a.target
Replaced(a) ==
    \E b \in Generated : \/ b.language = a.language /\ b.name = a.name
                         \/ b.target = a.target
KeptAliases == IF sliced THEN {a \in aliases : ~Replaced(a)} ELSE {}
RegisterAliases ==
    /\ pc = "alias"
    /\ aliases' = KeptAliases \cup Generated
    /\ pc' = "refs"
    /\ UNCHANGED <<content, file, listed, artifact, witness, refs, classified,
                   todo, regs, sliced, ended, builds>>

(* register_citation_references, the last step of a build.                 *)
RegisterRefs ==
    /\ pc = "refs"
    /\ refs' = [w \in Works |->
          IF w \in Surviving THEN content[w] ELSE IF sliced THEN refs[w] ELSE 0]
    /\ pc' = "idle" /\ ended' = "success"
    /\ UNCHANGED <<content, file, listed, artifact, witness, aliases, classified,
                   todo, regs, sliced, builds>>

(* A step raises or the process is killed, perhaps between the delete and  *)
(* the insert of one table.                                                *)
Fail ==
    /\ pc # "idle"
    /\ pc' = "idle" /\ ended' = "failed" /\ todo' = {}
    /\ witness' \in {witness} \cup (IF pc = "witness" THEN {KeptWitness} ELSE {})
    /\ aliases' \in {aliases} \cup (IF pc = "alias" THEN {KeptAliases} ELSE {})
    /\ UNCHANGED <<content, file, listed, artifact, refs, classified, regs, sliced, builds>>

-----------------------------------------------------------------------------
(* register_work_classifications.  Ids are looked up under the forms they  *)
(* share with the works of one URN; a form two listed works share is of no *)
(* use.                                                                    *)
Resolved(id) ==
    LET found == {w \in Listed : w = id \/ Urn[w] = Urn[id]}
    IN  IF Cardinality(found) = 1 THEN found ELSE {}

(* The rows to replace are deleted first, which commits; the insert fails  *)
(* when two ids of the file resolve to one work.                           *)
Found(ids) == UNION {Resolved(i) : i \in ids}
KeptRows(ids, merge) == IF merge THEN classified \ (ids \cup Found(ids)) ELSE {}
Clash(ids) == \E i, j \in ids : i # j /\ Resolved(i) \cap Resolved(j) # {}

Sync(ids, merge) ==
    /\ pc = "idle" /\ ~Clash(ids)
    /\ classified' = KeptRows(ids, merge) \cup Found(ids)
    /\ UNCHANGED <<content, file, listed, artifact, witness, refs, aliases, build>>
SyncFails(ids, merge) ==
    /\ pc = "idle"
    /\ classified' = KeptRows(ids, merge)
    /\ UNCHANGED <<content, file, listed, artifact, witness, refs, aliases, build>>

-----------------------------------------------------------------------------
(* Sources are edited between commands.                                    *)
Edit(w) ==
    /\ pc = "idle" /\ Cardinality({v \in Works : content[v] > 1}) < MaxEdits
    /\ content' = [content EXCEPT ![w] = @ + 1]
    /\ UNCHANGED <<file, rows, build>>

Next ==
    \/ \E cmd \in Commands : Start(cmd)
    \/ FlushBook \/ Register \/ DeleteSuperseded \/ Witness \/ RegisterAliases \/ RegisterRefs
    \/ Fail
    \/ \E ids \in Tables, merge \in BOOLEAN :
          Sync(ids, merge) \/ SyncFails(ids, merge)
    \/ \E w \in Works : Edit(w)

Spec == Init /\ [][Next]_vars

-----------------------------------------------------------------------------
TypeOK ==
    /\ content \in [Works -> Nat] /\ file \in [Works -> Nat]
    /\ listed \in [Works -> TextId \cup {None}]
    /\ artifact \in [Works -> Nat]
    /\ witness \in [Works -> TextId \cup {None}]
    /\ refs \in [Works -> Nat]
    /\ aliases \subseteq Alias
    /\ classified \subseteq Works
    /\ pc \in {"idle", "book", "register", "witness", "alias", "refs"} \cup DOMAIN NextPass
    /\ todo \subseteq DOMAIN Stream /\ regs \subseteq Works /\ sliced \in BOOLEAN
    /\ ended \in {"none", "running", "failed", "success"} /\ builds \in 0..MaxBuilds

(* resolve_work_ref: an alias of the first language, then the work itself  *)
(* or any of that URN or text id; with several aliases, it may be either.  *)
Direct(n) ==
    IF n \in Listed THEN {n} ELSE {w \in Listed : Urn[w] = n \/ listed[w] = n}
Named(n) == {a \in aliases : a.name = n}
First(n) == {a \in Named(n) : \A b \in Named(n) : a.language <= b.language}
Resolve(n) ==
    IF Named(n) = {} THEN {Direct(n)} ELSE {Direct(a.target) : a \in First(n)}

(* Of the works whose URN is the id of w, w replaces those of its language *)
(* and is looked up before the others.                                     *)
OwnsId(w) ==
    \A v \in Works \ {w} : Urn[v] = w =>
        /\ Urn[w] = w /\ Language[w] <= Language[v]
        /\ Language[w] = Language[v] =>
              Collection[w] \in {"perseus", "first1k"} /\ Collection[v] \in {"phi", "tlg"}

(* What a build that succeeded registered can be read and agrees: the book *)
(* file, the artifact row and the citations are of one edition, and the    *)
(* work is found under its id, whatever earlier builds left behind, unless *)
(* its sources give that id to others as a URN; works that were built      *)
(* apart and minted one text id are found as one.                          *)
SameText(w) == {v \in Listed : listed[v] = listed[w]}
BuiltFits ==
    ended = "success" => \A w \in Surviving :
        /\ file[w] = artifact[w] /\ refs[w] = artifact[w]
        /\ witness[w] = listed[w]
        /\ OwnsId(w) => Resolve(w) = {SameText(w)}

(* After a build that succeeded no Sanskrit JSON text is listed beside its *)
(* GRETIL twin, no legacy text beside one of its language that Perseus or  *)
(* First1K has under its URN, and none beside a First1K text that is       *)
(* listed under the same text id, even if the two were built by different  *)
(* commands and builds failed in between.  (Ids that were the same when    *)
(* minted are another matter: OverlapIsGone.)                              *)
Legacy(v, w) == Collection[v] \in {"phi", "tlg"} /\ Language[v] = Language[w]
SupersededAreGone ==
    ended = "success" => \A v, w \in Listed : v # w =>
        /\ Twin[w] # v
        /\ Legacy(v, w) =>
             /\ Collection[w] \in {"perseus", "first1k"} => Urn[w] # Urn[v]
             /\ Collection[w] = "first1k" => listed[w] # listed[v]

(* READER_DATA_BUILD.md says: "When a First1KGreek text overlaps a legacy  *)
(* TLG row by exact same-language CTS work URN or canonical CTSv2 text id, *)
(* the lower priority legacy row is removed from the visible catalog       *)
(* during build."  The text id is the one that is minted from language,    *)
(* title and incipit.                                                      *)
OverlapIsGone ==
    ended = "success" => \A v, w \in Listed :
        Collection[w] = "first1k" /\ Legacy(v, w)
        => Urn[w] # Urn[v] /\ Minted[w] # Minted[v]

(* READER_DATA_BUILD.md says of stale classifier rows that they "must not  *)
(* survive as orphan metadata".                                            *)
ClassifiedAreListed == classified \subseteq Listed

(* READER_DATA_BUILD.md says of a slice that it "must not globally wipe    *)
(* aliases": a work it did not select is deleted whole or keeps its rows,  *)
(* its file and the alias of its id, unless a selected one has its id for  *)
(* a URN or its text id.                                                   *)
Selected(w) == w \in regs \/ \E i \in todo : Stream[i] = Book[w]
OwnAlias(w) == [name |-> w, language |-> Language[w], target |-> listed[w]]
NameTaken(w) ==
    \E v \in Surviving :
        listed[v] = listed[w] \/ (Urn[v] = w /\ Language[v] = Language[w])
SliceKeepsOthers ==
    [][sliced /\ pc # "idle" => \A w \in Listed :
          \/ Selected(w) \/ listed'[w] = None
          \/ /\ listed'[w] = listed[w] /\ artifact'[w] = artifact[w]
             /\ refs'[w] = refs[w] /\ witness'[w] = witness[w] /\ file'[w] = file[w]
             /\ OwnAlias(w) \in aliases \ aliases' => NameTaken(w)]_vars

(* READER_DATA_BUILD.md says that "equivalent legacy/CTS work and author   *)
(* ids must still keep their generated metadata".                          *)
SyncKeeps ==
    [][\A ids \in Tables, merge \in BOOLEAN :
          Sync(ids, merge) => ids \cap classified \cap Listed \subseteq classified']_vars
=============================================================================
