---------------------------- MODULE BasicStoreProofs ----------------------------
(* Proofs about BasicStore, for all documents, names, change sets and bounds:     *)
(* what is saved survives, what the empty prefix means, that changes can be       *)
(* undone, that imports are whole and keep blank nodes apart, that only RDF is    *)
(* stored, and that all reads agree.                                              *)
EXTENDS BasicStore, FiniteSetTheorems, TLAPS

-------------------------------------------------------------------------------
(* Saved documents.                                                             *)

\* A file with the document of the last save that returned, or a later one.
Good(f) == Whole(files[f]) /\ files[f].number >= saved

Safe == saved > 0 /\ ~cutShort /\ ~stranded

\* Before the present save, or after one that was cut off, the document is in the
\* save file, or in the partial one if there is no other.
AtRest == IF files["file"] = Absent THEN Good("part") ELSE Good("file")

\* Where the document is, as the save goes on.
WhereSafe ==
    /\ saving.at \in {"idle", "create"} => AtRest
    /\ saving.at = "write" => Good("file")
    /\ saving.at = "remove" => Good("file") /\ Good("part")
    /\ saving.at = "rename" => Good("part") /\ (files["file"] = Absent \/ Good("file"))

SavingOK ==
    \/ saving = Idle
    \/ /\ saving = [at |-> saving.at, doc |-> saving.doc]
       /\ saving.at \in {"create", "write", "remove", "rename"}
       /\ Whole(saving.doc) /\ saving.doc.number = saves
       /\ saving.at \in {"remove", "rename"} =>
             files["part"] = saving.doc \/ (files["part"] = Cut /\ cutShort)

SavesInv ==
    /\ files = [f \in {"file", "part"} |-> files[f]]
    /\ saves \in Nat /\ saved \in Nat /\ saved <= saves
    /\ SavingOK
    /\ Safe => WhereSafe

\* Steps that leave the disk alone.
LEMMA DiskUntouched == SavesInv /\ UNCHANGED disk => SavesInv'
  BY DEF SavesInv, SavingOK, Safe, WhereSafe, AtRest, Good, Whole, disk

LEMMA BeginSaveKeeps == SavesInv /\ BeginSave => SavesInv'
<1>. SUFFICES ASSUME SavesInv, BeginSave PROVE SavesInv'
  OBVIOUS
<1>1. saving' = [at |-> "create", doc |-> Document] /\ saves' = saves + 1
  BY DEF BeginSave
<1>2. Whole(Document) /\ Document.number = saves + 1
  BY DEF Document, Whole
<1>3. SavingOK'
  BY <1>1, <1>2 DEF SavingOK, Whole
<1>4. UNCHANGED <<files, saved, cutShort, stranded>> /\ saving = Idle
  BY DEF BeginSave, Unlocked
<1>5. Safe' => WhereSafe'
  BY <1>1, <1>4 DEF SavesInv, Safe, WhereSafe, AtRest, Good, Whole, Idle
<1>. QED  BY <1>1, <1>3, <1>4, <1>5 DEF SavesInv

LEMMA CreateFileKeeps == SavesInv /\ CreateFile => SavesInv'
<1>. SUFFICES ASSUME SavesInv, CreateFile PROVE SavesInv'
  OBVIOUS
<1>1. /\ saving.at = "create" /\ saving' = [saving EXCEPT !.at = "write"]
      /\ UNCHANGED <<saves, saved, cutShort>>
  BY DEF CreateFile, SaveStep, SaveOther
<1>2. saving' = [at |-> "write", doc |-> saving.doc] /\ Whole(saving.doc)
      /\ saving.doc.number = saves
  BY <1>1 DEF SavesInv, SavingOK, Idle
<1>3. SavingOK'
  BY <1>1, <1>2 DEF SavingOK, Whole
<1>4. files' = [f \in {"file", "part"} |-> files'[f]]
  BY DEF CreateFile, SavesInv
<1>5. Safe' => Good("file")'
  <2>. SUFFICES ASSUME Safe' PROVE Good("file")'
    OBVIOUS
  <2>1. Safe /\ ~(files["file"] = Absent /\ Whole(files["part"]))
    <3>1. saved > 0 /\ ~cutShort
      BY <1>1 DEF Safe
    <3>2. stranded' = (stranded \/ (files["file"] = Absent /\ Whole(files["part"]))) /\ ~stranded'
      BY DEF Safe, CreateFile
    <3>3. ~(stranded \/ (files["file"] = Absent /\ Whole(files["part"])))
      BY <3>2, Zenon
    <3>. QED  BY <3>1, <3>3 DEF Safe
  <2>2. AtRest
    BY <1>1, <2>1 DEF SavesInv, WhereSafe
  <2>3. files["file"] # Absent /\ Good("file")
    BY <2>1, <2>2 DEF AtRest, Good
  <2>. QED  BY <1>1, <2>3 DEF CreateFile, Good, Whole
<1>6. Safe' => WhereSafe'
  BY <1>2, <1>5 DEF WhereSafe
<1>. QED  BY <1>1, <1>3, <1>4, <1>6 DEF SavesInv

LEMMA WritePartKeeps == SavesInv /\ WritePart => SavesInv'
<1>. SUFFICES ASSUME SavesInv, WritePart PROVE SavesInv'
  OBVIOUS
<1>1. /\ saving.at = "write" /\ saving' = [saving EXCEPT !.at = "remove"]
      /\ UNCHANGED <<saves, saved, stranded>>
  BY DEF WritePart, SaveStep, SaveOther
<1>2. saving' = [at |-> "remove", doc |-> saving.doc] /\ Whole(saving.doc)
      /\ saving.doc.number = saves
  BY <1>1 DEF SavesInv, SavingOK, Idle
<1>3. /\ files' = [f \in {"file", "part"} |-> files'[f]] /\ files'["file"] = files["file"]
      /\ \/ files'["part"] = saving.doc /\ cutShort' = cutShort
         \/ files'["part"] = Cut /\ cutShort' = TRUE
  BY DEF WritePart, SavesInv
<1>4. SavingOK'
  BY <1>1, <1>2, <1>3 DEF SavingOK, Whole
<1>5. Safe' => Good("file")' /\ Good("part")'
  <2>. SUFFICES ASSUME Safe' PROVE Good("file")' /\ Good("part")'
    OBVIOUS
  <2>1. files'["part"] = saving.doc /\ Safe
    BY <1>1, <1>3 DEF Safe
  <2>2. Good("file")
    BY <1>1, <2>1 DEF SavesInv, WhereSafe
  <2>3. Good("file")'
    BY <1>1, <1>3, <2>2 DEF Good, Whole
  <2>4. Good("part")'
    BY <1>1, <1>2, <2>1 DEF Good, Whole, SavesInv
  <2>. QED  BY <2>3, <2>4
<1>6. Safe' => WhereSafe'
  BY <1>2, <1>5 DEF WhereSafe
<1>. QED  BY <1>1, <1>3, <1>4, <1>6 DEF SavesInv

\* A save that ends with the save file as it was and the partial file anyhow.
LEMMA CutOffKeeps ==
  ASSUME SavesInv, saving.at = "write", saving' = Idle,
         UNCHANGED <<saves, saved, cutShort, stranded>>,
         files' = [f \in {"file", "part"} |-> files'[f]], files'["file"] = files["file"]
  PROVE  SavesInv'
<1>1. saving.at = "write" /\ saving' = Idle /\ UNCHANGED <<saves, saved, cutShort, stranded>>
  OBVIOUS
<1>2. files' = [f \in {"file", "part"} |-> files'[f]] /\ files'["file"] = files["file"]
  OBVIOUS
<1>3. Safe' => AtRest'
  <2>. SUFFICES ASSUME Safe' PROVE AtRest'
    OBVIOUS
  <2>1. Good("file")
    BY <1>1 DEF SavesInv, WhereSafe, Safe
  <2>2. files["file"] # Absent
    BY <2>1 DEF Good, Whole, Absent
  <2>. QED  BY <1>1, <1>2, <2>1, <2>2 DEF AtRest, Good, Whole
<1>4. Safe' => WhereSafe'
  BY <1>1, <1>3 DEF WhereSafe, Idle
<1>. QED  BY <1>1, <1>2, <1>4 DEF SavesInv, SavingOK

LEMMA WriteFailsKeeps == SavesInv /\ WriteFails => SavesInv'
<1>. SUFFICES ASSUME SavesInv, WriteFails PROVE SavesInv'
  OBVIOUS
<1>1. saving.at = "write" /\ saving' = Idle /\ UNCHANGED <<saves, saved, cutShort, stranded>>
  BY DEF WriteFails, SaveOther
<1>2. files' = [f \in {"file", "part"} |-> files'[f]] /\ files'["file"] = files["file"]
  BY DEF WriteFails, SavesInv
<1>. QED  BY <1>1, <1>2, CutOffKeeps

LEMMA RemoveFileKeeps == SavesInv /\ RemoveFile => SavesInv'
<1>. SUFFICES ASSUME SavesInv, RemoveFile PROVE SavesInv'
  OBVIOUS
<1>1. /\ saving.at = "remove" /\ saving' = [saving EXCEPT !.at = "rename"]
      /\ UNCHANGED <<saves, saved, cutShort, stranded>>
  BY DEF RemoveFile, SaveStep, SaveOther
<1>2. /\ saving' = [at |-> "rename", doc |-> saving.doc] /\ Whole(saving.doc)
      /\ saving.doc.number = saves
      /\ files["part"] = saving.doc \/ (files["part"] = Cut /\ cutShort)
  BY <1>1 DEF SavesInv, SavingOK, Idle
<1>3. /\ files' = [f \in {"file", "part"} |-> files'[f]] /\ files'["part"] = files["part"]
      /\ files'["file"] \in {Absent, files["file"]}
  BY DEF RemoveFile, SavesInv
<1>4. SavingOK'
  BY <1>1, <1>2, <1>3 DEF SavingOK, Whole
<1>5. Safe' => Good("part")' /\ (files'["file"] = Absent \/ Good("file")')
  BY <1>1, <1>3 DEF SavesInv, WhereSafe, Safe, Good, Whole
<1>6. Safe' => WhereSafe'
  BY <1>2, <1>5 DEF WhereSafe
<1>. QED  BY <1>1, <1>3, <1>4, <1>6 DEF SavesInv

LEMMA RenamePartKeeps == SavesInv /\ RenamePart => SavesInv'
<1>. SUFFICES ASSUME SavesInv, RenamePart PROVE SavesInv'
  OBVIOUS
<1>1. /\ saving.at = "rename" /\ saving' = Idle /\ saved' = saves /\ saves' = saves
      /\ cutShort' = ~Whole(files["part"])
      /\ files' = [file |-> files["part"], part |-> Absent]
  BY DEF RenamePart, SaveOther
<1>2. /\ saving.doc.number = saves
      /\ files["part"] = saving.doc \/ files["part"] = Cut
  BY <1>1 DEF SavesInv, SavingOK, Idle
<1>3. files' = [f \in {"file", "part"} |-> files'[f]] /\ files'["file"] = files["part"]
  BY <1>1
<1>4. ~cutShort' => Whole(files["part"]) /\ files["part"] = saving.doc
  <2>1. ~cutShort' => Whole(files["part"])
    BY <1>1, Zenon
  <2>2. ~Whole(Cut)
    BY DEF Whole, Cut
  <2>. QED  BY <1>2, <2>1, <2>2
<1>5. Safe' => AtRest'
  <2>. SUFFICES ASSUME Safe' PROVE AtRest'
    OBVIOUS
  <2>1. Whole(files["part"]) /\ files["part"] = saving.doc
    BY <1>4 DEF Safe
  <2>2. files'["file"] # Absent
    BY <1>3, <2>1 DEF Whole, Absent
  <2>3. Good("file")'
    BY <1>1, <1>2, <1>3, <2>1 DEF Good, Whole, SavesInv
  <2>. QED  BY <2>2, <2>3 DEF AtRest
<1>6. Safe' => WhereSafe'
  BY <1>1, <1>5 DEF WhereSafe, Idle
<1>. QED  BY <1>1, <1>3, <1>6 DEF SavesInv, SavingOK

LEMMA RenameFailsKeeps == SavesInv /\ RenameFails => SavesInv'
<1>. SUFFICES ASSUME SavesInv, RenameFails PROVE SavesInv'
  OBVIOUS
<1>1. /\ saving.at = "rename" /\ saving' = Idle
      /\ UNCHANGED <<files, saves, saved, cutShort, stranded>>
  BY DEF RenameFails, SaveOther
<1>2. Safe' => AtRest'
  BY <1>1 DEF SavesInv, WhereSafe, Safe, AtRest, Good, Whole
<1>3. Safe' => WhereSafe'
  BY <1>1, <1>2 DEF WhereSafe, Idle
<1>. QED  BY <1>1, <1>3 DEF SavesInv, SavingOK

\* Wherever the process ends, the document is where the next save expects it.
LEMMA CrashKeeps == SavesInv /\ Crash => SavesInv'
<1>. SUFFICES ASSUME SavesInv, Crash PROVE SavesInv'
  OBVIOUS
<1>. SUFFICES ASSUME UNCHANGED files PROVE SavesInv'
  <2>1. CASE saving.at = "write" /\ files' = [files EXCEPT !["part"] = Cut]
    <3>1. saving' = Idle /\ UNCHANGED <<saves, saved, cutShort, stranded>>
      BY DEF Crash
    <3>2. files' = [f \in {"file", "part"} |-> files'[f]] /\ files'["file"] = files["file"]
      BY <2>1 DEF SavesInv
    <3>. QED  BY <2>1, <3>1, <3>2, CutOffKeeps
  <2>. QED  BY <2>1 DEF Crash
<1>1. saving' = Idle /\ UNCHANGED <<files, saves, saved, cutShort, stranded>>
  BY DEF Crash
<1>2. Safe' => AtRest'
  <2>. SUFFICES ASSUME Safe' PROVE AtRest'
    OBVIOUS
  <2>1. saving.at \in {"idle", "create", "write", "remove", "rename"}
    BY DEF SavesInv, SavingOK, Idle
  <2>2. AtRest \/ Good("file")
    BY <1>1, <2>1 DEF SavesInv, WhereSafe, Safe, AtRest
  <2>3. Good("file") => files["file"] # Absent
    BY DEF Good, Whole, Absent
  <2>. QED  BY <1>1, <2>2, <2>3 DEF AtRest, Good, Whole
<1>3. Safe' => WhereSafe'
  BY <1>1, <1>2 DEF WhereSafe, Idle
<1>. QED  BY <1>1, <1>3 DEF SavesInv, SavingOK

\* The operations of the client leave the disk alone.
LEMMA ClientKeepsDisk ==
  ASSUME NEW T, Write(T)
  PROVE  UNCHANGED disk
  BY DEF Write

LEMMA SavesStep == SavesInv /\ [Next]_vars => SavesInv'
<1>. SUFFICES ASSUME SavesInv, [Next]_vars PROVE SavesInv'
  OBVIOUS
<1>1. ASSUME NEW t, Add(t) \/ RemoveMatching(t) PROVE SavesInv'
  BY <1>1, ClientKeepsDisk, DiskUntouched DEF Add, RemoveMatching
<1>2. ASSUME NEW cs, ApplyChanges(cs) \/ RevertChanges(cs) PROVE SavesInv'
  BY <1>2, ClientKeepsDisk, DiskUntouched DEF ApplyChanges, RevertChanges
<1>3. ASSUME NEW p, NEW l, NEW c, Clear \/ AddBlankNode(l, c) \/ AddAtUniqueUri(p, c) 
      PROVE  SavesInv'
  BY <1>3, ClientKeepsDisk, DiskUntouched DEF Clear, AddBlankNode, AddAtUniqueUri
<1>4. ASSUME NEW p, NEW u, SetBaseUri(u) \/ AddPrefix(p, u) PROVE SavesInv'
  BY <1>4, DiskUntouched DEF SetBaseUri, AddPrefix
<1>5. ASSUME NEW doc, NEW base, NEW mode, Import(doc, base, mode) \/ ImportString(doc, base, mode)
      PROVE  SavesInv'
  BY <1>5, DiskUntouched DEF Import, ImportString, ImportDocument
<1>6. CASE Load
  BY <1>6, DiskUntouched DEF Load
<1>7. CASE UNCHANGED vars
  BY <1>7, DiskUntouched DEF vars
<1>. QED
  BY <1>1, <1>2, <1>3, <1>4, <1>5, <1>6, <1>7, BeginSaveKeeps, CreateFileKeeps,
     WritePartKeeps, WriteFailsKeeps, RemoveFileKeeps, RenamePartKeeps, RenameFailsKeeps,
     CrashKeeps
  DEF Next

LEMMA SavesInvSuffices == SavesInv => SomeCopySurvives
<1>. SUFFICES ASSUME SavesInv, Safe
              PROVE  \E f \in {"file", "part"} : Good(f)
  BY DEF SomeCopySurvives, Safe, Good
<1>1. saving.at \in {"idle", "create", "write", "remove", "rename"}
  BY DEF SavesInv, SavingOK, Idle
<1>. QED  BY <1>1 DEF SavesInv, WhereSafe, AtRest

\* What a save has written once it returned is never lost to a later save that
\* fails or is cut off, as long as no save lost data unnoticed or was begun when
\* only the partial file was left (save).
THEOREM SavedDocumentsSurvive == Spec => []SomeCopySurvives
<1>1. Init => SavesInv
  BY DEF Init, SavesInv, SavingOK, Safe
<1>. QED  BY <1>1, SavesStep, SavesInvSuffices, PTL DEF Spec

-------------------------------------------------------------------------------
(* The empty prefix.                                                            *)

EmptyInv ==
    /\ prefixes = [p \in Prefixes \cup {Empty} |-> prefixes[p]]
    /\ overridden \in BOOLEAN
    /\ baseUri # NoUri /\ ~overridden => prefixes[Empty] = baseUri

\* An import gives a meaning only to prefixes that have none.
LEMMA ImportKeepsKnown ==
  ASSUME NEW known, NEW doc, NEW p \in DOMAIN known, known[p] # NoUri
  PROVE  ImportPrefixes(known, doc)[p] = known[p]
  BY DEF ImportPrefixes, AddPrefixOnImport

\* With the same base URI, and prefixes that are the same or an import's.
LEMMA ImportKeepsEmpty ==
  ASSUME EmptyInv, NEW doc, UNCHANGED <<baseUri, overridden>>,
         prefixes' = prefixes \/ prefixes' = ImportPrefixes(prefixes, doc)
  PROVE  EmptyInv'
<1>1. Empty \in DOMAIN prefixes
  BY DEF EmptyInv
<1>2. prefixes' = [p \in Prefixes \cup {Empty} |-> prefixes'[p]]
  BY DEF EmptyInv, ImportPrefixes
<1>3. prefixes[Empty] # NoUri => prefixes'[Empty] = prefixes[Empty]
  BY <1>1, ImportKeepsKnown
<1>. QED  BY <1>2, <1>3 DEF EmptyInv

LEMMA ClientKeepsEmpty ==
  ASSUME EmptyInv, NEW T, Write(T)
  PROVE  EmptyInv'
  BY DEF EmptyInv, Write

LEMMA EmptyStep == EmptyInv /\ [Next]_vars => EmptyInv'
<1>. SUFFICES ASSUME EmptyInv, [Next]_vars PROVE EmptyInv'
  OBVIOUS
<1>1. ASSUME NEW t, Add(t) \/ RemoveMatching(t) PROVE EmptyInv'
  BY <1>1, ClientKeepsEmpty DEF Add, RemoveMatching
<1>2. ASSUME NEW cs, ApplyChanges(cs) \/ RevertChanges(cs) PROVE EmptyInv'
  BY <1>2, ClientKeepsEmpty DEF ApplyChanges, RevertChanges
<1>3. ASSUME NEW p, NEW l, NEW c, Clear \/ AddBlankNode(l, c) \/ AddAtUniqueUri(p, c) 
      PROVE  EmptyInv'
  BY <1>3, ClientKeepsEmpty DEF Clear, AddBlankNode, AddAtUniqueUri
<1>4. ASSUME NEW u, SetBaseUri(u) PROVE EmptyInv'
  BY <1>4 DEF SetBaseUri, EmptyInv
<1>5. ASSUME NEW p \in Prefixes \cup {Empty}, NEW u, AddPrefix(p, u) PROVE EmptyInv'
  <2>1. /\ prefixes' = [prefixes EXCEPT ![p] = u] /\ baseUri' = baseUri
        /\ overridden' = (overridden \/ p = Empty)
    BY <1>5 DEF AddPrefix
  <2>2. overridden' \in BOOLEAN /\ (~overridden' => ~overridden /\ p # Empty)
    BY <2>1, Zenon DEF EmptyInv
  <2>. QED  BY <2>1, <2>2 DEF EmptyInv
<1>6. ASSUME NEW doc, NEW base, NEW mode, Import(doc, base, mode) \/ ImportString(doc, base, mode)
      PROVE  EmptyInv'
  <2>1. /\ UNCHANGED <<baseUri, overridden>>
        /\ prefixes' = prefixes \/ prefixes' = ImportPrefixes(prefixes, doc)
    BY <1>6 DEF Import, ImportString, ImportDocument
  <2>. QED  BY <2>1, ImportKeepsEmpty
<1>7. CASE Load
  <2>. DEFINE known == [NoPrefixes EXCEPT ![Empty] = FileUrl]
  <2>1. /\ baseUri' = FileUrl /\ overridden' = FALSE
        /\ prefixes' = ImportPrefixes(known, files["file"])
    BY <1>7 DEF Load, NewStore
  <2>2. DOMAIN known = Prefixes \cup {Empty} /\ known[Empty] = FileUrl
    BY DEF NoPrefixes
  <2>3. FileUrl # NoUri
    BY BasicStoreConstants
  <2>. HIDE DEF known
  <2>4. prefixes'[Empty] = FileUrl
    BY <2>1, <2>2, <2>3, ImportKeepsKnown
  <2>5. prefixes' = [p \in Prefixes \cup {Empty} |-> prefixes'[p]]
    BY <2>1, <2>2 DEF ImportPrefixes
  <2>. QED  BY <2>1, <2>4, <2>5 DEF EmptyInv
<1>8. CASE Crash
  BY <1>8 DEF Crash, NewStore, NoPrefixes, EmptyInv
<1>9. ASSUME UNCHANGED <<contents, overridden>> PROVE EmptyInv'
  BY <1>9 DEF contents, EmptyInv
<1>10. CASE BeginSave \/ CreateFile \/ WritePart \/ WriteFails \/ RemoveFile \/ RenamePart
            \/ RenameFails
  BY <1>9, <1>10 DEF BeginSave, CreateFile, WritePart, WriteFails, RemoveFile, RenamePart,
                     RenameFails, SaveOther, history
<1>11. CASE UNCHANGED vars
  BY <1>9, <1>11 DEF vars, history
<1>. QED
  BY <1>1, <1>2, <1>3, <1>4, <1>5, <1>6, <1>7, <1>8, <1>10, <1>11 DEF Next

LEMMA EmptyInvSuffices == EmptyInv => EmptyPrefixIsBase
  BY DEF EmptyInv, EmptyPrefixIsBase, NameInQuery, Expand

\* Names with the empty prefix mean the same in queries as elsewhere, through
\* all imports, saves and loads, unless the client has said otherwise
\* (setBaseUri, addPrefixOnImport and load).
THEOREM EmptyPrefixAgrees == Spec => []EmptyPrefixIsBase
<1>1. Init => EmptyInv
  BY DEF Init, EmptyInv, NoPrefixes
<1>. QED  BY <1>1, EmptyStep, EmptyInvSuffices, PTL DEF Spec

-------------------------------------------------------------------------------
(* Change sets.  To revert one is to change by its inverse.                      *)

ChangeFold == INSTANCE FoldTheorems
    WITH Op <- LAMBDA r, c, p : IF r.returns # "true" THEN r ELSE ApplyOne(r.triples, c),
         Inv <- LAMBDA x, k, p : TRUE

Flip(c) == [op |-> IF c.op = "add" THEN "remove" ELSE "add", t |-> c.t]
InverseOf(cs) == [i \in 1..Len(cs) |-> Flip(cs[Len(cs) + 1 - i])]

LEMMA ChangeIsFold ==
  ASSUME NEW T, NEW E, NEW cs \in Seq(E)
  PROVE  Change(T, cs) = ChangeFold!Fold(Result(T, "true"), cs, 0)
<1>. DEFINE body(f) == [i \in 0..Len(cs) |->
                IF i = 0 THEN Result(T, "true")
                ELSE IF f[i - 1].returns # "true" THEN f[i - 1]
                ELSE ApplyOne(f[i - 1].triples, cs[i])]
            f == CHOOSE g : g = body(g)
<1>1. Len(cs) \in Nat /\ DOMAIN cs = 1..Len(cs)
  OBVIOUS
<1>2. \E g : g = body(g)
  <2>1. PICK g : ChangeFold!Steps(g, Result(T, "true"), cs, 0)
    BY <1>1, ChangeFold!StepsExist
  <2>. QED  BY <2>1 DEF ChangeFold!Steps
<1>3. f = body(f)
  <2>. HIDE DEF body
  <2>. QED  BY <1>2
<1>4. Change(T, cs) = f[Len(cs)]
  BY DEF Change
<1>. HIDE DEF f
<1>5. ChangeFold!Steps(f, Result(T, "true"), cs, 0)
  BY <1>3 DEF ChangeFold!Steps
<1>. QED  BY <1>1, <1>4, <1>5, ChangeFold!FoldIsLastStep

LEMMA FlipUndoes ==
  ASSUME NEW T, NEW c
  PROVE  ApplyOne(T, Flip(c)) = UndoOne(T, c)
  BY DEF ApplyOne, UndoOne, Flip

LEMMA InverseIsSeq ==
  ASSUME NEW E, NEW cs \in Seq(E)
  PROVE  /\ InverseOf(cs) \in Seq({Flip(c) : c \in E}) /\ Len(InverseOf(cs)) = Len(cs)
         /\ DOMAIN InverseOf(cs) = 1..Len(cs)
<1>1. Len(cs) \in Nat /\ \A i \in 1..Len(cs) : cs[Len(cs) + 1 - i] \in E
  OBVIOUS
<1>. QED  BY <1>1 DEF InverseOf

LEMMA RevertIsChange ==
  ASSUME NEW T, NEW E, NEW cs \in Seq(E)
  PROVE  Revert(T, cs) = Change(T, InverseOf(cs))
<1>. DEFINE ds == InverseOf(cs)
            body(f) == [i \in 0..Len(cs) |->
                IF i = 0 THEN Result(T, "true")
                ELSE IF f[i - 1].returns # "true" THEN f[i - 1]
                ELSE UndoOne(f[i - 1].triples, cs[Len(cs) + 1 - i])]
            f == CHOOSE g : g = body(g)
<1>1. /\ Len(cs) \in Nat /\ Len(ds) = Len(cs) /\ DOMAIN ds = 1..Len(cs)
      /\ ds \in Seq({Flip(c) : c \in E})
  BY InverseIsSeq
<1>2. ASSUME NEW g PROVE body(g) = [i \in 0..Len(ds) |->
                IF i = 0 THEN Result(T, "true")
                ELSE IF g[i - 1].returns # "true" THEN g[i - 1]
                ELSE ApplyOne(g[i - 1].triples, ds[i])]
  <2>1. ASSUME NEW i \in 1..Len(cs)
        PROVE  UndoOne(g[i - 1].triples, cs[Len(cs) + 1 - i]) = ApplyOne(g[i - 1].triples, ds[i])
    <3>1. ds[i] = Flip(cs[Len(cs) + 1 - i])
      BY DEF InverseOf
    <3>. QED  BY <3>1, FlipUndoes
  <2>. HIDE DEF ds
  <2>. QED  BY <1>1, <2>1
<1>. HIDE DEF ds
<1>3. \E g : g = body(g)
  <2>1. PICK g : ChangeFold!Steps(g, Result(T, "true"), ds, 0)
    BY <1>1, ChangeFold!StepsExist
  <2>. HIDE DEF body
  <2>. QED  BY <1>2, <2>1 DEF ChangeFold!Steps
<1>4. f = body(f)
  <2>. HIDE DEF body
  <2>. QED  BY <1>3
<1>5. Revert(T, cs) = f[Len(cs)]
  BY DEF Revert
<1>. HIDE DEF f
<1>6. ChangeFold!Steps(f, Result(T, "true"), ds, 0)
  <2>. HIDE DEF body
  <2>. QED  BY <1>2, <1>4 DEF ChangeFold!Steps
<1>7. Change(T, ds) = ChangeFold!Fold(Result(T, "true"), ds, 0)
  BY <1>1, ChangeIsFold
<1>. QED  BY <1>1, <1>5, <1>6, <1>7, ChangeFold!FoldIsLastStep DEF ds

LEMMA InverseOfInverse ==
  ASSUME NEW nodes, NEW cs \in Seq(ChangeOf(nodes))
  PROVE  InverseOf(InverseOf(cs)) = cs
<1>. DEFINE ds == InverseOf(cs)
            n == Len(cs)
<1>1. n \in Nat /\ Len(ds) = n /\ DOMAIN cs = 1..n
  <2>1. Len(ds) = n
    BY InverseIsSeq
  <2>. QED  BY <2>1
<1>2. ASSUME NEW i \in 1..n PROVE InverseOf(ds)[i] = cs[i]
  <2>1. n + 1 - i \in 1..n /\ n + 1 - (n + 1 - i) = i
    BY <1>1
  <2>2. InverseOf(ds)[i] = Flip(ds[n + 1 - i])
    BY <1>1 DEF InverseOf
  <2>3. ds[n + 1 - i] = Flip(cs[i])
    BY <2>1 DEF InverseOf
  <2>4. cs[i] \in ChangeOf(nodes)
    BY <1>1
  <2>5. Flip(Flip(cs[i])) = cs[i]
    BY <2>4 DEF ChangeOf, Flip
  <2>. QED  BY <2>2, <2>3, <2>5
<1>. HIDE DEF ds
<1>3. InverseOf(ds) = [i \in 1..n |-> InverseOf(ds)[i]]
  BY <1>1 DEF InverseOf
<1>4. cs = [i \in 1..n |-> cs[i]]
  BY <1>1
<1>. QED  BY <1>2, <1>3, <1>4 DEF ds

\* A single change that is accepted is one whose opposite is accepted.
LEMMA OneIsUndone ==
  ASSUME NEW T, NEW c, ApplyOne(T, c).returns = "true"
  PROVE  ApplyOne(ApplyOne(T, c).triples, Flip(c)) = Result(T, "true")
  BY DEF ApplyOne, DoAdd, DoRemove, Result, Flip

LEMMA ChangeIsUndone ==
  ASSUME NEW T, NEW E, NEW cs \in Seq(E), Change(T, cs).returns = "true"
  PROVE  Change(Change(T, cs).triples, InverseOf(cs)) = Result(T, "true")
<1>. DEFINE n == Len(cs)
            ds == InverseOf(cs)
<1>1. /\ n \in Nat /\ DOMAIN cs = 1..n /\ Len(ds) = n /\ DOMAIN ds = 1..n
      /\ ds \in Seq({Flip(c) : c \in E})
  BY InverseIsSeq
<1>2. PICK f : ChangeFold!Steps(f, Result(T, "true"), cs, 0)
  BY <1>1, ChangeFold!StepsExist
<1>3. Change(T, cs) = f[n]
  BY <1>1, <1>2, ChangeIsFold, ChangeFold!FoldIsLastStep
<1>4. /\ f[0] = Result(T, "true")
      /\ \A i \in 1..n : f[i] = IF f[i - 1].returns # "true" THEN f[i - 1]
                                ELSE ApplyOne(f[i - 1].triples, cs[i])
  BY <1>1, <1>2 DEF ChangeFold!Steps
<1>5. PICK g : ChangeFold!Steps(g, Result(f[n].triples, "true"), ds, 0)
  BY <1>1, ChangeFold!StepsExist
<1>6. Change(f[n].triples, ds) = g[n]
  BY <1>1, <1>5, ChangeIsFold, ChangeFold!FoldIsLastStep
<1>7. /\ g[0] = Result(f[n].triples, "true")
      /\ \A i \in 1..n : g[i] = IF g[i - 1].returns # "true" THEN g[i - 1]
                                ELSE ApplyOne(g[i - 1].triples, Flip(cs[n + 1 - i]))
  <2>1. \A i \in 1..n : ds[i] = Flip(cs[n + 1 - i])
    BY DEF InverseOf
  <2>. HIDE DEF ds
  <2>. QED  BY <1>1, <1>5, <2>1 DEF ChangeFold!Steps
<1>. HIDE DEF n, ds
<1>. DEFINE S == {k \in Nat : k <= n =>
                     f[n - k].returns = "true" /\ g[k] = Result(f[n - k].triples, "true")}
<1>8. 0 \in S
  BY <1>1, <1>3, <1>7
<1>9. ASSUME NEW k \in Nat, k \in S PROVE k + 1 \in S
  <2>. SUFFICES ASSUME k + 1 <= n
                PROVE  /\ f[n - (k + 1)].returns = "true"
                       /\ g[k + 1] = Result(f[n - (k + 1)].triples, "true")
    OBVIOUS
  <2>. DEFINE i == n - k
  <2>1. /\ i \in 1..n /\ k + 1 \in 1..n /\ (k + 1) - 1 = k /\ n + 1 - (k + 1) = i
        /\ n - (k + 1) = i - 1
    BY <1>1
  <2>2. f[i].returns = "true" /\ g[k] = Result(f[i].triples, "true")
    BY <1>1, <1>9
  <2>. HIDE DEF i
  <2>3. f[i] = IF f[i - 1].returns # "true" THEN f[i - 1] ELSE ApplyOne(f[i - 1].triples, cs[i])
    BY <1>4, <2>1
  <2>4. f[i - 1].returns = "true" /\ f[i] = ApplyOne(f[i - 1].triples, cs[i])
    BY <2>2, <2>3
  <2>5. g[k + 1] = ApplyOne(f[i].triples, Flip(cs[i]))
    <3>1. g[k].returns = "true" /\ g[k].triples = f[i].triples
      BY <2>2 DEF Result
    <3>2. g[k + 1] = IF g[k].returns # "true" THEN g[k]
                     ELSE ApplyOne(g[k].triples, Flip(cs[i]))
      BY <1>7, <2>1
    <3>. QED  BY <3>1, <3>2
  <2>6. ApplyOne(f[i].triples, Flip(cs[i])) = Result(f[i - 1].triples, "true")
    BY <2>2, <2>4, OneIsUndone
  <2>. QED  BY <2>1, <2>4, <2>5, <2>6
<1>. HIDE DEF S
<1>10. n \in S
  BY <1>1, <1>8, <1>9, ChangeFold!NatSetInduction
<1>11. g[n] = Result(T, "true")
  <2>1. g[n] = Result(f[n - n].triples, "true")
    BY <1>1, <1>10 DEF S
  <2>2. n - n = 0 /\ f[0].triples = T
    BY <1>1, <1>4 DEF Result
  <2>. QED  BY <2>1, <2>2
<1>. QED  BY <1>3, <1>6, <1>11 DEF ds, n

\* What change accepts in full, whatever the contents and however long, revert undoes,
\* and change undoes what revert accepts: neither ever meets a triple that is
\* already there, already gone, or incomplete (change and revert).
THEOREM ChangesCanBeUndone == Spec => []RevertUndoesChange
<1>1. RevertUndoesChange
  <2>. SUFFICES ASSUME NEW cs \in ChangeSets
                PROVE  /\ Change(triples, cs).returns = "true" =>
                              Revert(Change(triples, cs).triples, cs) = Result(triples, "true")
                       /\ Revert(triples, cs).returns = "true" =>
                              Change(Revert(triples, cs).triples, cs) = Result(triples, "true")
    BY DEF RevertUndoesChange
  <2>1. cs \in Seq(ChangeOf(SomeNode))
    BY BasicStoreInputs
  <2>2. \A T : Revert(T, cs) = Change(T, InverseOf(cs))
    BY <2>1, RevertIsChange
  <2>3. InverseOf(cs) \in Seq({Flip(c) : c \in ChangeOf(SomeNode)}) /\ InverseOf(InverseOf(cs)) = cs
    BY <2>1, InverseIsSeq, InverseOfInverse
  <2>. QED  BY <2>1, <2>2, <2>3, ChangeIsUndone
<1>. QED  BY <1>1, PTL

-------------------------------------------------------------------------------
(* What is stored, in the store and in files: complete triples, whose blank nodes *)
(* bear no stamp of an import yet to come.                                       *)

StoredOK(T, k) == T \subseteq Statement /\ Stamped(T, k)
PrefixesOK(f) == \A p \in DOMAIN f : f[p] \in Namespace \cup {NoUri}
DocumentOK(d, k) == StoredOK(d.lines, k) /\ PrefixesOK(d.prefixes)

StoredInv ==
    /\ TypeOK
    /\ SavesInv
    /\ writes \in Nat /\ imports \in Nat
    /\ Stamped(triples, imports)
    /\ \A f \in {"file", "part"} : Whole(files[f]) => DocumentOK(files[f], imports)
    /\ saving # Idle => DocumentOK(saving.doc, imports)

LEMMA BlanksOfUnion ==
  ASSUME NEW T, NEW U
  PROVE  Blanks(T \cup U) = Blanks(T) \cup Blanks(U)
  BY DEF Blanks

LEMMA BlanksOfPart ==
  ASSUME NEW U, NEW T \in SUBSET U
  PROVE  Blanks(T) \subseteq Blanks(U)
  BY DEF Blanks

LEMMA StampsGrow ==
  ASSUME NEW T, NEW k \in Nat, NEW m \in Nat, k <= m, Stamped(T, k)
  PROVE  Stamped(T, m)
<1>1. 1..k \subseteq 1..m
  OBVIOUS
<1>2. Seq(1..k) \subseteq Seq(1..m)
  BY <1>1
<1>. QED  BY <1>2 DEF Stamped

LEMMA StoredUnion ==
  ASSUME NEW T, NEW U, NEW k, StoredOK(T, k), StoredOK(U, k)
  PROVE  StoredOK(T \cup U, k)
  BY BlanksOfUnion DEF StoredOK, Stamped

LEMMA StoredPart ==
  ASSUME NEW U, NEW T \in SUBSET U, NEW k, StoredOK(U, k)
  PROVE  StoredOK(T, k)
  BY BlanksOfPart DEF StoredOK, Stamped

\* The nodes are of different kinds.
LEMMA NodesDiffer ==
  /\ BlankNode \cap (Uri \cup {Relative(x) : x \in Local}) = {}
  /\ BlankNode \cap Resource = {} /\ BlankNode \cap Literal = {}
<1>1. ASSUME NEW n \in BlankNode PROVE DOMAIN n = {"label", "stamps"}
  BY DEF BlankNode
<1>2. ASSUME NEW n \in Uri PROVE DOMAIN n = {"ns", "local"}
  BY DEF Uri
<1>3. ASSUME NEW x \in Local PROVE DOMAIN Relative(x) = {"ns", "local"}
  BY DEF Relative
<1>4. {"label", "stamps"} # {"ns", "local"}
  <2>1. "label" \in {"label", "stamps"} /\ "label" \notin {"ns", "local"}
    OBVIOUS
  <2>. QED  BY <2>1
<1>. QED  BY <1>1, <1>2, <1>3, <1>4, BasicStoreConstants DEF Resource

-------------------------------------------------------------------------------
(* Writes.                                                                      *)

LEMMA CompleteIsStatement ==
  ASSUME NEW t \in SomeNode \X SomeNode \X SomeNode, Complete(t)
  PROVE  t \in Statement
<1>1. t = <<t[1], t[2], t[3]>> /\ t[3] \in SomeNode
  OBVIOUS
<1>2. t[1] \in Resource \cup BlankNode /\ t[2] \in Resource /\ t[3] \in Node
  BY <1>1 DEF Complete, SomeNode
<1>. QED  BY <1>1, <1>2 DEF Statement

LEMMA AddIsStored ==
  ASSUME NEW T, NEW k, StoredOK(T, k), NEW t \in SomeNode \X SomeNode \X SomeNode, Stamped({t}, k)
  PROVE  StoredOK(DoAdd(T, t).triples, k)
<1>1. CASE Complete(t)
  <2>1. StoredOK({t}, k)
    BY <1>1, CompleteIsStatement DEF StoredOK
  <2>2. DoAdd(T, t).triples \in {T, T \cup {t}}
    BY DEF DoAdd, Result
  <2>. QED  BY <2>1, <2>2, StoredUnion
<1>2. CASE ~Complete(t)
  BY <1>2 DEF DoAdd, Result
<1>. QED  BY <1>1, <1>2

LEMMA RemovalIsStored ==
  ASSUME NEW T, NEW k, StoredOK(T, k), NEW t
  PROVE  StoredOK(DoRemove(T, t).triples, k) /\ StoredOK(Remove(T, t).triples, k)
<1>1. DoRemove(T, t).triples \in SUBSET T /\ Remove(T, t).triples \in SUBSET T
  BY DEF DoRemove, Remove, Result
<1>. QED  BY <1>1, StoredPart

LEMMA OneAnswers ==
  ASSUME NEW T, NEW c
  PROVE  /\ ApplyOne(T, c) = Result(ApplyOne(T, c).triples, ApplyOne(T, c).returns)
         /\ ApplyOne(T, c).returns \in {"true", "false", "throws"}
<1>1. ApplyOne(T, c) \in {Result(T, "throws"), Result(T, "false"), Result(T \cup {c.t}, "true"),
                         Result(T \ {c.t}, "true")}
  BY DEF ApplyOne, DoAdd, DoRemove
<1>. QED  BY <1>1 DEF Result

LEMMA ChangeIsStored ==
  ASSUME NEW T, NEW k, StoredOK(T, k), NEW cs \in Seq(ChangeOf(SomeNode)),
         \A i \in DOMAIN cs : Stamped({cs[i].t}, k)
  PROVE  StoredOK(Change(T, cs).triples, k)
<1>. DEFINE E == {c \in ChangeOf(SomeNode) : Stamped({c.t}, k)}
            Answers == {"true", "false", "throws"}
            R == {Result(U, a) : U \in {V \in SUBSET Statement : Stamped(V, k)}, a \in Answers}
            base == Result(T, "true")
<1>1. cs \in Seq(E)
  <2>1. Len(cs) \in Nat /\ DOMAIN cs = 1..Len(cs) /\ \A i \in 1..Len(cs) : cs[i] \in ChangeOf(SomeNode)
    OBVIOUS
  <2>2. \A i \in 1..Len(cs) : cs[i] \in E
    BY <2>1
  <2>3. cs = [i \in 1..Len(cs) |-> cs[i]]
    BY <2>1
  <2>. HIDE DEF E
  <2>. QED  BY <2>1, <2>2, <2>3
<1>2. base \in R
  BY DEF StoredOK
<1>3. ASSUME NEW r \in R, NEW c \in E
      PROVE  (IF r.returns # "true" THEN r ELSE ApplyOne(r.triples, c)) \in R
  <2>1. r.triples \subseteq Statement /\ Stamped(r.triples, k)
    BY DEF Result
  <2>2. c.t \in SomeNode \X SomeNode \X SomeNode /\ Stamped({c.t}, k)
    BY DEF ChangeOf
  <2>3. StoredOK(ApplyOne(r.triples, c).triples, k)
    BY <2>1, <2>2, AddIsStored, RemovalIsStored DEF StoredOK, ApplyOne
  <2>4. /\ ApplyOne(r.triples, c)
             = Result(ApplyOne(r.triples, c).triples, ApplyOne(r.triples, c).returns)
        /\ ApplyOne(r.triples, c).returns \in Answers
    BY OneAnswers
  <2>5. ApplyOne(r.triples, c) \in R
    BY <2>3, <2>4 DEF StoredOK
  <2>. QED  BY <2>5
<1>. HIDE DEF R, E, base
<1>4. ChangeFold!Fold(base, cs, 0) \in R
  BY <1>1, <1>2, <1>3, ChangeFold!FoldKeeps
<1>5. Change(T, cs) \in R
  BY <1>4, ChangeIsFold DEF base
<1>. QED  BY <1>5 DEF R, StoredOK, Result

LEMMA RevertIsStored ==
  ASSUME NEW T, NEW k, StoredOK(T, k), NEW cs \in Seq(ChangeOf(SomeNode)),
         \A i \in DOMAIN cs : Stamped({cs[i].t}, k)
  PROVE  StoredOK(Revert(T, cs).triples, k)
<1>. DEFINE ds == InverseOf(cs)
<1>1. \A i \in 1..Len(cs) : ds[i] = Flip(cs[Len(cs) + 1 - i])
  BY DEF InverseOf
<1>2. DOMAIN ds = 1..Len(cs) /\ Len(ds) = Len(cs)
  BY InverseIsSeq
<1>. HIDE DEF ds
<1>3. ASSUME NEW i \in 1..Len(cs) PROVE ds[i] \in ChangeOf(SomeNode) /\ Stamped({ds[i].t}, k)
  <2>1. Len(cs) + 1 - i \in DOMAIN cs
    OBVIOUS
  <2>2. cs[Len(cs) + 1 - i] \in ChangeOf(SomeNode) /\ Stamped({cs[Len(cs) + 1 - i].t}, k)
    BY <2>1
  <2>3. \A c \in ChangeOf(SomeNode) : Flip(c) \in ChangeOf(SomeNode) /\ Flip(c).t = c.t
    BY DEF Flip, ChangeOf
  <2>. QED  BY <1>1, <2>2, <2>3
<1>4. ds \in Seq(ChangeOf(SomeNode))
  <2>1. ds = [i \in 1..Len(cs) |-> ds[i]] /\ Len(cs) \in Nat
    BY DEF ds, InverseOf
  <2>2. ds \in [1..Len(cs) -> ChangeOf(SomeNode)]
    <3>. HIDE DEF ds
    <3>. QED  BY <1>3, <2>1
  <2>. HIDE DEF ds
  <2>. QED  BY <2>1, <2>2
<1>5. StoredOK(Change(T, ds).triples, k)
  BY <1>2, <1>3, <1>4, ChangeIsStored
<1>. QED  BY <1>5, RevertIsChange DEF ds

\* Steps of the client that write.
LEMMA WriteKeepsStored ==
  ASSUME StoredInv, NEW T, Write(T), StoredOK(T, imports)
  PROVE  StoredInv'
<1>1. /\ triples' = T /\ writes' = writes + 1 /\ writes + imports + saves < MaxOperations
      /\ UNCHANGED <<backend, baseUri, prefixes, imports, overridden, disk>>
  BY DEF Write, Count, Room
<1>2. SavesInv'
  BY <1>1, DiskUntouched DEF StoredInv
<1>3. writes' \in Nat /\ saves \in Nat /\ MaxOperations \in Nat
  BY <1>1, BasicStoreConstants DEF StoredInv, SavesInv
<1>4. TypeOK'
  BY <1>1, <1>3 DEF StoredInv, TypeOK, StoredOK, disk
<1>. QED
  BY <1>1, <1>2, <1>3, <1>4 DEF StoredInv, StoredOK, disk, DocumentOK, Whole

-------------------------------------------------------------------------------
(* Documents.                                                                   *)

\* The lines of a document, or of a file that was saved.
LinesOK(lines, k) ==
    /\ lines \subseteq DocumentLine \cup Statement
    /\ Stamped(lines, k)

LEMMA DocumentLinesOK ==
  ASSUME NEW lines \in SUBSET DocumentLine, NEW k \in Nat
  PROVE  LinesOK(lines, k)
<1>1. ASSUME NEW n \in DocumentResource \cup Literal, n \in BlankNode PROVE n.stamps = <<>>
  BY <1>1, NodesDiffer DEF DocumentResource
<1>2. ASSUME NEW n \in Blanks(lines) PROVE n.stamps \in Seq(1..k)
  <2>1. n \in BlankNode /\ n \in DocumentResource \cup Literal
    BY DEF Blanks, DocumentLine
  <2>2. <<>> \in Seq(1..k)
    OBVIOUS
  <2>. QED  BY <1>1, <2>1, <2>2
<1>. QED  BY <1>2 DEF LinesOK, Stamped

\* A node as it is read: it is absolute, and blank if it was, with the stamp of
\* the import that reads it.
LEMMA ReadNodeIs ==
  ASSUME NEW n \in DocumentResource \cup Node, NEW base \in Namespace, NEW k \in Nat
  PROVE  /\ ReadNode(n, base, k) \in Node
         /\ n \notin Literal => ReadNode(n, base, k) \in Resource \cup BlankNode
         /\ ReadNode(n, base, k) \in BlankNode =>
               /\ n \in BlankNode
               /\ ReadNode(n, base, k)
                    = IF k = 0 THEN n ELSE [label |-> n.label, stamps |-> Append(n.stamps, k)]
<1>1. CASE n \in BlankNode
  <2>1. n = [label |-> n.label, stamps |-> n.stamps] /\ n.label \in Label /\ n.stamps \in Seq(Nat)
    BY <1>1 DEF BlankNode
  <2>2. ReadNode(n, base, k) = IF k = 0 THEN n ELSE [label |-> n.label, stamps |-> Append(n.stamps, k)]
    <3>1. \A s : [n EXCEPT !.stamps = s] = [label |-> n.label, stamps |-> s]
      BY <2>1
    <3>. QED  BY <1>1, <3>1 DEF ReadNode
  <2>3. Append(n.stamps, k) \in Seq(Nat)
    BY <2>1
  <2>4. [label |-> n.label, stamps |-> Append(n.stamps, k)] \in BlankNode
    BY <2>1, <2>3 DEF BlankNode
  <2>. QED  BY <1>1, <2>2, <2>4 DEF Node
<1>2. CASE n \notin BlankNode /\ n \in {Relative(x) : x \in Local}
  <2>1. PICK x \in Local : n = Relative(x)
    BY <1>2
  <2>2. ReadNode(n, base, k) = [ns |-> base, local |-> x]
    BY <1>2, <2>1 DEF ReadNode, Relative
  <2>3. [ns |-> base, local |-> x] \in Uri
    BY DEF Uri
  <2>. QED  BY <2>2, <2>3, NodesDiffer DEF Node, Resource
<1>3. CASE n \notin BlankNode /\ n \notin {Relative(x) : x \in Local}
  <2>1. ReadNode(n, base, k) = n
    BY <1>3 DEF ReadNode
  <2>2. n \notin [label : Label, stamps : {<<>>}]
    <3>1. <<>> \in Seq(Nat)
      OBVIOUS
    <3>2. [label : Label, stamps : {<<>>}] \subseteq BlankNode
      BY <3>1 DEF BlankNode
    <3>. QED  BY <1>3, <3>2
  <2>. QED  BY <1>3, <2>1, <2>2 DEF DocumentResource, Node, Resource
<1>. QED  BY <1>1, <1>2, <1>3

\* What is read is complete, and its blank nodes are those of the document.
LEMMA ReadIs ==
  ASSUME NEW k \in Nat, NEW lines, LinesOK(lines, k), NEW base \in Namespace, NEW j \in Nat
  PROVE  /\ Read(lines, base, j) \subseteq Statement
         /\ \A n \in Blanks(Read(lines, base, j)) : \E m \in Blanks(lines) :
               n = IF j = 0 THEN m ELSE [label |-> m.label, stamps |-> Append(m.stamps, j)]
<1>1. ASSUME NEW t \in lines
      PROVE  /\ t[1] \in DocumentResource \cup Node /\ t[1] \notin Literal
             /\ t[2] \in Resource /\ t[3] \in DocumentResource \cup Node
  <2>1. t \in DocumentLine \/ t \in Statement
    BY DEF LinesOK
  <2>2. [label : Label, stamps : {<<>>}] \subseteq BlankNode
    <3>1. <<>> \in Seq(Nat)
      OBVIOUS
    <3>. QED  BY <3>1 DEF BlankNode
  <2>3. (DocumentResource \cup Resource \cup BlankNode) \cap Literal = {}
    BY <2>2, BasicStoreConstants DEF DocumentResource, Resource
  <2>4. CASE t \in DocumentLine
    BY <2>3, <2>4 DEF DocumentLine, Node
  <2>5. CASE t \in Statement
    BY <2>3, <2>5 DEF Statement, Node
  <2>. QED  BY <2>1, <2>4, <2>5
<1>2. ASSUME NEW t \in lines
      PROVE  <<ReadNode(t[1], base, j), t[2], ReadNode(t[3], base, j)>> \in Statement
  BY <1>1, ReadNodeIs DEF Statement
<1>3. ASSUME NEW n \in Blanks(Read(lines, base, j))
      PROVE  \E m \in Blanks(lines) :
                 n = IF j = 0 THEN m ELSE [label |-> m.label, stamps |-> Append(m.stamps, j)]
  <2>1. PICK t \in lines : n \in {ReadNode(t[1], base, j), ReadNode(t[3], base, j)}
    <3>1. PICK u \in Read(lines, base, j) : n \in {u[1], u[3]}
      BY DEF Blanks
    <3>2. PICK t \in lines : u = <<ReadNode(t[1], base, j), t[2], ReadNode(t[3], base, j)>>
      BY DEF Read
    <3>. QED  BY <3>1, <3>2
  <2>2. PICK m \in {t[1], t[3]} : n = ReadNode(m, base, j)
    BY <2>1
  <2>3. m \in DocumentResource \cup Node /\ n \in BlankNode
    BY <1>1 DEF Blanks
  <2>4. m \in BlankNode
    BY <2>2, <2>3, ReadNodeIs
  <2>5. n = IF j = 0 THEN m ELSE [label |-> m.label, stamps |-> Append(m.stamps, j)]
    BY <2>2, <2>3, ReadNodeIs
  <2>6. m \in Blanks(lines)
    BY <2>4 DEF Blanks
  <2>. QED  BY <2>5, <2>6
<1>4. Read(lines, base, j) \subseteq Statement
  BY <1>2 DEF Read
<1>. QED  BY <1>3, <1>4

LEMMA ReadIsStored ==
  ASSUME NEW k \in Nat, NEW lines, LinesOK(lines, k), NEW base \in Namespace, NEW j \in {0, k + 1}
  PROVE  StoredOK(Read(lines, base, j), k + 1)
<1>1. 1..k \subseteq 1..k + 1 /\ k + 1 \in 1..k + 1 /\ j \in Nat
  OBVIOUS
<1>2. ASSUME NEW n \in Blanks(Read(lines, base, j)) PROVE n.stamps \in Seq(1..k + 1)
  <2>1. PICK m \in Blanks(lines) :
            n = IF j = 0 THEN m ELSE [label |-> m.label, stamps |-> Append(m.stamps, j)]
    BY <1>1, ReadIs
  <2>2. m.stamps \in Seq(1..k)
    BY DEF LinesOK, Stamped
  <2>3. m.stamps \in Seq(1..k + 1)
    BY <1>1, <2>2
  <2>4. j # 0 => Append(m.stamps, j) \in Seq(1..k + 1)
    BY <1>1, <2>3
  <2>. QED  BY <2>1, <2>3, <2>4
<1>. QED  BY <1>1, <1>2, ReadIs DEF StoredOK, Stamped

\* Blank nodes with the new stamp are not among those that were there.
LEMMA NewStampsAreNew ==
  ASSUME NEW k \in Nat, NEW lines, LinesOK(lines, k), NEW base \in Namespace,
         NEW T, Stamped(T, k)
  PROVE  Blanks(Read(lines, base, k + 1)) \cap Blanks(T) = {}
<1>. SUFFICES ASSUME NEW n \in Blanks(Read(lines, base, k + 1)), n \in Blanks(T) PROVE FALSE
  OBVIOUS
<1>1. PICK m \in Blanks(lines) : n = [label |-> m.label, stamps |-> Append(m.stamps, k + 1)]
  BY ReadIs
<1>2. n.stamps \in Seq(1..k) /\ m.stamps \in Seq(1..k)
  BY DEF Stamped, LinesOK
<1>3. n.stamps = Append(m.stamps, k + 1)
  BY <1>1
<1>4. n.stamps[Len(m.stamps) + 1] = k + 1 /\ Len(m.stamps) + 1 \in DOMAIN n.stamps
  BY <1>2, <1>3
<1>5. n.stamps[Len(m.stamps) + 1] \in 1..k
  BY <1>2, <1>4
<1>. QED  BY <1>4, <1>5

-------------------------------------------------------------------------------
(* Imports.                                                                     *)

\* What an import may make of the contents.
LEMMA ImportMakes ==
  ASSUME NEW read, NEW base, NEW mode, NEW ok \in BOOLEAN
  PROVE  LET r == ImportLines(read, base, mode, ok)
             new == Read(read, base, BlankPrefix)
         IN  /\ r.triples \in {triples, triples \cup new}
             /\ mode # "permit" /\ r.triples # triples => ok /\ r.triples = triples \cup new
             /\ mode # "permit" /\ r.returns = "true" => ok /\ r.triples = triples \cup new
  BY DEF ImportLines, ImportFromTemporaryModel, Result

\* Whichever line an import fails at, and whichever triple is a duplicate: without
\* permission for duplicates it takes over all triples and prefixes or none
\* (import and importString).
THEOREM ImportsAreWhole == Spec => ImportsAreAllOrNothing
<1>. DEFINE Whole1(doc, base) ==
                \/ UNCHANGED <<triples, prefixes>>
                \/ /\ Read(doc.lines, base, BlankPrefix) \subseteq triples'
                   /\ prefixes' = ImportPrefixes(prefixes, doc)
<1>1. ASSUME NEW doc, NEW base, NEW mode \in {"ignore", "fail"}, ImportDocument(doc, base, mode)
      PROVE  Whole1(doc, base)
  <2>1. PICK read \in SUBSET doc.lines, ok \in BOOLEAN :
            /\ ok => read = doc.lines
            /\ triples' = ImportLines(read, base, mode, ok).triples
            /\ prefixes' = IF ImportLines(read, base, mode, ok).returns = "true"
                           THEN ImportPrefixes(prefixes, doc) ELSE prefixes
    BY <1>1 DEF ImportDocument
  <2>2. mode # "permit"
    OBVIOUS
  <2>3. CASE ImportLines(read, base, mode, ok).returns = "true"
    <3>1. triples' = triples \cup Read(doc.lines, base, BlankPrefix)
      BY <2>1, <2>2, <2>3, ImportMakes
    <3>. QED  BY <2>1, <2>3, <3>1
  <2>4. CASE ImportLines(read, base, mode, ok).returns # "true"
    <3>1. triples' = triples
      BY <2>1, <2>2, <2>4 DEF ImportLines, ImportFromTemporaryModel, Result
    <3>. QED  BY <2>1, <2>4, <3>1
  <2>. QED  BY <2>3, <2>4
<1>2. [Next]_vars => [imports' # imports =>
          \A doc \in Documents, base \in Namespace, mode \in {"ignore", "fail"} :
              ImportDocument(doc, base, mode) => Whole1(doc, base)]_vars
  BY <1>1
<1>. QED  BY <1>2, PTL DEF Spec, ImportsAreAllOrNothing

-------------------------------------------------------------------------------
(* The steps.                                                                   *)

LEMMA PrefixesImported ==
  ASSUME NEW known \in [Prefixes \cup {Empty} -> Namespace \cup {NoUri}], NEW doc,
         PrefixesOK(doc.prefixes)
  PROVE  ImportPrefixes(known, doc) \in [Prefixes \cup {Empty} -> Namespace \cup {NoUri}]
  BY DEF ImportPrefixes, AddPrefixOnImport, PrefixesOK

LEMMA DocumentsGrow ==
  ASSUME NEW d, NEW k \in Nat, DocumentOK(d, k)
  PROVE  DocumentOK(d, k + 1)
  BY StampsGrow DEF DocumentOK, StoredOK

\* A step that counts an import, and leaves the disk alone.
LEMMA ImportStepKeeps ==
  ASSUME StoredInv, Room, imports' = imports + 1, UNCHANGED <<backend, writes, disk>>,
         StoredOK(triples', imports + 1), baseUri' \in Namespace \cup {NoUri},
         prefixes' \in [Prefixes \cup {Empty} -> Namespace \cup {NoUri}]
  PROVE  StoredInv'
<1>1. SavesInv'
  BY DiskUntouched DEF StoredInv
<1>2. imports' \in Nat /\ saves \in Nat /\ MaxOperations \in Nat
  BY BasicStoreConstants DEF StoredInv, SavesInv
<1>3. TypeOK'
  BY <1>2 DEF StoredInv, TypeOK, StoredOK, disk, Room
<1>4. \A d : DocumentOK(d, imports) => DocumentOK(d, imports + 1)
  BY DocumentsGrow DEF StoredInv
<1>. QED  BY <1>1, <1>2, <1>3, <1>4 DEF StoredInv, StoredOK, disk, Whole

LEMMA ImportKeepsStored ==
  ASSUME StoredInv, NEW doc \in Documents, NEW base \in Namespace, NEW mode,
         ImportDocument(doc, base, mode)
  PROVE  StoredInv'
<1>1. PICK read \in SUBSET doc.lines, ok \in BOOLEAN :
          /\ triples' = ImportLines(read, base, mode, ok).triples
          /\ prefixes' = IF ImportLines(read, base, mode, ok).returns = "true"
                         THEN ImportPrefixes(prefixes, doc) ELSE prefixes
  BY DEF ImportDocument
<1>. DEFINE new == Read(read, base, BlankPrefix)
<1>2. StoredOK(new, imports + 1)
  <2>1. LinesOK(read, imports)
    BY BasicStoreInputs, DocumentLinesOK DEF StoredInv
  <2>2. BlankPrefix \in {0, imports + 1}
    BY DEF BlankPrefix
  <2>. QED  BY <2>1, <2>2, ReadIsStored DEF StoredInv
<1>3. StoredOK(triples, imports + 1)
  BY StampsGrow DEF StoredInv, TypeOK, StoredOK
<1>4. triples' \in {triples, triples \cup new}
  BY <1>1, ImportMakes
<1>. HIDE DEF new
<1>5. StoredOK(triples', imports + 1)
  BY <1>2, <1>3, <1>4, StoredUnion
<1>6. PrefixesOK(doc.prefixes)
  BY BasicStoreInputs DEF PrefixesOK
<1>7. prefixes' \in [Prefixes \cup {Empty} -> Namespace \cup {NoUri}]
  BY <1>1, <1>6, PrefixesImported DEF StoredInv, TypeOK
<1>8. /\ Room /\ imports' = imports + 1 /\ UNCHANGED <<backend, writes, disk>>
      /\ baseUri' \in Namespace \cup {NoUri}
  BY DEF ImportDocument, StoredInv, TypeOK
<1>. QED  BY <1>5, <1>7, <1>8, ImportStepKeeps

LEMMA LoadKeepsStored ==
  ASSUME StoredInv, Load
  PROVE  StoredInv'
<1>. DEFINE k == IF backend = "Sord" THEN 0 ELSE imports + 1
            new == Read(files["file"].lines, FileUrl, k)
            known == [NoPrefixes EXCEPT ![Empty] = FileUrl]
<1>1. /\ Room /\ imports' = imports + 1 /\ UNCHANGED <<backend, writes, disk>>
      /\ Whole(files["file"]) /\ baseUri' = FileUrl /\ FileUrl \in Namespace
      /\ triples' = ImportFromTemporaryModel({}, new, "ignore").triples
      /\ prefixes' = ImportPrefixes(known, files["file"])
  BY BasicStoreConstants DEF Load, NewStore
<1>2. DocumentOK(files["file"], imports)
  BY <1>1 DEF StoredInv
<1>3. StoredOK(new, imports + 1)
  <2>1. LinesOK(files["file"].lines, imports)
    BY <1>2 DEF DocumentOK, StoredOK, LinesOK
  <2>2. k \in {0, imports + 1}
    OBVIOUS
  <2>. HIDE DEF k
  <2>. QED  BY <1>1, <2>1, <2>2, ReadIsStored DEF StoredInv
<1>4. triples' = new
  BY <1>1 DEF ImportFromTemporaryModel, Result
<1>5. known \in [Prefixes \cup {Empty} -> Namespace \cup {NoUri}]
  BY <1>1 DEF NoPrefixes
<1>6. prefixes' \in [Prefixes \cup {Empty} -> Namespace \cup {NoUri}]
  <2>. HIDE DEF known
  <2>. QED  BY <1>1, <1>2, <1>5, PrefixesImported DEF DocumentOK
<1>. QED  BY <1>1, <1>3, <1>4, <1>6, ImportStepKeeps

LEMMA NamesKeepStored ==
  ASSUME StoredInv, NEW p \in Prefixes \cup {Empty}, NEW u \in Namespace,
         SetBaseUri(u) \/ AddPrefix(p, u)
  PROVE  StoredInv'
<1>1. /\ Room /\ writes' = writes + 1 /\ UNCHANGED <<backend, triples, imports, disk>>
      /\ baseUri' \in {baseUri, u}
      /\ \/ prefixes' = [prefixes EXCEPT ![Empty] = u]
         \/ prefixes' = [prefixes EXCEPT ![p] = u]
  BY DEF SetBaseUri, AddPrefix, Count
<1>2. SavesInv'
  BY <1>1, DiskUntouched DEF StoredInv
<1>3. writes' \in Nat /\ saves \in Nat /\ MaxOperations \in Nat
  BY <1>1, BasicStoreConstants DEF StoredInv, SavesInv
<1>4. TypeOK'
  BY <1>1, <1>3 DEF StoredInv, TypeOK, disk, Room
<1>. QED  BY <1>1, <1>2, <1>3, <1>4 DEF StoredInv, disk, Whole

\* The document that a save writes has what the store has.
LEMMA BeginSaveKeepsStored ==
  ASSUME StoredInv, BeginSave
  PROVE  StoredInv'
<1>1. /\ Room /\ saves' = saves + 1 /\ saving' = [at |-> "create", doc |-> Document]
      /\ UNCHANGED <<backend, contents, history, files, saved, cutShort, stranded>>
  BY DEF BeginSave
<1>2. SavesInv'
  BY BeginSaveKeeps DEF StoredInv
<1>3. PrefixesOK(Document.prefixes)
  <2>1. PrefixesOK(SordPrefixes)
    BY DEF PrefixesOK, SordPrefixes, StoredInv, TypeOK
  <2>2. PrefixesOK(RedlandPrefixes)
    BY <2>1 DEF PrefixesOK, RedlandPrefixes, SordPrefixes, StoredInv, TypeOK
  <2>. QED  BY <2>1, <2>2 DEF Document
<1>4. DocumentOK(saving'.doc, imports)
  BY <1>1, <1>3 DEF DocumentOK, Document, StoredOK, StoredInv, TypeOK
<1>5. saves' \in Nat /\ saved \in Nat /\ saved <= saves'
  BY <1>1 DEF StoredInv, SavesInv
<1>6. writes' + imports' + saves' \in 0..MaxOperations /\ saved' \in 0..saves'
  BY <1>1, <1>5, BasicStoreConstants DEF StoredInv, SavesInv, contents, history, Room
<1>7. saving'.at = "create"
  BY <1>1
<1>8. TypeOK'
  BY <1>1, <1>6, <1>7 DEF StoredInv, TypeOK, contents, history
<1>. QED  BY <1>1, <1>2, <1>4, <1>8 DEF StoredInv, contents, history, Whole

\* The steps of a save fill files with the document, with part of it, or not at all.
LEMMA SaveKeepsStored ==
  ASSUME StoredInv, SavesInv', UNCHANGED <<backend, contents, history, saves>>,
         \A f \in {"file", "part"} :
             files'[f] \in {files["file"], files["part"], Absent, EmptyFile, Cut, saving.doc},
         saving.at # "idle", saving' = Idle \/ saving'.doc = saving.doc
  PROVE  StoredInv'
<1>1. /\ saving # Idle /\ Whole(saving.doc) /\ DocumentOK(saving.doc, imports)
  BY DEF StoredInv, SavesInv, SavingOK, Idle
<1>2. ~Whole(Absent) /\ ~Whole(EmptyFile) /\ ~Whole(Cut)
  BY DEF Whole, Absent, EmptyFile, Cut
<1>3. ASSUME NEW f \in {"file", "part"}, Whole(files'[f]) PROVE DocumentOK(files'[f], imports)
  BY <1>1, <1>2, <1>3 DEF StoredInv
<1>4. saving' # Idle => DocumentOK(saving'.doc, imports)
  BY <1>1
<1>5. \A f \in {"file", "part"} : files'[f].kind \in {"absent", "empty", "cut", "whole"}
  BY <1>1 DEF Absent, EmptyFile, Cut, Whole, StoredInv, TypeOK
<1>6. saving'.at \in {"idle", "create", "write", "remove", "rename"}
  BY DEF SavesInv, SavingOK, Idle
<1>7. saved' \in 0..saves'
  BY DEF SavesInv
<1>8. TypeOK'
  BY <1>5, <1>6, <1>7 DEF StoredInv, TypeOK, contents, history
<1>. QED
  BY <1>3, <1>4, <1>8 DEF StoredInv, contents, history, Whole

LEMMA SavingKeepsStored ==
  ASSUME StoredInv, CreateFile \/ WritePart \/ WriteFails \/ RemoveFile \/ RenamePart \/ RenameFails
  PROVE  StoredInv'
<1>1. SavesInv'
  BY CreateFileKeeps, WritePartKeeps, WriteFailsKeeps, RemoveFileKeeps, RenamePartKeeps,
     RenameFailsKeeps DEF StoredInv
<1>2. files = [f \in {"file", "part"} |-> files[f]] /\ saving.at # "idle"
      => saving = [at |-> saving.at, doc |-> saving.doc]
  BY DEF StoredInv, SavesInv, SavingOK, Idle
<1>3. files = [f \in {"file", "part"} |-> files[f]]
  BY DEF StoredInv, SavesInv
<1>4. /\ UNCHANGED <<backend, contents, history, saves>> /\ saving.at # "idle"
      /\ \A f \in {"file", "part"} :
             files'[f] \in {files["file"], files["part"], Absent, EmptyFile, Cut, saving.doc}
  BY <1>3 DEF CreateFile, WritePart, WriteFails, RemoveFile, RenamePart, RenameFails, SaveOther
<1>5. saving' = Idle \/ saving' = [saving EXCEPT !.at = saving'.at]
  BY <1>2, <1>3, <1>4
  DEF CreateFile, WritePart, WriteFails, RemoveFile, RenamePart, RenameFails, SaveStep
<1>6. saving' = Idle \/ saving'.doc = saving.doc
  BY <1>2, <1>3, <1>4, <1>5
<1>. QED  BY <1>1, <1>4, <1>6, SaveKeepsStored

LEMMA CrashKeepsStored ==
  ASSUME StoredInv, Crash
  PROVE  StoredInv'
<1>1. /\ triples' = {} /\ baseUri' = NoUri /\ prefixes' = NoPrefixes /\ saving' = Idle
      /\ UNCHANGED <<backend, writes, imports, saves, saved>>
      /\ \A f \in {"file", "part"} : files'[f] \in {files[f], Cut}
  BY DEF Crash, NewStore, StoredInv, SavesInv
<1>2. SavesInv'
  BY CrashKeeps DEF StoredInv
<1>3. Stamped({}, imports) /\ Idle.at = "idle"
  BY DEF Stamped, Blanks, Idle
<1>4. \A f \in {"file", "part"} : files'[f].kind \in {"absent", "empty", "cut", "whole"}
  BY <1>1 DEF Cut, StoredInv, TypeOK
<1>5. TypeOK'
  BY <1>1, <1>3, <1>4 DEF StoredInv, TypeOK, NoPrefixes
<1>6. \A f \in {"file", "part"} : Whole(files'[f]) => DocumentOK(files'[f], imports)
  BY <1>1 DEF Cut, Whole, StoredInv
<1>. QED  BY <1>1, <1>2, <1>3, <1>5, <1>6 DEF StoredInv

LEMMA AddingKeepsStored ==
  ASSUME StoredInv, NEW l \in Label, NEW c \in Literal, AddBlankNode(l, c)
  PROVE  StoredInv'
<1>. DEFINE n == [label |-> l, stamps |-> <<>>]
<1>1. <<>> \in Seq(Nat) /\ <<>> \in Seq(1..imports)
  OBVIOUS
<1>2. n \in BlankNode /\ n.stamps \in Seq(1..imports)
  BY <1>1 DEF BlankNode
<1>3. c \notin BlankNode
  BY NodesDiffer
<1>. HIDE DEF n
<1>4. StoredOK({<<n, Predicate, c>>}, imports)
  <2>1. <<n, Predicate, c>> \in Statement
    BY <1>2 DEF Statement, Resource, Node
  <2>2. Blanks({<<n, Predicate, c>>}) = {n}
    BY <1>2, <1>3 DEF Blanks
  <2>. QED  BY <1>2, <2>1, <2>2 DEF StoredOK, Stamped
<1>5. StoredOK(triples, imports)
  BY DEF StoredInv, TypeOK, StoredOK
<1>6. StoredOK(triples \cup {<<n, Predicate, c>>}, imports)
  BY <1>4, <1>5, StoredUnion
<1>. QED  BY <1>6, WriteKeepsStored DEF AddBlankNode, n

\* A triple of a URI, a property and a literal, as the client adds them.
LEMMA PropertyKeepsStored ==
  ASSUME StoredInv, NEW u \in Uri, NEW c \in Literal, Write(DoAdd(triples, <<u, Predicate, c>>).triples)
  PROVE  StoredInv'
<1>1. <<u, Predicate, c>> \in SomeNode \X SomeNode \X SomeNode
  BY DEF SomeNode, Node, Resource
<1>2. Blanks({<<u, Predicate, c>>}) = {}
  BY NodesDiffer DEF Blanks
<1>3. StoredOK(DoAdd(triples, <<u, Predicate, c>>).triples, imports)
  BY <1>1, <1>2, AddIsStored DEF StoredInv, TypeOK, StoredOK, Stamped
<1>. QED  BY <1>3, WriteKeepsStored

LEMMA ChangingKeepsStored ==
  ASSUME StoredInv, NEW cs \in ChangeSets, Known(cs), ApplyChanges(cs) \/ RevertChanges(cs)
  PROVE  StoredInv'
<1>1. cs \in Seq(ChangeOf(SomeNode)) /\ StoredOK(triples, imports)
  BY BasicStoreInputs DEF StoredInv, TypeOK, StoredOK
<1>2. ASSUME NEW i \in DOMAIN cs PROVE Stamped({cs[i].t}, imports)
  <2>1. {cs[i].t} \in SUBSET {cs[j].t : j \in DOMAIN cs}
    OBVIOUS
  <2>. QED  BY <2>1, BlanksOfPart DEF Known, Stamped
<1>. QED
  BY <1>1, <1>2, ChangeIsStored, RevertIsStored, WriteKeepsStored DEF ApplyChanges, RevertChanges

LEMMA StoredStep == StoredInv /\ [Next]_vars => StoredInv'
<1>. SUFFICES ASSUME StoredInv, [Next]_vars PROVE StoredInv'
  OBVIOUS
<1>0. StoredOK(triples, imports)
  BY DEF StoredInv, TypeOK, StoredOK
<1>1. ASSUME NEW t \in ClientTriples, Add(t) PROVE StoredInv'
  <2>1. PICK u \in Uri, c \in Literal : t = <<u, Predicate, c>>
    BY DEF ClientTriples
  <2>. QED  BY <1>1, <2>1, PropertyKeepsStored DEF Add
<1>2. ASSUME NEW t, RemoveMatching(t) PROVE StoredInv'
  BY <1>0, <1>2, RemovalIsStored, WriteKeepsStored DEF RemoveMatching
<1>3. CASE Clear
  BY <1>0, <1>3, StoredPart, WriteKeepsStored DEF Clear
<1>4. ASSUME NEW p \in Prefixes \cup {Empty}, NEW c \in Literal, AddAtUniqueUri(p, c) PROVE StoredInv'
  <2>1. PICK u \in GetUniqueUri(p) : Write(DoAdd(triples, <<u, Predicate, c>>).triples)
    BY <1>4 DEF AddAtUniqueUri
  <2>2. PICK x \in Local : u \in Expand(p, x)
    BY DEF GetUniqueUri
  <2>3. u \in Uri
    <3>. DEFINE ns == IF p = Empty THEN baseUri ELSE prefixes[p]
    <3>1. ns \in Namespace \cup {NoUri}
      BY DEF StoredInv, TypeOK
    <3>2. ns # NoUri /\ u = [ns |-> ns, local |-> x]
      BY <2>2 DEF Expand
    <3>. QED  BY <3>1, <3>2 DEF Uri
  <2>. QED  BY <2>1, <2>3, PropertyKeepsStored
<1>5. ASSUME NEW doc \in Documents, NEW base \in Namespace, NEW mode,
             Import(doc, base, mode) \/ ImportString(doc, base, mode)
      PROVE  StoredInv'
  <2>1. PICK b \in Namespace : ImportDocument(doc, b, mode)
    BY <1>5 DEF Import, ImportString, StoredInv, TypeOK
  <2>. QED  BY <2>1, ImportKeepsStored
<1>6. CASE UNCHANGED vars
  <2>1. SavesInv'
    BY <1>6, DiskUntouched DEF vars, StoredInv
  <2>. QED  BY <1>6, <2>1 DEF vars, contents, history, disk, StoredInv, TypeOK, Whole
<1>. QED
  BY <1>1, <1>2, <1>3, <1>4, <1>5, <1>6, AddingKeepsStored, ChangingKeepsStored, NamesKeepStored,
     BeginSaveKeepsStored, SavingKeepsStored, CrashKeepsStored, LoadKeepsStored, BasicStoreConstants
  DEF Next

LEMMA StoredInit == Init => StoredInv
<1>. SUFFICES ASSUME Init PROVE StoredInv
  OBVIOUS
<1>1. SavesInv
  BY DEF Init, SavesInv, SavingOK, Safe
<1>2. Stamped({}, 0)
  BY DEF Stamped, Blanks
<1>3. ~Whole(Absent) /\ Absent.kind = "absent" /\ Idle.at = "idle"
  BY DEF Whole, Absent, Idle
<1>4. TypeOK
  BY <1>3, BasicStoreConstants DEF Init, TypeOK, NoPrefixes, Backends
<1>. QED  BY <1>1, <1>2, <1>3, <1>4 DEF Init, StoredInv

LEMMA StoredInvariant == Spec => []StoredInv
  BY StoredInit, StoredStep, PTL DEF Spec

\* Whatever the documents, change sets, saves and crashes, the store holds complete
\* triples only, and knows a URI or none for each prefix.
THEOREM TypesAreKept == Spec => []TypeOK
  BY StoredInvariant, PTL DEF StoredInv

LEMMA ImportAddsNewBlanks ==
  ASSUME StoredInv, NEW doc \in Documents, NEW base \in Namespace, NEW mode,
         ImportDocument(doc, base, mode)
  PROVE  Blanks(triples' \ triples) \cap Blanks(triples) = {}
<1>1. PICK read \in SUBSET doc.lines, ok \in BOOLEAN :
          triples' = ImportLines(read, base, mode, ok).triples
  BY DEF ImportDocument
<1>. DEFINE new == Read(read, base, BlankPrefix)
<1>2. triples' \in {triples, triples \cup new}
  BY <1>1, ImportMakes
<1>3. CASE BlankPrefix = 0
  <2>1. imports + 1 # 0
    BY DEF StoredInv
  <2>2. DoMatch(triples, NoTriple) = {}
    BY <1>3, <2>1 DEF BlankPrefix
  <2>3. \A t \in triples : Matches(t, NoTriple)
    BY DEF Matches, NoTriple
  <2>4. triples = {}
    BY <2>2, <2>3 DEF DoMatch
  <2>. QED  BY <2>4 DEF Blanks
<1>4. CASE BlankPrefix = imports + 1
  <2>1. LinesOK(read, imports)
    BY BasicStoreInputs, DocumentLinesOK DEF StoredInv
  <2>2. Blanks(new) \cap Blanks(triples) = {}
    BY <1>4, <2>1, NewStampsAreNew DEF StoredInv
  <2>. HIDE DEF new
  <2>3. triples' \ triples \in SUBSET new
    BY <1>2
  <2>. QED  BY <2>2, <2>3, BlanksOfPart
<1>. QED  BY <1>3, <1>4 DEF BlankPrefix

LEMMA BlanksStep ==
  StoredInv /\ [Next]_vars =>
    [imports' # imports => Blanks(triples' \ triples) \cap Blanks(triples) = {}]_vars
<1>. SUFFICES ASSUME StoredInv, Next, imports' # imports
              PROVE  Blanks(triples' \ triples) \cap Blanks(triples) = {}
  OBVIOUS
<1>1. ASSUME NEW T, Write(T) PROVE FALSE
  BY <1>1 DEF Write
<1>2. ASSUME NEW doc \in Documents, NEW base \in Namespace, NEW mode,
             Import(doc, base, mode) \/ ImportString(doc, base, mode)
      PROVE  Blanks(triples' \ triples) \cap Blanks(triples) = {}
  <2>1. PICK b \in Namespace : ImportDocument(doc, b, mode)
    BY <1>2 DEF Import, ImportString, StoredInv, TypeOK
  <2>. QED  BY <2>1, ImportAddsNewBlanks
<1>3. CASE Load
  BY <1>3 DEF Load, Blanks
<1>4. ASSUME NEW p, NEW u, SetBaseUri(u) \/ AddPrefix(p, u) PROVE FALSE
  BY <1>4 DEF SetBaseUri, AddPrefix
<1>5. CASE BeginSave \/ CreateFile \/ WritePart \/ WriteFails \/ RemoveFile \/ RenamePart
           \/ RenameFails \/ Crash
  BY <1>5 DEF BeginSave, CreateFile, WritePart, WriteFails, RemoveFile, RenamePart,
              RenameFails, SaveOther, history, Crash
<1>. QED
  BY <1>1, <1>2, <1>3, <1>4, <1>5, BasicStoreConstants
  DEF Next, Add, RemoveMatching, ApplyChanges, RevertChanges, Clear, AddBlankNode, AddAtUniqueUri

\* However many documents use the same label, and whatever is saved and loaded in
\* between: no import says anything of a blank node that was there before (import,
\* importString and load).
THEOREM BlankNodesStayApart == Spec => ImportsKeepBlankNodesApart
  BY StoredInvariant, BlanksStep, PTL DEF Spec, ImportsKeepBlankNodesApart

-------------------------------------------------------------------------------
(* Reads.                                                                       *)

LEMMA StoredTriple ==
  ASSUME TypeOK, NEW t \in triples
  PROVE  t = <<t[1], t[2], t[3]>> /\ t = [i \in 1..3 |-> t[i]]
<1>1. t \in Statement
  BY DEF TypeOK
<1>. QED  BY <1>1 DEF Statement

LEMMA MatchOnceAgrees ==
  ASSUME TypeOK, NEW pattern \in Patterns, Throws \notin MatchOnce(pattern)
  PROVE  MatchOnce(pattern) = OneOf(DoMatch(triples, pattern), NoTriple)
<1>1. CASE Wildcards(pattern) # {}
  BY <1>1 DEF MatchOnce
<1>2. CASE Wildcards(pattern) = {}
  <2>1. \A i \in 1..3 : pattern[i] # Nothing
    BY <1>2 DEF Wildcards
  <2>2. pattern = <<pattern[1], pattern[2], pattern[3]>>
    BY DEF Patterns
  <2>3. ASSUME NEW t \in triples PROVE Matches(t, pattern) <=> t = pattern
    <3>1. Matches(t, pattern) <=> \A i \in 1..3 : pattern[i] = t[i]
      BY <2>1 DEF Matches
    <3>2. (\A i \in 1..3 : pattern[i] = t[i])
            <=> pattern[1] = t[1] /\ pattern[2] = t[2] /\ pattern[3] = t[3]
      <4>1. 1..3 = {1, 2, 3}
        OBVIOUS
      <4>. QED  BY <4>1
    <3>. QED  BY <2>2, <3>1, <3>2, StoredTriple
  <2>4. Complete(pattern)
    BY <1>2 DEF MatchOnce, Contains
  <2>5. MatchOnce(pattern) = IF pattern \in triples THEN {pattern} ELSE {NoTriple}
    BY <1>2, <2>4 DEF MatchOnce, Contains
  <2>6. DoMatch(triples, pattern) = IF pattern \in triples THEN {pattern} ELSE {}
    BY <2>3 DEF DoMatch
  <2>. QED  BY <2>5, <2>6 DEF OneOf
<1>. QED  BY <1>1, <1>2

LEMMA CompletionAgrees ==
  ASSUME TypeOK, NEW pattern, NEW n \in CompleteTriple(pattern) \ {Throws, Nothing}
  PROVE  \E t \in DoMatch(triples, pattern) :
             t = [i \in 1..3 |-> IF pattern[i] = Nothing THEN n ELSE pattern[i]]
<1>1. Cardinality(Wildcards(pattern)) = 1
  BY DEF CompleteTriple
<1>2. PICK w : Wildcards(pattern) = {w}
  <2>1. IsFiniteSet(1..3)
    <3>1. 1 \in Int /\ 3 \in Int
      OBVIOUS
    <3>. QED  BY <3>1, FS_Interval
  <2>2. Wildcards(pattern) \subseteq 1..3
    BY DEF Wildcards
  <2>3. IsFiniteSet(Wildcards(pattern))
    BY <2>1, <2>2, FS_Subset
  <2>. QED  BY <1>1, <2>3, FS_Singleton
<1>3. w \in 1..3 /\ pattern[w] = Nothing /\ \A i \in 1..3 : pattern[i] = Nothing => i = w
  BY <1>2 DEF Wildcards
<1>4. (CHOOSE i \in 1..3 : i \in Wildcards(pattern)) = w
  BY <1>2, <1>3
<1>5. PICK t \in DoMatch(triples, pattern) : n = t[w]
  BY <1>1, <1>4 DEF CompleteTriple, OneOf
<1>6. t \in triples /\ \A i \in 1..3 : pattern[i] \in {Nothing, t[i]}
  BY DEF DoMatch, Matches
<1>7. \A i \in 1..3 : t[i] = IF pattern[i] = Nothing THEN n ELSE pattern[i]
  BY <1>3, <1>5, <1>6
<1>8. t = [i \in 1..3 |-> t[i]]
  BY <1>6, StoredTriple
<1>. QED  BY <1>7, <1>8

\* Whatever the store has been through, the reads agree: contains, matchOnce and
\* complete find what match lists, and names mean the same in queries as elsewhere.
THEOREM AllReadsAgree == Spec => []ReadsAgree
<1>1. TypeOK /\ EmptyPrefixIsBase => ReadsAgree
  BY MatchOnceAgrees, CompletionAgrees DEF ReadsAgree
<1>. QED  BY <1>1, TypesAreKept, EmptyPrefixAgrees, PTL

================================================================================
