------------------------------- MODULE BasicStore -------------------------------
(* BasicStore, the in-memory store, with both of its backends: its contents, its *)
(* names, its imports, and the files it saves to and is loaded from.             *)
(*                                                                               *)
(* Every operation holds m_backendLock (m_librdfLock with Redland), which all    *)
(* stores of the process share, so that each is one step.  Only save, which can  *)
(* be cut short by a crash, takes several.                                       *)
EXTENDS Naturals, Sequences, FiniteSets

CONSTANTS
    Namespace,   \* URIs that prefixes stand for, and base URIs
    FileUrl,     \* the one that is the URL of the save file
    Local,       \* names within a namespace
    Predicate,   \* the URI of the properties that the triples state
    Literal,     \* literal nodes
    Label,       \* names of blank nodes
    Prefixes,    \* prefixes besides the empty one
    Documents,   \* RDF documents that may be imported
    ChangeSets,  \* change sets that change and revert may be given
    Nothing,     \* Node()
    NoUri,       \* Uri()
    Throws,      \* in place of an answer: the call throws
    MaxOperations \* bound on the writes, imports and saves of a run

Empty == ""
Uri == [ns : Namespace, local : Local]
Relative(x) == [ns |-> "relative", local |-> x]

\* A blank node is known by its label: a name, and the prefixes of the imports
\* that disambiguated it.
BlankNode == [label : Label, stamps : Seq(Nat)]
Resource == Uri \cup {Predicate}
Node == Resource \cup BlankNode \cup Literal

\* A document states RDF triples, in which URIs may be relative to its base.
DocumentResource ==
    Resource \cup {Relative(x) : x \in Local} \cup [label : Label, stamps : {<<>>}]
Statement == (Resource \cup BlankNode) \X Resource \X Node
DocumentLine == DocumentResource \X Resource \X (DocumentResource \cup Literal)

SomeNode == Node \cup {Nothing}
ChangeOf(nodes) == [op : {"add", "remove"}, t : nodes \X nodes \X nodes]

ASSUME BasicStoreConstants ==
    /\ FileUrl \in Namespace
    /\ Predicate \notin Uri \cup BlankNode \cup Literal \cup {Relative(x) : x \in Local}
    /\ Nothing \notin Node
    /\ Literal \cap (Uri \cup BlankNode \cup {Relative(x) : x \in Local}) = {}
    /\ NoUri \notin Namespace
    /\ MaxOperations \in Nat

ASSUME BasicStoreInputs ==
    /\ ChangeSets \subseteq Seq(ChangeOf(SomeNode))
    /\ \A doc \in Documents :
          /\ doc.lines \subseteq DocumentLine
          /\ DOMAIN doc.prefixes \subseteq Prefixes \cup {Empty}
          /\ \A p \in DOMAIN doc.prefixes : doc.prefixes[p] \in Namespace

VARIABLES
    backend,     \* "Sord" or "Redland": which one the library was built with
    triples,     \* m_model
    baseUri,     \* m_baseUri
    prefixes,    \* m_prefixes
    files,       \* what the save file and the partial file hold
    saving,      \* where save stands, and the document it writes
    writes,      \* history: how many writes there were
    imports,     \* history: how many imports there were
    overridden,  \* history: the client gave the empty prefix a meaning of its own
    saves,       \* history: how many saves were begun
    saved,       \* history: the number of the last save that returned
    cutShort,    \* history: the last save that returned, or the present one, lost data unnoticed
    stranded     \* history: a save was begun when only the partial file was left

contents == <<triples, baseUri, prefixes>>
history == <<writes, imports, overridden>>
disk == <<files, saving, saves, saved, cutShort, stranded>>
vars == <<backend, contents, history, disk>>

Modes == {"ignore", "fail", "permit"}
Blanks(T) == {n \in UNION {{t[1], t[3]} : t \in T} : n \in BlankNode}

\* The blank nodes of T are disambiguated by the first k imports, if at all.
Stamped(T, k) == \A n \in Blanks(T) : n.stamps \in Seq(1..k)

Backends == {"Sord", "Redland"}
Absent == [kind |-> "absent"]
Cut == [kind |-> "cut"]
EmptyFile == [kind |-> "empty"]
Idle == [at |-> "idle"]
Room == writes + imports + saves < MaxOperations
Whole(f) == f.kind = "whole"

\* checkComplete: the triples that may be stated.
Complete(t) ==
    /\ Nothing \notin {t[1], t[2], t[3]}
    /\ t[1] \in Resource \cup BlankNode
    /\ t[2] \in Resource

TypeOK ==
    /\ backend \in Backends
    /\ triples \subseteq Statement
    /\ baseUri \in Namespace \cup {NoUri}
    /\ prefixes \in [Prefixes \cup {Empty} -> Namespace \cup {NoUri}]
    /\ \A f \in {"file", "part"} : files[f].kind \in {"absent", "empty", "cut", "whole"}
    /\ saving.at \in {"idle", "create", "write", "remove", "rename"}
    /\ writes + imports + saves \in 0..MaxOperations
    /\ saved \in 0..saves

-------------------------------------------------------------------------------
(* Matching.  Nothing in a pattern stands for any node.                         *)

Matches(t, pattern) == \A i \in 1..3 : pattern[i] \in {Nothing, t[i]}
DoMatch(T, pattern) == {t \in T : Matches(t, pattern)}

Wildcards(pattern) == {i \in 1..3 : pattern[i] = Nothing}
NoTriple == <<Nothing, Nothing, Nothing>>
OneOf(S, none) == IF S = {} THEN {none} ELSE S

\* The answers that are possible: where several triples match, the backend's
\* choice of the first one is left open.
Contains(t) == IF ~Complete(t) THEN "throws" ELSE IF t \in triples THEN "true" ELSE "false"
MatchOnce(pattern) ==
    IF Wildcards(pattern) # {} THEN OneOf(DoMatch(triples, pattern), NoTriple)
    ELSE CASE Contains(pattern) = "true" -> {pattern}
           [] Contains(pattern) = "false" -> {NoTriple}
           [] OTHER -> {Throws}
\* Mutant: the object is taken for the missing node.
CompletesTheObject(pattern) ==
    IF Cardinality(Wildcards(pattern)) # 1 THEN {Throws}
    ELSE OneOf({t[3] : t \in DoMatch(triples, pattern)}, Nothing)

CompleteTriple(pattern) ==
    IF Cardinality(Wildcards(pattern)) # 1 THEN {Throws}
    ELSE OneOf({t[CHOOSE i \in 1..3 : i \in Wildcards(pattern)] : t \in DoMatch(triples, pattern)},
               Nothing)

-------------------------------------------------------------------------------
(* Adding and removing, on contents T: what becomes of T, and what is returned. *)

Result(T, r) == [triples |-> T, returns |-> r]

\* Mutant: any triple is added.
AddsIncomplete(T, t) == Result(T \cup {t}, "true")

DoAdd(T, t) ==
    IF ~Complete(t) THEN Result(T, "throws")
    ELSE IF t \in T THEN Result(T, "false")
    ELSE Result(T \cup {t}, "true")

DoRemove(T, t) ==
    IF ~Complete(t) THEN Result(T, "throws")
    ELSE IF t \notin T THEN Result(T, "false")
    ELSE Result(T \ {t}, "true")

\* Nobody can take a matched triple away while the lock is held, so that the
\* removals of a pattern's matches all succeed.
Remove(T, t) ==
    IF Wildcards(t) = {} THEN DoRemove(T, t)
    ELSE IF DoMatch(T, t) = {} THEN Result(T, "false")
    ELSE Result(T \ DoMatch(T, t), "true")

ApplyOne(T, c) == IF c.op = "add" THEN DoAdd(T, c.t) ELSE DoRemove(T, c.t)
UndoOne(T, c) == IF c.op = "add" THEN DoRemove(T, c.t) ELSE DoAdd(T, c.t)

\* change and revert throw at the first change that returns false or throws, and
\* leave what the earlier ones did.
Change(T, cs) ==
    LET upTo[i \in 0..Len(cs)] ==
            IF i = 0 THEN Result(T, "true")
            ELSE IF upTo[i - 1].returns # "true" THEN upTo[i - 1]
            ELSE ApplyOne(upTo[i - 1].triples, cs[i])
    IN  upTo[Len(cs)]

\* Mutant: the last change is not undone first.
RevertsInOrder(T, cs) ==
    LET upTo[i \in 0..Len(cs)] ==
            IF i = 0 THEN Result(T, "true")
            ELSE IF upTo[i - 1].returns # "true" THEN upTo[i - 1]
            ELSE UndoOne(upTo[i - 1].triples, cs[i])
    IN  upTo[Len(cs)]

Revert(T, cs) ==
    LET downTo[i \in 0..Len(cs)] ==
            IF i = 0 THEN Result(T, "true")
            ELSE IF downTo[i - 1].returns # "true" THEN downTo[i - 1]
            ELSE UndoOne(downTo[i - 1].triples, cs[Len(cs) + 1 - i])
    IN  downTo[Len(cs)]

-------------------------------------------------------------------------------
(* Names: "p:x", or ":x" with the empty prefix.                                 *)

\* A name without a base URI, or with an unknown prefix, is no URI: Uri throws.
Expand(p, x) ==
    LET ns == IF p = Empty THEN baseUri ELSE prefixes[p]
    IN  IF ns = NoUri THEN {} ELSE {[ns |-> ns, local |-> x]}

\* What a name in a SPARQL query stands for: Redland's parser is given m_prefixes.
\* Sord has no queries.
NameInQuery(p, x) ==
    IF backend = "Sord" \/ prefixes[p] = NoUri THEN {} ELSE {[ns |-> prefixes[p], local |-> x]}

\* Only a prefix that is not known yet is taken from a document.
AddPrefixOnImport(known, p, u) == IF known[p] = NoUri THEN u ELSE known[p]
ImportPrefixes(known, doc) ==
    [p \in DOMAIN known |->
        IF p \in DOMAIN doc.prefixes THEN AddPrefixOnImport(known, p, doc.prefixes[p])
        ELSE known[p]]

-------------------------------------------------------------------------------
(* Documents.                                                                   *)

\* Mutant: blank nodes of a document keep their names.
NeverPrefixes == 0

\* Sord prefixes the labels of a document's blank nodes if there are triples in
\* the store; Redland's parser makes new ones for every document.
BlankPrefix == IF backend = "Sord" /\ DoMatch(triples, NoTriple) = {} THEN 0 ELSE imports + 1
ReadNode(n, base, k) ==
    IF n \in BlankNode THEN IF k = 0 THEN n ELSE [n EXCEPT !.stamps = Append(@, k)]
    ELSE IF n \in {Relative(x) : x \in Local} THEN [n EXCEPT !.ns = base]
    ELSE n
Read(lines, base, k) == {<<ReadNode(t[1], base, k), t[2], ReadNode(t[3], base, k)>> : t \in lines}

\* Mutant: the transfer comes before the check for duplicates.
TransfersBeforeTheCheck(T, new, mode) ==
    IF mode = "fail" /\ T \cap new # {} THEN Result(T \cup new, "throws")
    ELSE Result(T \cup new, "true")

\* The transfer from the temporary model.
ImportFromTemporaryModel(T, new, mode) ==
    IF mode = "fail" /\ T \cap new # {} THEN Result(T, "throws") ELSE Result(T \cup new, "true")

\* An import whose parser has read some lines of the document, and then fails or not.
\* Duplicates are permitted by reading straight into the contents.
ImportLines(read, base, mode, ok) ==
    LET new == Read(read, base, BlankPrefix)
    IN  IF mode = "permit" THEN Result(triples \cup new, IF ok THEN "true" ELSE "throws")
        ELSE IF ~ok THEN Result(triples, "throws")
        ELSE ImportFromTemporaryModel(triples, new, mode)

ImportDocument(doc, base, mode) ==
    /\ Room
    /\ \E read \in SUBSET doc.lines, ok \in BOOLEAN :
          LET r == ImportLines(read, base, mode, ok) IN
          /\ ok => read = doc.lines
          /\ triples' = r.triples
          /\ prefixes' = IF r.returns = "true" THEN ImportPrefixes(prefixes, doc) ELSE prefixes
    /\ imports' = imports + 1
    /\ UNCHANGED <<backend, baseUri, writes, overridden, disk>>

-------------------------------------------------------------------------------
(* Operations of the client, which wait while a save holds the lock.            *)

Unlocked == saving = Idle

Count == Unlocked /\ Room /\ writes' = writes + 1
Write(T) ==
    /\ Count
    /\ triples' = T
    /\ UNCHANGED <<backend, baseUri, prefixes, imports, overridden, disk>>

Add(t) == Write(DoAdd(triples, t).triples)
RemoveMatching(t) == Write(Remove(triples, t).triples)

\* A client has the blank nodes that imports make from nowhere else.
Known(cs) == Stamped({cs[i].t : i \in DOMAIN cs}, imports)
ApplyChanges(cs) == Write(Change(triples, cs).triples)
RevertChanges(cs) == Write(Revert(triples, cs).triples)
Clear == Write({})

\* A blank node with a random label, which the code does not check for use but
\* which is taken to be new, in a triple that the client adds.
AddBlankNode(l, c) ==
    LET n == [label |-> l, stamps |-> <<>>]
    IN  n \notin Blanks(triples) /\ Write(triples \cup {<<n, Predicate, c>>})

\* getUniqueUri tries names until one is the subject of no triple; here the client
\* uses it at once.
GetUniqueUri(p) ==
    {u \in UNION {Expand(p, x) : x \in Local} : DoMatch(triples, <<u, Nothing, Nothing>>) = {}}
AddAtUniqueUri(p, c) ==
    \E u \in GetUniqueUri(p) : Write(DoAdd(triples, <<u, Predicate, c>>).triples)

SetBaseUri(u) ==
    /\ Count
    /\ baseUri' = u
    /\ prefixes' = [prefixes EXCEPT ![Empty] = u]
    /\ overridden' = FALSE
    /\ UNCHANGED <<backend, triples, imports, disk>>
AddPrefix(p, u) ==
    /\ Count
    /\ prefixes' = [prefixes EXCEPT ![p] = u]
    /\ overridden' = (overridden \/ p = Empty)
    /\ UNCHANGED <<backend, triples, baseUri, imports, disk>>

\* import resolves relative URIs against the store's base URI, or the document's
\* own URL; importString against the one that it is given.
Import(doc, url, mode) ==
    Unlocked /\ ImportDocument(doc, IF baseUri = NoUri THEN url ELSE baseUri, mode)
ImportString(doc, base, mode) == Unlocked /\ ImportDocument(doc, base, mode)

-------------------------------------------------------------------------------
(* Saving and loading.                                                          *)

\* The prefixes that are written with the triples: all that the store knows, and
\* with Redland the base URI as the empty one, whatever the store has for it.
SordPrefixes == [p \in {q \in DOMAIN prefixes : prefixes[q] # NoUri} |-> prefixes[p]]
RedlandPrefixes ==
    [p \in {Empty} \cup DOMAIN SordPrefixes |-> IF p = Empty THEN baseUri ELSE prefixes[p]]
Document == [kind |-> "whole", lines |-> triples, number |-> saves + 1,
             prefixes |-> IF backend = "Sord" THEN SordPrefixes ELSE RedlandPrefixes]

SaveStep(at) == saving' = [saving EXCEPT !.at = at]
SaveOther == UNCHANGED <<backend, contents, history, saves>>

BeginSave ==
    /\ Unlocked /\ Room
    /\ saves' = saves + 1
    /\ saving' = [at |-> "create", doc |-> Document]
    /\ UNCHANGED <<backend, contents, history, files, saved, cutShort, stranded>>

\* Mutant: the file itself is written.
TruncatesFile ==
    /\ saving.at = "create"
    /\ files' = [files EXCEPT !["file"] = EmptyFile]
    /\ SaveStep("write")
    /\ SaveOther /\ UNCHANGED <<saved, cutShort, stranded>>

\* The file is created empty if it is not there.
CreateFile ==
    /\ saving.at = "create"
    /\ files' = IF files["file"] = Absent THEN [files EXCEPT !["file"] = EmptyFile] ELSE files
    /\ stranded' = (stranded \/ (files["file"] = Absent /\ Whole(files["part"])))
    /\ SaveStep("write")
    /\ SaveOther /\ UNCHANGED <<saved, cutShort>>

\* The partial file is written.  Serd's and Qt's errors when buffers are flushed
\* go unnoticed; Redland's serializer reports its own, and needs a base URI.
RefusesToWrite == backend = "Redland" /\ baseUri = NoUri
WritePart ==
    /\ saving.at = "write"
    /\ ~RefusesToWrite
    /\ \/ /\ files' = [files EXCEPT !["part"] = saving.doc]
          /\ UNCHANGED cutShort
       \/ /\ backend = "Sord"
          /\ files' = [files EXCEPT !["part"] = Cut]
          /\ cutShort' = TRUE
    /\ SaveStep("remove")
    /\ SaveOther /\ UNCHANGED <<saved, stranded>>

\* An error that is noticed leaves the old file alone.
WriteFails ==
    /\ saving.at = "write"
    /\ files' = IF RefusesToWrite THEN files
                ELSE [files EXCEPT !["part"] = IF backend = "Redland" THEN Absent ELSE Cut]
    /\ saving' = Idle
    /\ SaveOther /\ UNCHANGED <<saved, cutShort, stranded>>

RemoveFile ==
    /\ saving.at = "remove"
    /\ \/ files' = [files EXCEPT !["file"] = Absent]
       \/ UNCHANGED files
    /\ SaveStep("rename")
    /\ SaveOther /\ UNCHANGED <<saved, cutShort, stranded>>

\* rename does not replace a file.
RenamePart ==
    /\ saving.at = "rename"
    /\ files["file"] = Absent
    /\ files' = [file |-> files["part"], part |-> Absent]
    /\ saved' = saves
    /\ saving' = Idle
    /\ cutShort' = ~Whole(files["part"])
    /\ stranded' = FALSE
    /\ SaveOther
RenameFails ==
    /\ saving.at = "rename"
    /\ saving' = Idle
    /\ SaveOther /\ UNCHANGED <<files, saved, cutShort, stranded>>

\* The process ends at any point, while the partial file is written as well, and
\* another one starts without a store.
NewStore(T, base, known) ==
    /\ triples' = T /\ baseUri' = base /\ prefixes' = known
    /\ overridden' = FALSE

NoPrefixes == [p \in Prefixes \cup {Empty} |-> NoUri]

Crash ==
    /\ NewStore({}, NoUri, NoPrefixes)
    /\ saving' = Idle
    /\ \/ UNCHANGED files
       \/ /\ saving.at = "write" /\ ~RefusesToWrite
          /\ files' = [files EXCEPT !["part"] = Cut]
    /\ UNCHANGED <<backend, writes, imports, saves, saved, cutShort, stranded>>

\* load: a new store, with the URL of the document as its base URI.
Load ==
    /\ Unlocked /\ triples = {} /\ baseUri = NoUri /\ Room
    /\ Whole(files["file"])
    /\ LET new == Read(files["file"].lines, FileUrl,
                       IF backend = "Sord" THEN 0 ELSE imports + 1)
           known == [NoPrefixes EXCEPT ![Empty] = FileUrl]
       IN  /\ NewStore(ImportFromTemporaryModel({}, new, "ignore").triples, FileUrl,
                       ImportPrefixes(known, files["file"]))
    /\ imports' = imports + 1
    /\ UNCHANGED <<backend, writes, disk>>

Init ==
    /\ backend \in Backends
    /\ triples = {} /\ baseUri = NoUri /\ prefixes = NoPrefixes
    /\ files = [file |-> Absent, part |-> Absent] /\ saving = Idle
    /\ writes = 0 /\ imports = 0 /\ overridden = FALSE
    /\ saves = 0 /\ saved = 0 /\ cutShort = FALSE /\ stranded = FALSE

\* The triples and nodes that the client itself uses.
ClientTriples == {<<u, Predicate, l>> : u \in Uri, l \in Literal}
Patterns == {<<a, b, c>> : a \in Uri \cup {Nothing}, b \in {Predicate, Nothing},
                           c \in Uri \cup Literal \cup {Nothing}}

Next ==
    \/ \E t \in ClientTriples : Add(t)
    \/ \E t \in Patterns : RemoveMatching(t)
    \/ \E cs \in ChangeSets : Known(cs) /\ ApplyChanges(cs)
    \/ \E cs \in ChangeSets : Known(cs) /\ RevertChanges(cs)
    \/ Clear
    \/ \E l \in Label, c \in Literal : AddBlankNode(l, c)
    \/ \E p \in Prefixes \cup {Empty}, c \in Literal : AddAtUniqueUri(p, c)
    \/ \E u \in Namespace : SetBaseUri(u)
    \/ \E p \in Prefixes \cup {Empty}, u \in Namespace : AddPrefix(p, u)
    \/ \E doc \in Documents, mode \in Modes : Import(doc, FileUrl, mode)
    \/ \E doc \in Documents, base \in Namespace, mode \in Modes : ImportString(doc, base, mode)
    \/ BeginSave
    \/ CreateFile
    \/ WritePart
    \/ WriteFails
    \/ RemoveFile
    \/ RenamePart
    \/ RenameFails
    \/ Crash
    \/ Load

Spec == Init /\ [][Next]_vars

-------------------------------------------------------------------------------
(* Properties.                                                                  *)

\* Whatever the contents: a change set that change accepts in full is one that
\* revert accepts and undoes, and the other way round.  TransactionalStore hides
\* and shows a transaction's changes by nothing else.
RevertUndoesChange ==
    \A cs \in ChangeSets :
        LET done == Change(triples, cs)
            undone == Revert(triples, cs)
        IN  /\ done.returns = "true" => Revert(done.triples, cs) = Result(triples, "true")
            /\ undone.returns = "true" => Change(undone.triples, cs) = Result(triples, "true")

\* ":x" means the same to expand, which reads m_baseUri, and in a query, which is
\* given m_prefixes, unless the client gave the empty prefix another meaning:
\* imports, saves and loads never part the two (setBaseUri, addPrefixOnImport).
EmptyPrefixIsBase ==
    baseUri # NoUri /\ ~overridden /\ backend = "Redland" =>
        \A x \in Local : NameInQuery(Empty, x) = Expand(Empty, x)

\* Of every pattern, the reads that give one answer give one that match lists, or
\* none when match lists none (matchOnce, contains and complete, which take
\* different ways to their answer); and names are read alike everywhere.
ReadsAgree ==
    /\ EmptyPrefixIsBase
    /\ \A pattern \in Patterns :
        /\ Throws \notin MatchOnce(pattern) =>
               MatchOnce(pattern) = OneOf(DoMatch(triples, pattern), NoTriple)
        /\ \A n \in CompleteTriple(pattern) \ {Throws, Nothing} :
               \E t \in DoMatch(triples, pattern) :
                   t = [i \in 1..3 |-> IF pattern[i] = Nothing THEN n ELSE pattern[i]]

\* In a mode that looks for duplicates an import takes over the whole document,
\* triples and prefixes, or it changes nothing, wherever in the document it fails
\* (import and importString).
ImportsAreAllOrNothing ==
    [][imports' # imports =>
       \A doc \in Documents, base \in Namespace, mode \in {"ignore", "fail"} :
           ImportDocument(doc, base, mode) =>
               \/ UNCHANGED <<triples, prefixes>>
               \/ /\ Read(doc.lines, base, BlankPrefix) \subseteq triples'
                  /\ prefixes' = ImportPrefixes(prefixes, doc)]_vars

\* What an import adds says nothing of blank nodes that were there before: nodes
\* of two documents that have the same label stay apart (the blank prefix).
ImportsKeepBlankNodesApart ==
    [][imports' # imports => Blanks(triples' \ triples) \cap Blanks(triples) = {}]_vars

\* Once a save has returned, its document or a later one is complete in the save
\* file or in the partial file, wherever a later save fails or the process ends,
\* unless a save lost data without noticing, or one was begun when an earlier one
\* had been cut off between removing the file and renaming (save).
SomeCopySurvives ==
    saved > 0 /\ ~cutShort /\ ~stranded =>
        \E f \in {"file", "part"} : Whole(files[f]) /\ files[f].number >= saved

================================================================================
