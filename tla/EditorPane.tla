----------------------------- MODULE EditorPane -----------------------------
(***************************************************************************)
(* The documents of the editor (app/qml/components/CodeEditorPane.qml,     *)
(* with app/cpp/EditorViewModel.cpp, which passes the answers on).  Any    *)
(* document can be made the active one at any time, so which one is active *)
(* is left out; the text of the active one is the text on the screen.      *)
(***************************************************************************)
EXTENDS FileTree

Document == [path : Seq(Name), text : Content, modified : BOOLEAN, loading : BOOLEAN,
             saving : BOOLEAN, missing : BOOLEAN,
             synced : Content,  \* history: the text last read or written
             moved : BOOLEAN]   \* history: the answer to the last request for
                                \* it will not find it

MakeDocument(p, text, loading) ==
  [path |-> p, text |-> text, modified |-> FALSE, loading |-> loading,
   saving |-> FALSE, missing |-> FALSE, synced |-> text, moved |-> FALSE]

\* findDocumentIndex: the first document of a path.
At(docs, p) == {i \in DOMAIN docs : /\ docs[i].path = p
                                    /\ \A j \in 1..i - 1 : docs[j].path # p}

Matches(p, target, recursive) ==
  p = target \/ (recursive /\ IsPrefix(target, p))

\* A document that loads is still expected; its answer will be ignored once.
Ignoring(docs, i, ignored) ==
  IF docs[i].loading THEN ignored \cup {docs[i].path} ELSE ignored

\* upsertLoadedDocument
Loaded(docs, p, text, ignored) ==
  IF p \in ignored THEN docs
  ELSE IF At(docs, p) = {} THEN Append(docs, MakeDocument(p, text, FALSE))
  ELSE [i \in DOMAIN docs |->
          IF i \in At(docs, p) THEN MakeDocument(p, text, FALSE) ELSE docs[i]]

\* handleOpenFailed
OpenFailed(docs, p, ignored) ==
  IF p \in ignored \/ At(docs, p) = {} THEN docs
  ELSE RemoveAt(docs, CHOOSE i \in At(docs, p) : TRUE)

\* Mutant: what has been modified goes as well.
RemovedAll(docs, p, recursive) ==
  SelectSeq(docs, LAMBDA doc : ~Matches(doc.path, p, recursive))

\* handlePathRemoved: what has been modified is kept, cut off from its file.
CutOff(doc) == [doc EXCEPT !.missing = TRUE, !.saving = FALSE, !.loading = FALSE]

Removed(docs, p, recursive) ==
  LET keep(kept, doc) ==
        IF ~Matches(doc.path, p, recursive) THEN Append(kept, doc)
        ELSE IF doc.modified THEN Append(kept, CutOff(doc)) ELSE kept
  IN  FoldLeft(keep, <<>>, docs)

\* handlePathMoved; nothing keeps two documents from having one path then.
Renamed(docs, from, to) ==
  LET hit(i) == Matches(docs[i].path, from, TRUE)
      taken == {Rebase(docs[j].path, from, to) : j \in {k \in DOMAIN docs : hit(k)}}
  IN  [i \in DOMAIN docs |->
         IF hit(i)
         THEN [docs[i] EXCEPT !.path = Rebase(@, from, to), !.missing = FALSE, !.moved = TRUE]
         ELSE [docs[i] EXCEPT !.moved = @ \/ docs[i].path \in taken]]

\* onSaveSucceeded: the text on the screen counts as what was saved.
SaveSucceeded(docs, p, text) ==
  [i \in DOMAIN docs |->
     IF i \in At(docs, p)
     THEN [docs[i] EXCEPT !.modified = FALSE, !.saving = FALSE, !.synced = text]
     ELSE docs[i]]

\* Mutant: the mark that it saves stays.
SaveFailedStuck(docs, p) ==
  [i \in DOMAIN docs |->
     IF i \in At(docs, p) THEN [docs[i] EXCEPT !.modified = TRUE] ELSE docs[i]]

\* onSaveFailed
SaveFailed(docs, p) ==
  [i \in DOMAIN docs |->
     IF i \in At(docs, p) THEN [docs[i] EXCEPT !.modified = TRUE, !.saving = FALSE]
     ELSE docs[i]]
=============================================================================
