--------------------------- MODULE ModuleTransfer ---------------------------
(***************************************************************************)
(* ss-module-download and ss-module-upload: a tree of modules is written   *)
(* to files, project by project, and put on another server from them,      *)
(* projects first, then images, then deployments.                          *)
(***************************************************************************)
EXTENDS Integers, SequencesExt

CONSTANTS
  Trees,             \* trees of modules: sets of paths, with the kind of each module
  TransferRoot,      \* the path of the project that is downloaded
  MaxModuleFaults    \* bound: requests that fail

ASSUME TransferAssumption == MaxModuleFaults \in Nat

VARIABLES
  topts,     \* the options, and the tree on the first server
  tmain,     \* the download and then the upload
  tfiles,    \* the files: the module that was last written to each
  tserver,   \* the modules on the second server, in the order in which they were put
  tfaults

transferVars == <<topts, tmain, tfiles, tserver, tfaults>>

Kinds == <<"project", "image", "deployment">>
(* A module is in a project, which is in a project, down from the one that is downloaded. *)
Names == UNION {ToSet(p) : p \in UNION {DOMAIN t : t \in Trees}}
ASSUME TreesAssumption ==
  /\ TransferRoot \in Seq(Names) \ {<<>>}
  /\ \A t \in Trees :
       /\ IsFiniteSet(DOMAIN t) /\ DOMAIN t \subseteq Seq(Names)
       /\ TransferRoot \in DOMAIN t /\ t[TransferRoot] = "project"
       /\ \A p \in DOMAIN t :
            /\ t[p] \in ToSet(Kinds) /\ IsPrefix(TransferRoot, p)
            /\ \A n \in Len(TransferRoot) .. Len(p) - 1 :
                 SubSeq(p, 1, n) \in DOMAIN t /\ t[SubSeq(p, 1, n)] = "project"

TransferOptions == [flat : BOOLEAN, continue : BOOLEAN, force : BOOLEAN, tree : Trees]

TransferIdle ==
  /\ tmain = [pc |-> "download", queue |-> <<TransferRoot>>, kind |-> 1, left |-> {}]
  /\ tfiles = <<>> /\ tserver = <<>> /\ tfaults = 0
TransferInit == topts \in TransferOptions /\ TransferIdle

Paths == DOMAIN topts.tree
Children(path) == {p \in Paths : Len(p) = Len(path) + 1 /\ Front(p) = path}
Orders(S) == {s \in [1 .. Cardinality(S) -> S] : ToSet(s) = S}
TransferAt(pc) == tmain.pc = pc
TransferFault == tfaults < MaxModuleFaults /\ tfaults' = tfaults + 1

(* A path is a sequence of names, and a name one of words: flat files join them all alike. *)
FileOf(path) ==
  IF topts.flat THEN FlattenSeq(path)
  ELSE IF topts.tree[path] = "project" THEN Append(path, Last(path)) ELSE path

(* _writeModuleAsXml, and the children after what is queued. *)
Write(file, path) == [f \in DOMAIN tfiles \cup {file} |-> IF f = file THEN path ELSE tfiles[f]]

TransferDownload ==
  /\ TransferAt("download") /\ tmain.queue # <<>>
  /\ LET path == Head(tmain.queue) IN
       /\ tfiles' = Write(FileOf(path), path)
       /\ \E order \in Orders(Children(path)) : tmain' = [tmain EXCEPT !.queue = Tail(@) \o order]
  /\ UNCHANGED <<topts, tserver, tfaults>>

(* What cannot be got ends the download, or is left out with all that is below it. *)
TransferDownloadFails ==
  /\ TransferAt("download") /\ tmain.queue # <<>> /\ TransferFault
  /\ tmain' = IF topts.continue THEN [tmain EXCEPT !.queue = Tail(@)]
              ELSE [tmain EXCEPT !.pc = "raised"]
  /\ UNCHANGED <<topts, tfiles, tserver>>

Written(kind) == {p \in {tfiles[f] : f \in DOMAIN tfiles} : topts.tree[p] = Kinds[kind]}

(* An upload without files is refused. *)
TransferToUpload ==
  /\ TransferAt("download") /\ tmain.queue = <<>>
  /\ tmain' = IF tfiles = <<>> THEN [tmain EXCEPT !.pc = "raised"]
              ELSE [tmain EXCEPT !.pc = "upload", !.left = Written(1)]
  /\ UNCHANGED <<topts, tfiles, tserver, tfaults>>

(* Mutant: unsorted. *)
MutantNextToPut(path) == path \in tmain.left

(* Those of one kind are sorted by their URLs, so that a project comes after the one it is in. *)
NextToPut(path) == path \in tmain.left /\ \A p \in tmain.left \ {path} : ~IsPrefix(p, path)
HasParent(path) == path = TransferRoot \/ Front(path) \in ToSet(tserver)

TransferPut ==
  /\ TransferAt("upload")
  /\ \E path \in tmain.left :
       /\ NextToPut(path) /\ HasParent(path)
       /\ tserver' = Append(tserver, path)
       /\ tmain' = [tmain EXCEPT !.left = @ \ {path}]
  /\ UNCHANGED <<topts, tfiles, tfaults>>

(* The request fails, or the server has nothing to put the module in. *)
TransferPutFails ==
  /\ TransferAt("upload")
  /\ \E path \in tmain.left :
       /\ NextToPut(path)
       /\ \/ HasParent(path) /\ TransferFault
          \/ ~HasParent(path) /\ UNCHANGED tfaults
       /\ tmain' = IF topts.force THEN [tmain EXCEPT !.left = @ \ {path}]
                   ELSE [tmain EXCEPT !.pc = "raised"]
  /\ UNCHANGED <<topts, tfiles, tserver>>

TransferNextKind ==
  /\ TransferAt("upload") /\ tmain.left = {}
  /\ tmain' = IF tmain.kind = Len(Kinds) THEN [tmain EXCEPT !.pc = "done"]
              ELSE [tmain EXCEPT !.kind = @ + 1, !.left = Written(tmain.kind + 1)]
  /\ UNCHANGED <<topts, tfiles, tserver, tfaults>>

TransferNext ==
  \/ TransferDownload \/ TransferDownloadFails \/ TransferToUpload \/ TransferPut
  \/ TransferPutFails \/ TransferNextKind

-----------------------------------------------------------------------------
TransferTypeOK ==
  /\ tmain.pc \in {"download", "upload", "done", "raised"} /\ tmain.kind \in 1 .. Len(Kinds)
  /\ ToSet(tmain.queue) \cup tmain.left \cup ToSet(tserver) \subseteq Paths
  /\ \A f \in DOMAIN tfiles : FileOf(tfiles[f]) = f
  /\ tfaults \in 0 .. MaxModuleFaults

(* The second server gets every module whose requests did not fail, unless two are written to *)
(* one file, which takes flat files or a module, no project, that has the name of the project *)
(* it is in; no module comes twice or before the project it is in, and nothing but deployments *)
(* comes after a deployment.  Images are put in the order of their URLs, whatever image one of *)
(* them is built from.                                                                         *)
SameFile(p, q) == p # q /\ FileOf(p) = FileOf(q)
NamedLikeItsProject(p) ==
  Len(p) > 1 /\ topts.tree[p] # "project" /\ Last(p) = Last(Front(p))
ModulesSurvive ==
  /\ TransferAt("done") /\ tfaults = 0 /\ ToSet(tserver) # Paths =>
       \E p, q \in Paths : SameFile(p, q) /\ (topts.flat \/ NamedLikeItsProject(p))
  /\ \A i \in 1 .. Len(tserver) :
       /\ \A j \in 1 .. i - 1 : tserver[j] # tserver[i]
       /\ \A j \in i + 1 .. Len(tserver) : ~IsPrefix(tserver[j], tserver[i])
       /\ topts.tree[tserver[i]] = "deployment" =>
            \A j \in i + 1 .. Len(tserver) : topts.tree[tserver[j]] = "deployment"

TransferOver == tmain.pc \in {"done", "raised"}
=============================================================================
