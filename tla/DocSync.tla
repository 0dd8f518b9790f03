------------------------------ MODULE DocSync -------------------------------
(***************************************************************************)
(* One document on its way from the editor to rust-analyzer: openDoc and   *)
(* syncDoc of the useLsp hook, the lsp_open_document and lsp_sync_document *)
(* commands (commands/lsp_commands.rs), the CacheEngine they update        *)
(* (lsp/cache_engine.rs) and the copy that rust-analyzer keeps.            *)
(*                                                                         *)
(* The editor does not await one command before it invokes the next, and   *)
(* Tauri runs each as a task of its own: between invoke and the cache, and *)
(* between the cache and LspHost::notify, any task may overtake any other. *)
(* Text n is the buffer after the n-th edit, text 0 the file on disk.      *)
(* Documents do not interact, so one is enough.  rust-analyzer does not    *)
(* die of itself here.  Init, Next and the like are named after the module *)
(* so that one module can extend this one and LspSession (SessionProofs).  *)
(***************************************************************************)
EXTENDS Integers, FiniteSets

CONSTANTS
  MaxEdits,    \* bound: edits of the buffer
  MaxOpens,    \* bound: clicks that open the file
  MaxEpochs    \* bound: lives of the language server session

ASSUME DocAssumption ==
  MaxEdits \in Nat /\ MaxOpens \in Nat /\ MaxEpochs \in Nat \ {0}

VARIABLES
  text,        \* what the editor shows
  clicks,      \* handleOpenFileInActiveGroup calls so far
  reading,     \* those of them that await read_file
  epoch,       \* cleanups of the useLsp effect, plus one
  isOpen,      \* openDocsRef has the document
  version,     \* docVersions of the document, 0 when it has none
  sent,        \* commands invoked, not yet at the cache
  cached,      \* commands that updated the cache, not yet at notify
  failed,      \* lsp_open_document errors on their way to openDoc
  cache,       \* CacheEngine.documents of the document
  applied,     \* commands that came to the cache since its last open (history)
  hasHost,     \* is an LspHost stored in LspState
  mirror       \* rust-analyzer's copy

editorVars == <<text, clicks, reading, epoch, isOpen, version>>
docVars == <<editorVars, sent, cached, failed, cache, applied, hasHost, mirror>>

Texts == 0..MaxEdits
Epochs == 1..MaxEpochs
Versions == 1..(MaxEdits + MaxOpens)
Docs == [epoch: Epochs, version: Versions, text: Texts]
Closed == [epoch |-> 0, version |-> 0, text |-> 0]
Commands == [what: {"open", "sync"}, doc: Docs]

DocTypeOK ==
  /\ text \in Texts /\ epoch \in Epochs
  /\ clicks \in 0..MaxOpens /\ reading \in 0..clicks
  /\ isOpen \in {"yes", "no"}
  /\ version \in Versions \cup {0}
  /\ sent \subseteq Commands /\ cached \subseteq Commands /\ failed \subseteq Commands
  /\ cache \in Docs \cup {Closed} /\ mirror \in Docs \cup {Closed}
  /\ applied \subseteq Docs
  /\ hasHost \in {"yes", "no"}
  /\ isOpen = "yes" => version # 0

DocInit ==
  /\ text = 0 /\ clicks = 0 /\ reading = 0
  /\ epoch = 1 /\ isOpen = "no" /\ version = 0
  /\ sent = {} /\ cached = {} /\ failed = {}
  /\ cache = Closed /\ applied = {}
  /\ hasHost = "no" /\ mirror = Closed

-----------------------------------------------------------------------------
(* The hook                                                                *)

(* nextVersion and the invocation of a command for text t.                 *)
InvokeCommand(what, t) ==
  /\ version' = version + 1
  /\ sent' = sent \cup {[what |-> what,
                         doc |-> [epoch |-> epoch, version |-> version + 1, text |-> t]]}

(* Mutant: openDocsRef learns of the document after the await, that is,    *)
(* here, never before the next call.                                       *)
OpenDocLate(t) ==
  IF isOpen = "yes"
    THEN UNCHANGED <<isOpen, version, sent>>
    ELSE isOpen' = "no" /\ InvokeCommand("open", t)

(* openDoc up to its await.                                                *)
OpenDoc(t) ==
  IF isOpen = "yes"
    THEN UNCHANGED <<isOpen, version, sent>>
    ELSE isOpen' = "yes" /\ InvokeCommand("open", t)

(* The user opens the file in a tab: the file is read again for the        *)
(* language server, even if the editor has it already.                     *)
OpenFile ==
  /\ clicks < MaxOpens
  /\ clicks' = clicks + 1 /\ reading' = reading + 1
  /\ UNCHANGED <<text, epoch, isOpen, version, sent, cached, failed, cache, applied,
                 hasHost, mirror>>

FileRead ==
  /\ reading > 0
  /\ reading' = reading - 1
  /\ OpenDoc(0)
  /\ UNCHANGED <<text, clicks, epoch, cached, failed, cache, applied, hasHost, mirror>>

(* The buffer changes: handleLinesChange calls syncDoc, which opens the    *)
(* document if it is not open.                                             *)
Edit ==
  /\ text < MaxEdits
  /\ text' = text + 1
  /\ IF isOpen = "yes"
       THEN InvokeCommand("sync", text + 1) /\ UNCHANGED isOpen
       ELSE OpenDoc(text + 1)
  /\ UNCHANGED <<clicks, reading, epoch, cached, failed, cache, applied, hasHost, mirror>>

(* An lsp_open_document fails: the document counts as not open, whichever  *)
(* openDoc call put it there.                                              *)
OpenFails(c) ==
  /\ c \in failed
  /\ failed' = failed \ {c}
  /\ isOpen' = "no"
  /\ UNCHANGED <<text, clicks, reading, epoch, version, sent, cached, cache, applied,
                 hasHost, mirror>>

(* Mutant: the cleanup keeps openDocsRef.                                  *)
CleanupKeepsOpen ==
  /\ epoch < MaxEpochs
  /\ epoch' = epoch + 1
  /\ version' = 0
  /\ UNCHANGED <<text, clicks, reading, isOpen, sent, cached, failed, cache, applied,
                 hasHost, mirror>>

(* The workspace root changes: the cleanup of the effect.                  *)
Cleanup ==
  /\ epoch < MaxEpochs
  /\ epoch' = epoch + 1
  /\ isOpen' = "no" /\ version' = 0
  /\ UNCHANGED <<text, clicks, reading, sent, cached, failed, cache, applied, hasHost, mirror>>

-----------------------------------------------------------------------------
(* CacheEngine                                                             *)

(* open_document                                                           *)
CacheOpen(d) == cache' = d /\ applied' = {d}

(* Mutant: no version check.                                               *)
CacheSyncAny(d) ==
  /\ cache' = IF cache = Closed THEN cache ELSE d
  /\ applied' = IF cache = Closed THEN applied ELSE applied \cup {d}

(* apply_incremental_update with the one rangeless change that syncDoc     *)
(* sends, then apply_full_update with the same text and version, which is  *)
(* a no-op once the first was one.                                         *)
CacheSync(d) ==
  /\ cache' = IF cache # Closed /\ d.version > cache.version THEN d ELSE cache
  /\ applied' = IF cache = Closed THEN applied ELSE applied \cup {d}

(* The command of c reaches the cache.                                     *)
ToCache(c) ==
  /\ c \in sent
  /\ sent' = sent \ {c} /\ cached' = cached \cup {c}
  /\ IF c.what = "open" THEN CacheOpen(c.doc) ELSE CacheSync(c.doc)
  /\ UNCHANGED <<editorVars, failed, hasHost, mirror>>

-----------------------------------------------------------------------------
(* LspHost and rust-analyzer (its copy external: seen as it is once all    *)
(* that notify has put into the writer channel is read)                    *)

(* require_host! and notify; rust-analyzer ignores a didChange of a        *)
(* document it has not open and takes any other text it is given.          *)
ToServer(c) ==
  /\ c \in cached
  /\ cached' = cached \ {c}
  /\ failed' = IF hasHost = "no" /\ c.what = "open" THEN failed \cup {c} ELSE failed
  /\ mirror' = IF hasHost = "yes" /\ (c.what = "open" \/ mirror # Closed)
                 THEN c.doc ELSE mirror
  /\ UNCHANGED <<editorVars, sent, cache, applied, hasHost>>

(* lsp_start stores a host; lsp_start and lsp_stop take one away           *)
(* (LspSession).  A new server has no documents.                           *)
HostStored ==
  /\ hasHost = "no" /\ hasHost' = "yes"
  /\ UNCHANGED <<editorVars, sent, cached, failed, cache, applied, mirror>>

HostTaken ==
  /\ hasHost = "yes" /\ hasHost' = "no"
  /\ epoch > 1
  /\ mirror' = Closed
  /\ UNCHANGED <<editorVars, sent, cached, failed, cache, applied>>

-----------------------------------------------------------------------------
DocNext ==
  \/ OpenFile \/ FileRead \/ Edit \/ Cleanup
  \/ \E c \in failed : OpenFails(c)
  \/ \E c \in sent : ToCache(c)
  \/ \E c \in cached : ToServer(c)
  \/ HostStored \/ HostTaken

DocSpec == DocInit /\ [][DocNext]_docVars

-----------------------------------------------------------------------------
(* Properties                                                              *)

(* The newest text wins in the cache, in whatever order the commands of    *)
(* one session come: of those that found the document open, since its last *)
(* open, it holds the one with the highest version, and with it the latest *)
(* edit, or the file as it was read again (text 0).  Sessions must not     *)
(* mix: versions begin at 1 after a cleanup, so a command of an earlier    *)
(* session that comes late can put its text over that of the new one and   *)
(* make the cache deaf to it, until the new session has counted as far.    *)
CacheIsNewest ==
  cache # Closed =>
    /\ cache \in applied
    /\ (\A d, e \in applied : d.epoch = e.epoch) =>
         \A d \in applied : /\ d.version <= cache.version
                            /\ d.text <= cache.text \/ cache.text = 0

(* One didOpen at a time: until the first cleanup at most one open is      *)
(* unanswered, and none once an open has come to rust-analyzer.  (Later    *)
(* sessions have no such luck: the error of an open made before the        *)
(* cleanup makes the hook forget an open made after it.)                   *)
OpenedOnce ==
  epoch = 1 =>
    LET opens == {c \in sent \cup cached \cup failed : c.what = "open"} IN
      /\ Cardinality(opens) <= 1
      /\ mirror # Closed => opens = {}
=============================================================================
