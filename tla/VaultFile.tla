----------------------------- MODULE VaultFile -----------------------------
(***************************************************************************)
(* `vault.rs: write` at the level of system calls: a shared `<vault>.tmp`  *)
(* is opened with create+truncate, filled, fsynced; the current vault is   *)
(* copied to `<vault>.bak` (its result is discarded); the temporary is     *)
(* renamed over the vault.  The directory is never fsynced.  The process   *)
(* may be killed and the machine may lose power between any two steps.     *)
(*                                                                         *)
(* The three names live in one directory `dir` that maps a name to an      *)
(* inode; `data` is what a read of the inode returns, `disk` and `diskDir` *)
(* what the storage device holds.  A document is Empty after a truncate    *)
(* and Torn when only part of it, or a mixture, is there.                  *)
(***************************************************************************)
CONSTANTS
    Writers,   \* threads that can be inside `write`
    Serial,    \* those whose calls exclude one another: `save`s do, by the
               \* session mutex.  `create` and `rotate` take no lock: they
               \* belong here only while requests come one at a time
    Docs,      \* complete sealed documents
    Inodes,
    NoFile, Empty, Torn

ASSUME SerialAssumption == Serial \subseteq Writers
ASSUME MarksAssumption ==
    /\ NoFile \notin Inodes
    /\ NoFile \notin Docs
    /\ Empty \notin Docs
    /\ Torn \notin Docs
    /\ Empty # Torn

Names    == {"tmp", "vault", "bak"}
Contents == Docs \cup {Empty, Torn}
Phases   == {"idle", "open", "write", "sync", "copy", "copying", "rename",
             "ok", "err"}

VARIABLES
    dir, diskDir,   \* name -> inode, in memory and on the device
    data, disk,     \* inode -> contents, in memory and on the device
    phase,          \* how far each thread is in `write`
    doc,            \* the document it was given
    fd,             \* the inode it has open for writing
    src             \* the inode `fs::copy` reads from; kept until the rename
                    \* when the copy succeeded

fsVars == <<dir, diskDir, data, disk>>
vars == <<dir, diskDir, data, disk, phase, doc, fd, src>>

Init ==
    /\ dir = [n \in Names |-> NoFile]
    /\ diskDir = dir
    /\ data = [i \in Inodes |-> Empty]
    /\ disk = data
    /\ phase = [w \in Writers |-> "idle"]
    /\ doc \in [Writers -> Docs]
    /\ fd = [w \in Writers |-> NoFile]
    /\ src = [w \in Writers |-> NoFile]

Goto(w, p) == phase' = [phase EXCEPT ![w] = p]
Open(w, i) == fd' = [fd EXCEPT ![w] = i]

\* What a name's file holds; NoFile when there is none.
ContentOf(n) == IF dir[n] = NoFile THEN NoFile ELSE data[dir[n]]

\* An inode no name and no descriptor refers to may be allocated.
Free(i) ==
    /\ \A n \in Names : dir[n] # i /\ diskDir[n] # i
    /\ \A w \in Writers : fd[w] # i /\ src[w] # i

\* open(2) with O_CREAT | O_TRUNC.
Truncates(w, n) ==
    \/ /\ dir[n] = NoFile
       /\ \E i \in Inodes :
              /\ Free(i)
              /\ dir' = [dir EXCEPT ![n] = i]
              /\ data' = [data EXCEPT ![i] = Empty]
              /\ Open(w, i)
    \/ /\ dir[n] # NoFile
       /\ data' = [data EXCEPT ![dir[n]] = Empty]
       /\ Open(w, dir[n])
       /\ UNCHANGED dir

-----------------------------------------------------------------------------
(* The steps of one call of `write`.                                       *)

\* Called with the sealed bytes; sealing touches no shared state.  A `save`
\* runs under the session mutex, so two of them never overlap; `create` and
\* `rotate` write without it.
Begin(w, d) ==
    /\ phase[w] = "idle"
    /\ w \in Serial => \A v \in Serial : phase[v] = "idle"
    /\ Goto(w, "open")
    /\ doc' = [doc EXCEPT ![w] = d]
    /\ UNCHANGED <<dir, diskDir, data, disk, fd, src>>

\* create_dir_all or the open of the temporary fails; nothing was touched.
OpenTmpFails(w) ==
    /\ phase[w] = "open"
    /\ Goto(w, "err")
    /\ UNCHANGED <<dir, diskDir, data, disk, doc, fd, src>>

OpenTmp(w) ==
    /\ phase[w] = "open"
    /\ Goto(w, "write")
    /\ Truncates(w, "tmp")
    /\ UNCHANGED <<diskDir, disk, doc, src>>

\* write_all over whatever another writer of the same file left: whole, or
\* a mixture.  On an error part of it is there and the descriptor closes.
WriteAll(w) ==
    /\ phase[w] = "write"
    /\ Goto(w, "sync")
    /\ \E c \in {doc[w], Torn} :
           /\ data[fd[w]] = Empty => c = doc[w]
           /\ data' = [data EXCEPT ![fd[w]] = c]
    /\ UNCHANGED <<dir, diskDir, disk, doc, fd, src>>

WriteFails(w) ==
    /\ phase[w] = "write"
    /\ Goto(w, "err")
    /\ data' = [data EXCEPT ![fd[w]] = Torn]
    /\ Open(w, NoFile)
    /\ UNCHANGED <<dir, diskDir, disk, doc, src>>

\* Variant: the fsync is left out.
SyncSkipped(w) ==
    /\ phase[w] = "sync"
    /\ Goto(w, "copy")
    /\ Open(w, NoFile)
    /\ UNCHANGED <<dir, diskDir, data, disk, doc, src>>

\* Variant: the descriptor outlives the block.
SyncLeaksFd(w) ==
    /\ phase[w] = "sync"
    /\ Goto(w, "copy")
    /\ disk' = [disk EXCEPT ![fd[w]] = data[fd[w]]]
    /\ UNCHANGED <<dir, diskDir, data, doc, fd, src>>

\* fsync, then the descriptor is closed at the end of the block.
SyncAll(w) ==
    /\ phase[w] = "sync"
    /\ Goto(w, "copy")
    /\ disk' = [disk EXCEPT ![fd[w]] = data[fd[w]]]
    /\ Open(w, NoFile)
    /\ UNCHANGED <<dir, diskDir, data, doc, src>>

SyncFails(w) ==
    /\ phase[w] = "sync"
    /\ Goto(w, "err")
    /\ Open(w, NoFile)
    /\ UNCHANGED <<dir, diskDir, data, disk, doc, src>>

\* `path.is_file()` is false, or fs::copy cannot open either file.
BakSkipped(w) ==
    /\ phase[w] = "copy"
    /\ Goto(w, "rename")
    /\ UNCHANGED <<dir, diskDir, data, disk, doc, fd, src>>

\* Variant: the vault is moved to the .bak name instead of copied.
BakMove(w) ==
    /\ phase[w] = "copy"
    /\ dir["vault"] # NoFile
    /\ Goto(w, "rename")
    /\ dir' = [dir EXCEPT !["bak"] = dir["vault"], !["vault"] = NoFile]
    /\ UNCHANGED <<diskDir, data, disk, doc, fd, src>>

\* Variant: the wrong file is copied.
BakOfTmp(w) ==
    /\ phase[w] = "copy"
    /\ dir["vault"] # NoFile
    /\ Goto(w, "copying")
    /\ Truncates(w, "bak")
    /\ src' = [src EXCEPT ![w] = dir["tmp"]]
    /\ UNCHANGED <<diskDir, disk, doc>>

\* fs::copy opens the vault for reading and creates or truncates the .bak.
BakOpen(w) ==
    /\ phase[w] = "copy"
    /\ dir["vault"] # NoFile
    /\ Goto(w, "copying")
    /\ Truncates(w, "bak")
    /\ src' = [src EXCEPT ![w] = dir["vault"]]
    /\ UNCHANGED <<diskDir, disk, doc>>

\* The bytes are copied from the inode that was opened.
BakCopy(w) ==
    /\ phase[w] = "copying"
    /\ Goto(w, "rename")
    /\ data' = [data EXCEPT ![fd[w]] = data[src[w]]]
    /\ Open(w, NoFile)
    /\ UNCHANGED <<dir, diskDir, disk, doc, src>>

\* fs::copy fails half-way and the error is discarded (`let _ =`).
BakFails(w) ==
    /\ phase[w] = "copying"
    /\ Goto(w, "rename")
    /\ data' = [data EXCEPT ![fd[w]] = Torn]
    /\ Open(w, NoFile)
    /\ src' = [src EXCEPT ![w] = NoFile]
    /\ UNCHANGED <<dir, diskDir, disk, doc>>

Rename(w) ==
    /\ phase[w] = "rename"
    /\ dir["tmp"] # NoFile
    /\ Goto(w, "ok")
    /\ dir' = [dir EXCEPT !["vault"] = dir["tmp"], !["tmp"] = NoFile]
    /\ src' = [src EXCEPT ![w] = NoFile]
    /\ UNCHANGED <<diskDir, data, disk, doc, fd>>

\* Variant: the result of the rename is discarded, as the copy's is.
RenameErrorDropped(w) ==
    /\ phase[w] = "rename"
    /\ Goto(w, "ok")
    /\ src' = [src EXCEPT ![w] = NoFile]
    /\ UNCHANGED <<dir, diskDir, data, disk, doc, fd>>

\* ENOENT when another writer has renamed the shared temporary away, or any
\* other error of rename(2).
RenameFails(w) ==
    /\ phase[w] = "rename"
    /\ Goto(w, "err")
    /\ src' = [src EXCEPT ![w] = NoFile]
    /\ UNCHANGED <<dir, diskDir, data, disk, doc, fd>>

\* The caller gets Ok or Err and, for `save`, drops the mutex.
Return(w) ==
    /\ phase[w] \in {"ok", "err"}
    /\ Goto(w, "idle")
    /\ UNCHANGED <<dir, diskDir, data, disk, doc, fd, src>>

-----------------------------------------------------------------------------
(* The operating system.                                                   *)

FlushInode(i) ==
    /\ disk[i] # data[i]
    /\ disk' = [disk EXCEPT ![i] = data[i]]
    /\ UNCHANGED <<dir, diskDir, data, phase, doc, fd, src>>

\* Directory updates reach the device in order, as a journal guarantees.
FlushDir ==
    /\ diskDir # dir
    /\ diskDir' = dir
    /\ UNCHANGED <<dir, data, disk, phase, doc, fd, src>>

ProcessGone ==
    /\ phase' = [w \in Writers |-> "idle"]
    /\ fd' = [w \in Writers |-> NoFile]
    /\ src' = [w \in Writers |-> NoFile]
    /\ UNCHANGED doc

\* The daemon is killed: SIGKILL, or process::exit on another thread.
Crash ==
    /\ ProcessGone
    /\ UNCHANGED fsVars

\* Unflushed names are forgotten; an unflushed inode holds what the device
\* had, or part of what was being written.
PowerLoss ==
    /\ ProcessGone
    /\ dir' = diskDir
    /\ data' \in [Inodes -> Contents]
    /\ \A i \in Inodes : data'[i] \in
           IF disk[i] = data[i] THEN {data[i]} ELSE {disk[i], Torn}
    /\ disk' = data'
    /\ UNCHANGED diskDir

Step(w) ==
    \/ OpenTmpFails(w)
    \/ OpenTmp(w)
    \/ WriteAll(w)
    \/ WriteFails(w)
    \/ SyncAll(w)
    \/ SyncFails(w)
    \/ BakSkipped(w)
    \/ BakOpen(w)
    \/ BakCopy(w)
    \/ BakFails(w)
    \/ Rename(w)
    \/ RenameFails(w)

Device ==
    \/ \E i \in Inodes : FlushInode(i)
    \/ FlushDir

Next ==
    \/ \E w \in Writers :
           \/ \E d \in Docs : Begin(w, d)
           \/ Step(w)
           \/ Return(w)
    \/ Device
    \/ Crash
    \/ PowerLoss

Spec == Init /\ [][Next]_vars

-----------------------------------------------------------------------------
(* Properties.                                                             *)

\* Every descriptor a step is about to use is open, and the steps that have
\* closed theirs (end of the block at vault.rs:207) hold none.
TypeOK ==
    /\ dir \in [Names -> Inodes \cup {NoFile}]
    /\ diskDir \in [Names -> Inodes \cup {NoFile}]
    /\ data \in [Inodes -> Contents]
    /\ disk \in [Inodes -> Contents]
    /\ phase \in [Writers -> Phases]
    /\ doc \in [Writers -> Docs]
    /\ fd \in [Writers -> Inodes \cup {NoFile}]
    /\ src \in [Writers -> Inodes \cup {NoFile}]
    /\ \A w \in Writers :
           /\ fd[w] # NoFile <=> phase[w] \in {"write", "sync", "copying"}
           /\ phase[w] = "copying" => src[w] # NoFile

\* vault.rs:174-177: "a reader/crash never sees a half-written vault".  What
\* is at the vault path, now and after any crash or power loss, is nothing
\* or a complete document.
NeverHalfWritten == ContentOf("vault") \in Docs \cup {NoFile}

\* vault.rs:209: when fs::copy succeeded, the moment the rename replaces the
\* vault the .bak holds exactly the document that was replaced.
RollbackKept ==
    [][\A w \in Writers :
          (phase[w] = "rename" /\ phase'[w] = "ok" /\ src[w] # NoFile)
              => ContentOf("bak")' = ContentOf("vault")]_vars

\* Once a vault is durable there is no moment without one at its path, not
\* even when `rotate` or `create` overlaps a `save` and they share the
\* temporary: the copy and the rename at vault.rs:212-214 leave no gap.
VaultStays ==
    [][dir["vault"] # NoFile /\ diskDir["vault"] # NoFile
          => dir'["vault"] # NoFile /\ diskDir'["vault"] # NoFile]_vars

\* The call's view, for the abstract specification.
Call(w) == IF phase[w] \in {"idle", "ok", "err"} THEN phase[w] ELSE "busy"

Durable == IF diskDir["vault"] = NoFile THEN NoFile
           ELSE disk[diskDir["vault"]]

AV == INSTANCE AtomicVault WITH vault <- ContentOf("vault"),
                                durable <- Durable,
                                call <- [w \in Writers |-> Call(w)],
                                arg <- doc

\* The steps of `write` implement the one-cell vault: every system call is a
\* stutter, except the rename, which is the Commit.
ImplementsAtomicVault == AV!Spec

-----------------------------------------------------------------------------
(* The inductive invariant, for Serial = Writers.                          *)

\* The session mutex: one thread at a time is inside `write`.
OneWriter ==
    \A v, w \in Writers : phase[v] # "idle" /\ phase[w] # "idle" => v = w

\* A vault inode, in memory or on the device, is complete and fsynced.
VaultSettled ==
    \A i \in {dir["vault"], diskDir["vault"]} \ {NoFile} :
        data[i] \in Docs /\ disk[i] = data[i]

\* The inodes that `write` truncates are never a vault inode.
NamesApart ==
    /\ \A n \in {"tmp", "bak"}, i \in {dir["vault"], diskDir["vault"]} :
           dir[n] # NoFile => dir[n] # i
    /\ \A n \in {"tmp", "bak"} :
           diskDir[n] # NoFile => diskDir[n] # diskDir["vault"]
    /\ dir["tmp"] # NoFile => dir["tmp"] # dir["bak"]
    /\ diskDir["tmp"] # NoFile => diskDir["tmp"] # diskDir["bak"]

\* How far the temporary is when a thread is at each phase.
TmpReady ==
    \A w \in Writers :
        /\ phase[w] \in {"write", "sync"} => fd[w] = dir["tmp"]
        /\ phase[w] = "write" => data[fd[w]] = Empty
        /\ phase[w] = "sync" => data[fd[w]] = doc[w]
        /\ phase[w] \in {"copy", "copying", "rename"} =>
               /\ dir["tmp"] # NoFile
               /\ data[dir["tmp"]] = doc[w]
               /\ disk[dir["tmp"]] = doc[w]

\* And the .bak: open while copying, a copy of the vault once src survives.
BakReady ==
    \A w \in Writers :
        /\ phase[w] = "copying" => fd[w] = dir["bak"]
        /\ src[w] # NoFile =>
               /\ phase[w] \in {"copying", "rename"}
               /\ src[w] = dir["vault"]
        /\ phase[w] = "rename" /\ src[w] # NoFile =>
               dir["bak"] # NoFile /\ data[dir["bak"]] = data[dir["vault"]]

IInv ==
    /\ TypeOK
    /\ OneWriter
    /\ VaultSettled
    /\ NamesApart
    /\ TmpReady
    /\ BakReady
=============================================================================
