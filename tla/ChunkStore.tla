------------------------------ MODULE ChunkStore ------------------------------
(***************************************************************************)
(* The chunk store: WriteChunk of internal/store/chunks.go by several      *)
(* goroutines of one process, over the chunk directory and the chunks      *)
(* table of internal/store/sqlite.go.  Each system call is a step: another *)
(* writer of the same content, an error or the end of the process may come *)
(* between any two.                                                        *)
(*                                                                         *)
(* A hash stands for the content it is the hash of.                        *)
(***************************************************************************)
EXTENDS Integers, FiniteSets

CONSTANTS Writers,          \* goroutines that store chunks
          Hashes,           \* contents that are stored
          NoHash,
          ErrorBound        \* bound: how many calls of WriteChunk fail

ASSUME StoreAssumption ==
  NoHash \notin Hashes /\ "dead" \notin Writers /\ "kept" \notin Writers /\ ErrorBound \in Nat

VARIABLES
  files,                    \* <hash>.chunk files: hash -> absent, part, whole
  rows,                     \* the chunks table
  temps,                    \* temporary files: whose, hash, content
  wpc, whash,               \* each writer: where it is in WriteChunk, its chunk
  errors

durableVars == <<files, rows>>
writerVars == <<wpc, whash>>
storeVars == <<durableVars, temps, writerVars, errors>>

Content == {"part", "whole"}

\* A writer, one whose process has ended, or none: a file that could not be removed.
Owner == Writers \cup {"dead", "kept"}

StoreTypeOK ==
  /\ files \in [Hashes -> Content \cup {"absent"}]
  /\ rows \subseteq Hashes
  /\ temps \subseteq [by : Owner, hash : Hashes, content : Content]
  /\ wpc \in [Writers -> {"idle", "stat", "create", "write", "close", "rename",
                          "upsert", "stored", "failed"}]
  /\ whash \in [Writers -> Hashes \cup {NoHash}]
  /\ errors \in 0..ErrorBound

StoreInit ==
  /\ files = [h \in Hashes |-> "absent"] /\ rows = {} /\ temps = {}
  /\ wpc = [w \in Writers |-> "idle"] /\ whash = [w \in Writers |-> NoHash]
  /\ errors = 0

At(w, pc) == wpc[w] = pc
Goto(w, pc) == wpc' = [wpc EXCEPT ![w] = pc] /\ UNCHANGED whash

Error == errors < ErrorBound /\ errors' = errors + 1

TempsOf(w) == {t \in temps : t.by = w}
Temp(w, content) == [by |-> w, hash |-> whash[w], content |-> content]

\* The temporary files once w has left its own as a file of by.
LeftAs(w, by) == {IF t.by = w THEN [t EXCEPT !.by = by] ELSE t : t \in temps}

\* os.Remove of the temporary file, and what is left when it fails, which is ignored.
Removed(w) == temps' = temps \ TempsOf(w)
NotRemoved(w) == temps' = LeftAs(w, "kept")

-----------------------------------------------------------------------------
\* WriteChunk is called with content h.
Call(w, h) ==
  /\ At(w, "idle")
  /\ wpc' = [wpc EXCEPT ![w] = "stat"] /\ whash' = [whash EXCEPT ![w] = h]
  /\ UNCHANGED <<durableVars, temps, errors>>

\* Mutant of Stat: a file that is there needs no row.
Stat_SkipsUpsert(w) ==
  /\ At(w, "stat")
  /\ Goto(w, IF files[whash[w]] = "absent" THEN "create" ELSE "stored")
  /\ UNCHANGED <<durableVars, temps, errors>>

\* Content addressing: a file that is there is not written again.
Stat(w) ==
  /\ At(w, "stat")
  /\ Goto(w, IF files[whash[w]] = "absent" THEN "create" ELSE "upsert")
  /\ UNCHANGED <<durableVars, temps, errors>>

\* Mutant of CreateTemp: the file is created under its final name.
CreateTemp_Final(w) ==
  /\ At(w, "create")
  /\ files' = [files EXCEPT ![whash[w]] = "part"]
  /\ temps' = temps \cup {Temp(w, "part")}
  /\ Goto(w, "write")
  /\ UNCHANGED <<rows, errors>>

CreateTemp(w) ==
  /\ At(w, "create")
  /\ temps' = temps \cup {Temp(w, "part")}
  /\ Goto(w, "write")
  /\ UNCHANGED <<durableVars, errors>>

Write(w) ==
  /\ At(w, "write")
  /\ temps' = (temps \ TempsOf(w)) \cup {Temp(w, "whole")}
  /\ Goto(w, "close")
  /\ UNCHANGED <<durableVars, errors>>

Close(w) ==
  /\ At(w, "close")
  /\ Goto(w, "rename")
  /\ UNCHANGED <<durableVars, temps, errors>>

\* Replaces a file that another writer put there meanwhile.
Rename(w) ==
  /\ At(w, "rename")
  /\ \E t \in TempsOf(w) : files' = [files EXCEPT ![t.hash] = t.content]
  /\ temps' = temps \ TempsOf(w)
  /\ Goto(w, "upsert")
  /\ UNCHANGED <<rows, errors>>

\* Where the system does not replace a file, the one that is there will do.
RenameRefused(w) ==
  /\ At(w, "rename") /\ files[whash[w]] # "absent"
  /\ (Removed(w) /\ UNCHANGED errors) \/ (NotRemoved(w) /\ Error)
  /\ Goto(w, "upsert")
  /\ UNCHANGED durableVars

Upsert(w) ==
  /\ At(w, "upsert")
  /\ rows' = rows \cup {whash[w]}
  /\ Goto(w, "stored")
  /\ UNCHANGED <<files, temps, errors>>

\* Mutant of CallFails: nothing removes the temporary file.
CallFails_KeepsTemp(w) ==
  /\ wpc[w] \in {"stat", "create", "write", "close", "rename", "upsert"}
  /\ Error
  /\ Goto(w, "failed")
  /\ UNCHANGED <<durableVars, temps>>

\* Any of the calls fails: the temporary file, if there is one, is removed, and
\* WriteChunk returns the error.
CallFails(w) ==
  /\ wpc[w] \in {"stat", "create", "write", "close", "rename", "upsert"}
  /\ Error
  /\ Removed(w) \/ NotRemoved(w)
  /\ Goto(w, "failed")
  /\ UNCHANGED durableVars

\* WriteChunk has returned, and its caller has looked at the result.
Return(w) ==
  /\ wpc[w] \in {"stored", "failed"}
  /\ wpc' = [wpc EXCEPT ![w] = "idle"] /\ whash' = [whash EXCEPT ![w] = NoHash]
  /\ UNCHANGED <<durableVars, temps, errors>>

\* The process ends: files and rows stay, temporary files too.
Die ==
  /\ temps' = {IF t.by \in Writers THEN [t EXCEPT !.by = "dead"] ELSE t : t \in temps}
  /\ wpc' = [w \in Writers |-> "idle"] /\ whash' = [w \in Writers |-> NoHash]
  /\ UNCHANGED <<durableVars, errors>>

WriterStep(w) ==
  \/ Stat(w) \/ CreateTemp(w) \/ Write(w) \/ Close(w)
  \/ Rename(w) \/ RenameRefused(w) \/ Upsert(w) \/ CallFails(w)
=============================================================================
