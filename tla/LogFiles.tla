------------------------------ MODULE LogFiles ------------------------------
(***************************************************************************)
(* The query log on disk: Query and Rotator of internal/log (the audit log *)
(* is built the same way).  Writes and rotations hold the log's mutex, but *)
(* Reconfigure opens the next file before it takes it, and rotated files   *)
(* are compressed in the background.  A file is an inode with the place    *)
(* that its name has; a descriptor stays with its inode when the name      *)
(* moves.                                                                  *)
(*                                                                         *)
(* An entry has size 1.  Retention (EvictOld) deletes rotated files by age *)
(* on purpose and is left out.                                             *)
(***************************************************************************)
EXTENDS Integers, FiniteSets

CONSTANTS MaxInodes, MaxEntries,
          Appliers,     \* API requests and reloads that configure the log
          MaxBytes,     \* rotate_size_mb, in entries
          Gzip,         \* logging.gzip
          MaxLogFailures, MaxLogRestarts, NoFile

Inodes == 1..MaxInodes    \* in the order of their creation

ASSUME LogAssumption == /\ MaxInodes \in Nat /\ MaxEntries \in Nat /\ MaxBytes \in Nat \ {0} /\ Gzip \in BOOLEAN
                        /\ MaxLogFailures \in Nat /\ MaxLogRestarts \in Nat
                        /\ NoFile \notin Inodes

VARIABLES place,     \* of each inode: "free", "path", "rotated", or "unlinked"
          text,      \* its entries
          zip,       \* the entries of its .gz file, NoFile without one
          zipping,   \* inodes that a gzipFile goroutine has still to do
          log,       \* Query.rotator and Query.enc; NoFile: disabled
          opening,   \* per applier: the Reconfigure that has opened its file
          written,   \* history: the last entry that Write accepted, entries are numbered
          failed,    \* history: a write or a rotation of the log in use failed
          split,     \* history: a rotation took the file away that a Reconfigure had opened
          logFailures, logRestarts

logDisk == <<place, text, zip, zipping>>
logVars == <<logDisk, log, opening, written, failed, split, logFailures, logRestarts>>

NotOpening == [at |-> "idle", next |-> NoFile]

LogInit == /\ place = [i \in Inodes |-> "free"] /\ text = [i \in Inodes |-> {}]
           /\ zip = [i \in Inodes |-> NoFile] /\ zipping = {}
           /\ log = NoFile /\ opening = [p \in Appliers |-> NotOpening]
           /\ written = 0 /\ failed = FALSE /\ split = FALSE
           /\ logFailures = 0 /\ logRestarts = 0

Places(p) == {i \in Inodes : place[i] = p}
-----------------------------------------------------------------------------
(* NewRotator appends to the file at the path, or creates it. *)
IsNew(i) == i = MaxInodes - Cardinality(Places("free")) + 1
Opens(i) == place[i] = "path" \/ (Places("path") = {} /\ IsNew(i))

NewRotator(p, i) ==
    /\ opening[p].at = "idle" /\ Opens(i)
    /\ place' = [place EXCEPT ![i] = "path"]
    /\ opening' = [opening EXCEPT ![p] = [at |-> "swap", next |-> [fd |-> i, size |-> Cardinality(text[i]), err |-> FALSE]]]
    /\ UNCHANGED <<text, zip, zipping, log, written, failed, split, logFailures, logRestarts>>

Disable(p) == /\ opening[p].at = "idle"
              /\ opening' = [opening EXCEPT ![p] = [at |-> "swap", next |-> NoFile]]
              /\ UNCHANGED <<logDisk, log, written, failed, split, logFailures, logRestarts>>

(* Reconfigure: the swap; the old descriptor is closed. *)
Reconfigure(p) == /\ opening[p].at = "swap"
                  /\ log' = opening[p].next
                  /\ opening' = [opening EXCEPT ![p] = NotOpening]
                  /\ failed' = FALSE
                  /\ UNCHANGED <<logDisk, written, split, logFailures, logRestarts>>
-----------------------------------------------------------------------------
(* Rotator.Rotate: close, rename what is at the path, open a new file, the *)
(* inode i, at the path.                                                   *)
TakesOpened == \E p \in Appliers : opening[p].next # NoFile

Rotated(i) == /\ IsNew(i)
              /\ place' = [j \in Inodes |-> IF j = i THEN "path"
                                            ELSE IF place[j] = "path" THEN "rotated" ELSE place[j]]
              /\ zipping' = IF Gzip THEN zipping \cup Places("path") ELSE zipping
              /\ split' = (split \/ TakesOpened)

HasFile == log # NoFile /\ log.fd # NoFile
NeedsRotation == log.size > 0 /\ log.size + 1 > MaxBytes

(* Query.Rotate, on SIGUSR1. *)
RotateM(i) == /\ HasFile /\ Rotated(i)
              /\ log' = [log EXCEPT !.fd = NoFile]
              /\ UNCHANGED <<text, zip, opening, written, failed, logFailures, logRestarts>>
Rotate(i) == /\ HasFile /\ Rotated(i)
             /\ log' = [log EXCEPT !.fd = i, !.size = 0]
             /\ UNCHANGED <<text, zip, opening, written, failed, logFailures, logRestarts>>

(* Query.Write, in a file with room for the entry or in a new one.  With   *)
(* the log disabled, or after a failure, nothing is written.               *)
WriteEntry == /\ HasFile /\ ~log.err /\ ~NeedsRotation /\ written < MaxEntries
              /\ text' = [text EXCEPT ![log.fd] = text[log.fd] \cup {written + 1}]
              /\ log' = [log EXCEPT !.size = log.size + 1]
              /\ written' = written + 1
              /\ UNCHANGED <<place, zip, zipping, opening, failed, split, logFailures, logRestarts>>

RotateAndWrite(i) == /\ HasFile /\ ~log.err /\ NeedsRotation /\ written < MaxEntries
                     /\ Rotated(i)
                     /\ text' = [text EXCEPT ![i] = {written + 1}]
                     /\ log' = [log EXCEPT !.fd = i, !.size = 1]
                     /\ written' = written + 1
                     /\ UNCHANGED <<zip, opening, failed, logFailures, logRestarts>>

(* The rename or the opening of the new file fails: the descriptor is      *)
(* closed already, and no later rotation opens one (rotate.go:66).         *)
RotateFails == /\ HasFile /\ logFailures < MaxLogFailures
               /\ logFailures' = logFailures + 1
               /\ log' = [log EXCEPT !.fd = NoFile]
               /\ failed' = TRUE
               /\ \/ UNCHANGED <<place, split>>
                  \/ /\ place' = [j \in Inodes |-> IF place[j] = "path" THEN "rotated" ELSE place[j]]
                     /\ split' = (split \/ TakesOpened)
               /\ UNCHANGED <<text, zip, zipping, opening, written, logRestarts>>

(* The file system refuses the entry: json.Encoder keeps the first error   *)
(* and refuses all later entries.                                          *)
WriteFails == /\ HasFile /\ ~log.err /\ logFailures < MaxLogFailures
              /\ logFailures' = logFailures + 1
              /\ log' = [log EXCEPT !.err = TRUE]
              /\ failed' = TRUE
              /\ UNCHANGED <<logDisk, opening, written, split, logRestarts>>
-----------------------------------------------------------------------------
(* gzipFile copies what it finds, and deletes the original when the copy   *)
(* is complete.                                                            *)
Compress(i) == /\ i \in zipping /\ zip[i] = NoFile
               /\ zip' = [zip EXCEPT ![i] = text[i]]
               /\ UNCHANGED <<place, text, zipping, log, opening, written, failed, split, logFailures, logRestarts>>

RemoveOriginalM(i) == /\ i \in zipping
                      /\ zipping' = zipping \ {i}
                      /\ place' = [place EXCEPT ![i] = "unlinked"]
                      /\ UNCHANGED <<text, zip, log, opening, written, failed, split, logFailures, logRestarts>>
RemoveOriginal(i) == /\ i \in zipping /\ zip[i] # NoFile
                     /\ zipping' = zipping \ {i}
                     /\ place' = [place EXCEPT ![i] = "unlinked"]
                     /\ UNCHANGED <<text, zip, log, opening, written, failed, split, logFailures, logRestarts>>

gzipFails(i) == /\ i \in zipping /\ zip[i] = NoFile /\ logFailures < MaxLogFailures
                /\ logFailures' = logFailures + 1
                /\ zipping' = zipping \ {i}
                /\ UNCHANGED <<place, text, zip, log, opening, written, failed, split, logRestarts>>

(* The process ends; OpenQuery of the next one starts from the path. *)
LogRestart == /\ logRestarts < MaxLogRestarts
              /\ logRestarts' = logRestarts + 1
              /\ log' = NoFile /\ opening' = [p \in Appliers |-> NotOpening] /\ zipping' = {}
              /\ failed' = FALSE
              /\ UNCHANGED <<place, text, zip, written, split, logFailures>>

LogNext == \/ \E i \in Inodes : Rotate(i) \/ RotateAndWrite(i) \/ Compress(i) \/ RemoveOriginal(i) \/ gzipFails(i)
           \/ \E p \in Appliers : Disable(p) \/ Reconfigure(p) \/ \E i \in Inodes : NewRotator(p, i)
           \/ WriteEntry \/ RotateFails \/ WriteFails \/ LogRestart

LogSpec == LogInit /\ [][LogNext]_logVars
-----------------------------------------------------------------------------
(* What Write accepted can be found on disk, whatever was rotated,         *)
(* compressed, reconfigured, killed or failed meanwhile.  The exception is *)
(* a rotation between Reconfigure's opening of the file and its swap       *)
(* (query.go:67): the log then goes on in a file that is compressed and    *)
(* deleted behind it.                                                      *)
NoEntryLost == ~(split /\ Gzip) => \A e \in 1..written : \E i \in Inodes :
    \/ place[i] \in {"path", "rotated"} /\ e \in text[i]
    \/ zip[i] # NoFile /\ e \in zip[i]

(* An enabled log refuses entries only after a failed write or rotation,   *)
(* and at most until it is configured again (rotate.go:72); the file that  *)
(* it appends to has the log's name, but for the same exception; and at    *)
(* most one file has it.                                                   *)
RefusesOnlyBroken ==
    /\ log # NoFile /\ (log.fd = NoFile \/ log.err) => failed
    /\ HasFile /\ ~split => place[log.fd] = "path"
    /\ Cardinality(Places("path")) <= 1
=============================================================================
