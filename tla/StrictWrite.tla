----------------------------- MODULE StrictWrite -----------------------------
(***************************************************************************)
(* StrictWriteDiscipline, MemoryLedger and DriftDetector of                *)
(* mythos_runtime (swd.py, memory.py, drift.py).                           *)
(*                                                                         *)
(* A writer looks at the file, replaces it, looks at it again and, when it *)
(* changed, appends a receipt to a ledger of JSON lines.  Nothing excludes *)
(* another writer, an editor outside or the scan that compares the files   *)
(* with the receipts from coming between any two of these steps, and a     *)
(* writer may fail or die at each.                                         *)
(*                                                                         *)
(* A content is as good as its SHA-256.  A Path is one that _target        *)
(* accepts, before and after the directories are made.                     *)
(***************************************************************************)
EXTENDS Integers, Sequences, FiniteSets

CONSTANTS
  Writer,       \* callers of write_text
  Path,         \* paths below the root
  Content,      \* what a file can hold
  Missing,      \* there is no file
  Unreceipted,  \* no receipt names the path
  MaxReceipts,  \* bound on the lines of the ledger
  MaxEdits      \* bound on what happens from outside

Receipt == [path : Path, before : Content \cup {Missing}, after : Content]

ASSUME WriteAssumption ==
  /\ Missing \notin Content /\ Unreceipted \notin Content
  /\ MaxReceipts \in Nat /\ MaxEdits \in Nat

VARIABLES
  disk,       \* the files
  receipts,   \* the lines of the ledger that parse
  tail,       \* how the ledger ends
  edits,      \* edits and removals so far
  write,      \* the call of write_text of each writer
  scanning,   \* a scan has read the ledger
  expected,   \* the digest it found for each path
  todo,       \* the paths it has not compared yet
  alarms,     \* those it reported as drifted or missing
  suspects,   \* history: the paths something happened to since a clean write
  raced,      \* history: the paths written while the scan was on
  unread      \* history: the paths of which it could not take a snapshot

disks == <<disk, receipts, tail, edits>>
scans == <<scanning, expected, todo, alarms, unread>>
vars == <<disks, write, scans, suspects, raced>>

Idle == [at |-> "idle"]

(* A call: where it is, its arguments, its snapshots before and after, and *)
(* as a history whether nobody came across it.                             *)
Call == [at : {"read", "replaced", "changed"}, path : Path, wanted : Content,
         old : Content \cup {Missing}, new : Content \cup {Missing}, clean : BOOLEAN]

----------------------------------------------------------------------------
Inside(w, path) == write[w].at # "idle" /\ write[w].path = path

(* The calls, when something comes across those of a path. *)
Crossed(path) ==
  [w \in Writer |-> IF Inside(w, path) THEN [write[w] EXCEPT !.clean = FALSE] ELSE write[w]]

Busy == {path \in Path : \E w \in Writer : Inside(w, path) /\ write[w].at # "read"}

NamedBy(path) == {i \in 1 .. Len(receipts) : receipts[i].path = path}

(* A scan that believes the first receipt of a path. *)
MutantExpected(path) ==
  IF NamedBy(path) = {} THEN Unreceipted
  ELSE receipts[CHOOSE i \in NamedBy(path) : \A j \in NamedBy(path) : i <= j].after

(* What the last receipt of the path says. *)
Expected(path) ==
  IF NamedBy(path) = {} THEN Unreceipted
  ELSE receipts[CHOOSE i \in NamedBy(path) : \A j \in NamedBy(path) : j <= i].after

(* The write is verified: the file is there, and is not what it was. *)
Changed(call, now) == now # Missing /\ call.old # now

(* A receipt with its digests swapped. *)
MutantReceipted(call) ==
  receipts' = Append(receipts, [path |-> call.path, before |-> call.new, after |-> call.old])

Receipted(call) ==
  receipts' = Append(receipts, [path |-> call.path, before |-> call.old, after |-> call.new])

(* A line is appended in one write.  Behind one that has no end it does    *)
(* not start a line of its own.                                            *)
Appended(call) ==
  IF tail = "line" THEN Receipted(call) /\ UNCHANGED tail
  ELSE tail' = "garbled" /\ UNCHANGED receipts

Ended(w) == write' = [write EXCEPT ![w] = Idle]

----------------------------------------------------------------------------
Init ==
  /\ disk \in [Path -> Content \cup {Missing}]
  /\ receipts = << >>
  /\ tail = "line"
  /\ edits = 0
  /\ write = [w \in Writer |-> Idle]
  /\ scanning = FALSE
  /\ expected = [path \in Path |-> Unreceipted]
  /\ todo = {}
  /\ alarms = {}
  /\ suspects = {}
  /\ raced = {}
  /\ unread = {}

(* write_text is called, up to the snapshot before.  A dry run ends here.  *)
Begin(w) ==
  /\ write[w] = Idle
  /\ Len(receipts) < MaxReceipts
  /\ \E path \in Path, content \in Content :
       write' = [Crossed(path) EXCEPT ![w] =
                   [at |-> "read", path |-> path, wanted |-> content, old |-> disk[path],
                    new |-> Missing, clean |-> \A v \in Writer : ~Inside(v, path)]]
  /\ UNCHANGED <<disks, scans, suspects, raced>>

(* os.replace of the temporary file. *)
Replace(w) ==
  /\ write[w].at = "read"
  /\ disk' = [disk EXCEPT ![write[w].path] = write[w].wanted]
  /\ write' = [write EXCEPT ![w].at = "replaced"]
  /\ raced' = raced \cup {write[w].path}
  /\ UNCHANGED <<receipts, tail, edits, scans, suspects>>

(* The snapshot after, and a report that the write is not verified. *)
Unverified(w) ==
  /\ write[w].at = "replaced"
  /\ ~Changed(write[w], disk[write[w].path])
  /\ Ended(w)
  /\ suspects' = IF write[w].clean THEN suspects ELSE suspects \cup {write[w].path}
  /\ UNCHANGED <<disks, scans, raced>>

(* The snapshot after, of a file that changed. *)
Verify(w) ==
  /\ write[w].at = "replaced"
  /\ Changed(write[w], disk[write[w].path])
  /\ write' = [write EXCEPT ![w].at = "changed", ![w].new = disk[write[w].path]]
  /\ UNCHANGED <<disks, scans, suspects, raced>>

(* append_verified, and the report. *)
AppendVerified(w) ==
  /\ write[w].at = "changed"
  /\ Appended(write[w])
  /\ Ended(w)
  /\ suspects' = IF write[w].clean /\ tail = "line" THEN suspects \ {write[w].path}
                 ELSE suspects \cup {write[w].path}
  /\ raced' = raced \cup {write[w].path}
  /\ UNCHANGED <<disk, edits, scans>>

(* An exception, or the end of the process: the temporary file cannot be   *)
(* written, the snapshot raises, the ledger does not open.                 *)
Abandon(w) ==
  /\ write[w] # Idle
  /\ Ended(w)
  /\ suspects' = IF write[w].at = "read" THEN suspects ELSE suspects \cup {write[w].path}
  /\ UNCHANGED <<disks, scans, raced>>

(* The same in the middle of the line: a part of it is in the ledger, or   *)
(* all of it but its end.                                                  *)
AbandonCut(w) ==
  /\ write[w].at = "changed"
  /\ \/ tail' = "garbled" /\ UNCHANGED receipts
     \/ tail = "line" /\ tail' = "bare" /\ Receipted(write[w])
  /\ Ended(w)
  /\ suspects' = suspects \cup {write[w].path}
  /\ raced' = raced \cup {write[w].path}
  /\ UNCHANGED <<disk, edits, scans>>

(* From outside, a file is changed or removed. *)
Edit(path) ==
  /\ edits < MaxEdits
  /\ edits' = edits + 1
  /\ \E content \in (Content \cup {Missing}) \ {disk[path]} :
       disk' = [disk EXCEPT ![path] = content]
  /\ suspects' = suspects \cup {path}
  /\ write' = Crossed(path)
  /\ UNCHANGED <<receipts, tail, scans, raced>>

(* scan, as far as list_events.  Of a garbled ledger it raises. *)
Scan ==
  /\ ~scanning /\ tail # "garbled"
  /\ expected' = [path \in Path |-> Expected(path)]
  /\ todo' = {path \in Path : Expected(path) # Unreceipted}
  /\ scanning' = TRUE
  /\ alarms' = {}
  /\ unread' = {}
  /\ raced' = Busy
  /\ UNCHANGED <<disks, write, suspects>>

(* And its comparison of one path after the other. *)
Compare(path) ==
  /\ scanning /\ path \in todo
  /\ todo' = todo \ {path}
  /\ alarms' = IF disk[path] = expected[path] THEN alarms ELSE alarms \cup {path}
  /\ UNCHANGED <<disks, write, scanning, expected, unread, suspects, raced>>

(* Its own snapshot raises: the path is reported as drifted, whatever is   *)
(* in the file.                                                            *)
CompareUnread(path) ==
  /\ scanning /\ path \in todo
  /\ todo' = todo \ {path}
  /\ alarms' = alarms \cup {path}
  /\ unread' = unread \cup {path}
  /\ UNCHANGED <<disks, write, scanning, expected, suspects, raced>>

Report ==
  /\ scanning /\ todo = {}
  /\ scanning' = FALSE
  /\ UNCHANGED <<disks, write, expected, todo, alarms, unread, suspects, raced>>

Next ==
  \/ \E w \in Writer :
       \/ Begin(w) \/ Replace(w) \/ Unverified(w) \/ Verify(w) \/ AppendVerified(w)
       \/ Abandon(w) \/ AbandonCut(w)
  \/ \E path \in Path : Edit(path) \/ Compare(path) \/ CompareUnread(path)
  \/ Scan \/ Report

Spec == Init /\ [][Next]_vars

----------------------------------------------------------------------------
(* Properties. *)

(* The scan cries wolf over nothing it could look at: a path that it       *)
(* reports as drifted or missing was edited, abandoned between file and    *)
(* receipt, or crossed by another write since its last clean write, or is  *)
(* being written while the scan is on, or could not be read, which the     *)
(* report does not tell from drift.                                        *)
NoFalseAlarm == [][alarms' \ alarms \subseteq suspects \cup raced \cup unread']_vars

(* Receipts of a path follow one another: where the newest begins is where *)
(* the one before it ended, unless the path was suspect when the newest    *)
(* was written or its write was crossed.                                   *)
ReceiptsFollow ==
  [][\A w \in Writer :
       write[w].at = "changed" /\ receipts' # receipts /\ write'[w] = Idle /\ write[w].clean =>
         \/ write[w].path \in suspects
         \/ Expected(write[w].path) \in {Unreceipted, write[w].old}]_vars
=============================================================================
