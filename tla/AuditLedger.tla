---------------------------- MODULE AuditLedger -----------------------------
(***************************************************************************)
(* AuditLedger of security/vault.py: the hash chain in memory, the file of *)
(* one line an entry, the process that dies and loads it again, and what   *)
(* happens to the file in between.                                         *)
(*                                                                         *)
(* record is one action: it runs under the lock, and the entry is in the   *)
(* chain before its line is written.  A write that raises is logged and    *)
(* forgotten.  The hash of an entry is its id, as good as unique; what the *)
(* hash covers besides the sequence number and the hash before it is       *)
(* abstracted to the seal: the fields are what record hashed, or what      *)
(* somebody else hashed, or no longer what was hashed.                     *)
(*                                                                         *)
(* The hash has no key and verify_chain looks at no signature, so whoever  *)
(* can write the file can seal an entry as well as record does (Forge).    *)
(***************************************************************************)
EXTENDS Integers, Sequences, FiniteSetsExt

CONSTANTS
  MaxRecords,  \* bound on the entries ever sealed, and on an altered number
  MaxHarms,    \* bound on the edits made to the file from outside
  Garbage      \* a line that is not the JSON of an entry

Genesis == 0

Seal == {"recorded", "forged", "stale"}

Entry == [id : Nat, seq : Nat, prev : Nat, seal : Seal]

Recorded(e) == e.seal = "recorded"
Intact(e) == e.seal # "stale"

ASSUME LedgerAssumption ==
  /\ MaxRecords \in Nat
  /\ MaxHarms \in Nat
  /\ Garbage \notin Entry

VARIABLES
  chain,    \* _entries; of a dead process, the last it had
  seq,      \* _seq
  up,       \* the process runs
  file,     \* the lines of the file
  open,     \* the last of them has no newline yet
  minted,   \* entries ever sealed
  harms,    \* edits made to the file from outside
  harmed,   \* history: the file was edited, or a write of it was lost in silence
  forged    \* history: an edit sealed an entry, or took out a line that does
            \* not parse

memory == <<chain, seq, up>>
disk == <<file, open>>
vars == <<memory, disk, minted, harms, harmed, forged>>

TypeOK ==
  /\ chain \in Seq(Entry)
  /\ seq \in Nat
  /\ up \in BOOLEAN
  /\ file \in Seq(Entry \cup {Garbage})
  /\ open \in BOOLEAN
  /\ minted \in 0 .. MaxRecords
  /\ harms \in 0 .. MaxHarms
  /\ harmed \in BOOLEAN
  /\ forged \in BOOLEAN

----------------------------------------------------------------------------
(* verify_chain. *)

(* A walk that checks the content of an entry and not the link. *)
MutantLinkedContentOnly(c, i) == Intact(c[i])

(* The entry follows the one before it, and is what was hashed. *)
Linked(c, i) ==
  /\ Intact(c[i])
  /\ c[i].prev = IF i = 1 THEN Genesis ELSE c[i - 1].id

Broken(c) == {i \in 1 .. Len(c) : ~Linked(c, i)}

(* What verify_chain vouches for: the entries before the first broken one. *)
Vouched(c) == SubSeq(c, 1, Max({n \in 0 .. Len(c) : \A i \in 1 .. n : Linked(c, i)}))

(* A load that skips the lines it cannot parse. *)
MutantLoadedSkipping(lines) == SelectSeq(lines, LAMBDA line : line # Garbage)

(* _load: the entries before the first line that does not parse. *)
Loaded(lines) ==
  SubSeq(lines, 1, Max({n \in 0 .. Len(lines) : \A i \in 1 .. n : lines[i] # Garbage}))

LastSequence(c) == Max({0} \cup {c[i].seq : i \in 1 .. Len(c)})

(* The file when a line is appended: behind a line without a newline it    *)
(* only makes that one unreadable.                                         *)
Landed(line) ==
  IF open /\ file # << >> THEN [file EXCEPT ![Len(file)] = Garbage] ELSE Append(file, line)

Previous == IF chain = << >> THEN Genesis ELSE chain[Len(chain)].id

Sealed == [id |-> minted + 1, seq |-> seq + 1, prev |-> Previous, seal |-> "recorded"]

----------------------------------------------------------------------------
Init ==
  /\ chain = << >>
  /\ seq = 0
  /\ up = TRUE
  /\ file = << >>
  /\ open = FALSE
  /\ minted = 0
  /\ harms = 0
  /\ harmed = FALSE
  /\ forged = FALSE

(* The entry is sealed and enters the chain. *)
Enter ==
  /\ up
  /\ minted < MaxRecords
  /\ minted' = minted + 1
  /\ chain' = Append(chain, Sealed)
  /\ seq' = seq + 1
  /\ UNCHANGED <<harms, forged>>

WriteLine == file' = Landed(Sealed) /\ open' = FALSE
WriteAllButNewline == file' = Landed(Sealed) /\ open' = TRUE
WritePart == file' = Landed(Garbage) /\ open' = TRUE
WriteNothing == UNCHANGED disk

(* record, the line written. *)
Record == Enter /\ WriteLine /\ UNCHANGED <<up, harmed>>

(* record, the write cut short by an OSError that _write swallows. *)
RecordCut == Enter /\ (WriteAllButNewline \/ WritePart) /\ UNCHANGED <<up, harmed>>

(* record, the file not even opened: the chain has an entry the file lacks. *)
RecordUnwritten == Enter /\ WriteNothing /\ harmed' = TRUE /\ UNCHANGED up

(* The process dies, between two records or inside one. *)
Crash ==
  /\ up
  /\ up' = FALSE
  /\ UNCHANGED <<chain, seq, disk, minted, harms, harmed, forged>>

CrashRecording ==
  /\ Enter
  /\ WriteLine \/ WriteAllButNewline \/ WritePart \/ WriteNothing
  /\ up' = FALSE
  /\ UNCHANGED harmed

(* A process that starts from its lines but not from their sequence. *)
MutantRestartUnnumbered ==
  /\ ~up
  /\ up' = TRUE
  /\ chain' = Loaded(file)
  /\ seq' = 0
  /\ UNCHANGED <<disk, minted, harms, harmed, forged>>

(* __init__ and _load. *)
Restart ==
  /\ ~up
  /\ up' = TRUE
  /\ chain' = Loaded(file)
  /\ seq' = LastSequence(chain')
  /\ UNCHANGED <<disk, minted, harms, harmed, forged>>

Harm ==
  /\ harms < MaxHarms
  /\ harms' = harms + 1
  /\ harmed' = TRUE
  /\ UNCHANGED memory

(* From outside, fields of an entry other than its two hashes are          *)
(* rewritten in the file, among them perhaps its sequence number.          *)
Alter(i) ==
  /\ Harm
  /\ file[i] # Garbage
  /\ \E n \in {file[i].seq} \cup 1 .. MaxRecords :
       file' = [file EXCEPT ![i] = [id |-> file[i].id, seq |-> n, prev |-> file[i].prev,
                                    seal |-> "stale"]]
  /\ UNCHANGED <<open, minted, forged>>

(* From outside, a line is made one that does not parse.                   *)
Garble(i) ==
  /\ Harm
  /\ file' = [file EXCEPT ![i] = Garbage]
  /\ UNCHANGED <<open, minted, forged>>

(* From outside, a line is deleted.  One that does not parse may have kept *)
(* entries behind it from every load since it was written: without it they *)
(* are back.                                                               *)
Delete(i) ==
  /\ Harm
  /\ file' = SubSeq(file, 1, i - 1) \o SubSeq(file, i + 1, Len(file))
  /\ open' = (open /\ i < Len(file))
  /\ forged' = (forged \/ file[i] = Garbage)
  /\ UNCHANGED minted

(* From outside, an entry with a hash that fits it is put behind the first *)
(* i lines, in the place of the next "taken" of them.                      *)
Forge(i, taken) ==
  /\ Harm
  /\ minted < MaxRecords
  /\ minted' = minted + 1
  /\ \E n \in 1 .. MaxRecords, p \in 0 .. minted :
       LET entry == [id |-> minted + 1, seq |-> n, prev |-> p, seal |-> "forged"]
       IN  file' = SubSeq(file, 1, i) \o <<entry>> \o SubSeq(file, i + taken + 1, Len(file))
  /\ open' = (open /\ i + taken < Len(file))
  /\ forged' = TRUE

Next ==
  \/ Record \/ RecordCut \/ RecordUnwritten
  \/ Crash \/ CrashRecording \/ Restart
  \/ \E i \in 1 .. Len(file) : Alter(i) \/ Garble(i) \/ Delete(i) \/ Forge(i - 1, 1)
  \/ \E i \in 0 .. Len(file) : Forge(i, 0)

Spec == Init /\ [][Next]_vars

----------------------------------------------------------------------------
(* Properties. *)

(* The chain verify_chain walks breaks only if the file was edited or a    *)
(* write was lost in silence: no death of the process, and no line cut     *)
(* short by one, by a full disk or by the line that follows it, ever makes *)
(* an honest ledger look tampered with.                                    *)
OnlyHarmBreaks == ~harmed => Broken(chain) = {}

(* A running process numbers from the greatest of what it could read, so   *)
(* no two entries of the chain that are as record sealed them have the     *)
(* same number or are out of order, whatever numbers an edit writes into   *)
(* other entries; unless it forged one of the lines (or freed some).       *)
SequencesIncrease ==
  /\ up => \A j \in 1 .. Len(chain) : chain[j].seq <= seq
  /\ ~forged =>
       \A j \in 1 .. Len(chain) : \A i \in 1 .. j - 1 :
         Recorded(chain[i]) /\ Recorded(chain[j]) => chain[i].seq < chain[j].seq

(* What verify_chain vouches for is a log that is extended one entry at a  *)
(* time; while the process runs, whatever is done to the file.  A restart  *)
(* may lose a tail of it, and rewrites, inserts and moves nothing as long  *)
(* as nobody forged a line: then it vouches for what it is given.          *)
Log == INSTANCE EventLog WITH anchor <- Genesis, log <- Vouched(chain)

VouchedIsAppendOnly ==
  Log!Init /\ [][Log!Extend(0) \/ (~up /\ (forged \/ Log!Lose))]_(Log!logVars)
=============================================================================
