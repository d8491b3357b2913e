-------------------------- MODULE StrictWriteProofs --------------------------
(***************************************************************************)
(* Why a scan never cries wolf, and why the receipts of a path follow one  *)
(* another, whatever the writers, the paths and the edits from outside.    *)
(***************************************************************************)
EXTENDS StrictWrite, WellFoundedInduction, TLAPS

TypeOK ==
  /\ disk \in [Path -> Content \cup {Missing}]
  /\ receipts \in Seq(Receipt)
  /\ write \in [Writer -> Call \cup {Idle}]
  /\ \A w \in Writer : write[w].at = "changed" => write[w].new \in Content
  /\ todo \subseteq Path /\ suspects \subseteq Path /\ raced \subseteq Path

(* A call that nobody came across is alone with its path, *)
Alone ==
  \A v, w \in Writer :
    write[w] # Idle /\ write[w].clean /\ Inside(v, write[w].path) => v = w

(* knows what is in the file, *)
Knowing ==
  \A w \in Writer : write[w] # Idle /\ write[w].clean =>
    disk[write[w].path] = CASE write[w].at = "read" -> write[w].old
                            [] write[w].at = "replaced" -> write[w].wanted
                            [] write[w].at = "changed" -> write[w].new

(* and began where the last receipt ended, unless the path was suspect.    *)
Following ==
  \A w \in Writer : write[w] # Idle /\ write[w].clean /\ write[w].path \notin suspects =>
    Expected(write[w].path) \in {Unreceipted, write[w].old}

(* A path in which nobody is writing is as its last receipt says, unless   *)
(* it is suspect.                                                          *)
Settled ==
  \A path \in Path \ (suspects \cup Busy) : Expected(path) \in {Unreceipted, disk[path]}

(* What the scan has still to compare is as it read in the ledger, unless  *)
(* it is suspect or was written since.                                     *)
Explained ==
  scanning => \A path \in todo \ (suspects \cup raced) : disk[path] = expected[path]

IInv == TypeOK /\ Alone /\ Knowing /\ Following /\ Settled /\ Explained
----------------------------------------------------------------------------
(* The last receipt of a path. *)

LEMMA LatestNamed ==
  ASSUME NEW n \in Nat, NEW T, T \subseteq 1 .. n, T # {}
  PROVE  \E i \in T : \A j \in T : j <= i
<1> DEFINE S == {n - i : i \in T}
<1>1. S \subseteq Nat /\ S # {}
  <2>1. \A i \in T : i \in Nat /\ n - i \in Nat
    OBVIOUS
  <2> QED BY <2>1
<1>2. (\A i \in T : n - i \in S) /\ (\A x \in S : \E i \in T : x = n - i)
  OBVIOUS
<1> HIDE DEF S
<1> DEFINE R == OpToRel(<, Nat)
<1>3. IsWellFoundedOn(R, Nat)
  BY NatLessThanWellFounded
<1>4. \A x, y \in Nat : y < x => <<y, x>> \in R
  BY DEF OpToRel
<1> HIDE DEF R
<1>6. PICK x \in S : \A y \in S : ~(<<y, x>> \in R)
  BY <1>1, <1>3, WFMin
<1>7. PICK i \in T : x = n - i
  BY <1>2
<1>8. \A j \in T : ~(n - j < n - i)
  BY <1>1, <1>2, <1>4, <1>6, <1>7
<1> QED
  BY <1>8

(* A receipt that is added is the last of its path, and of no other. *)
LEMMA ExpectedAfter ==
  ASSUME receipts \in Seq(Receipt), NEW r \in Receipt, receipts' = Append(receipts, r),
         NEW path \in Path
  PROVE  Expected(path)' = IF r.path = path THEN r.after ELSE Expected(path)
<1> DEFINE n == Len(receipts)
<1>1. n \in Nat /\ Len(receipts') = n + 1 /\ receipts'[n + 1] = r
        /\ \A i \in 1 .. n : receipts'[i] = receipts[i]
  OBVIOUS
<1> HIDE DEF n
<1>2. NamedBy(path) \subseteq 1 .. n
  BY DEF NamedBy, n
<1>3. NamedBy(path)' = IF r.path = path THEN NamedBy(path) \cup {n + 1} ELSE NamedBy(path)
  BY <1>1 DEF NamedBy, n
<1>4. CASE r.path = path
  <2>1. \A i \in NamedBy(path)' : (\A j \in NamedBy(path)' : j <= i) <=> i = n + 1
    BY <1>1, <1>2, <1>3, <1>4
  <2>2. n + 1 \in NamedBy(path)'
    BY <1>3, <1>4
  <2>3. (CHOOSE i \in NamedBy(path)' : \A j \in NamedBy(path)' : j <= i) = n + 1
    BY <2>1, <2>2
  <2>4. Expected(path)' = receipts'[n + 1].after
    BY <2>2, <2>3 DEF Expected
  <2> QED BY <1>1, <1>4, <2>4
<1>5. CASE r.path # path /\ NamedBy(path) = {}
  BY <1>3, <1>5 DEF Expected
<1>6. CASE r.path # path /\ NamedBy(path) # {}
  <2> DEFINE last == CHOOSE i \in NamedBy(path) : \A j \in NamedBy(path) : j <= i
  <2>1. last \in NamedBy(path)
    BY <1>1, <1>2, <1>6, LatestNamed
  <2>2. NamedBy(path)' = NamedBy(path)
    BY <1>3, <1>6
  <2>3. receipts'[last] = receipts[last]
    BY <1>1, <1>2, <2>1
  <2>4. Expected(path)' = receipts'[last].after
    BY <1>6, <2>2 DEF Expected
  <2>5. Expected(path) = receipts[last].after
    BY <1>6 DEF Expected
  <2> QED BY <1>6, <2>3, <2>4, <2>5
<1> QED
  BY <1>4, <1>5, <1>6

----------------------------------------------------------------------------
(* The calls. *)

LEMMA CallType ==
  ASSUME TypeOK, NEW w \in Writer
  PROVE  /\ write[w] \in Call \cup {Idle}
         /\ write[w].at \in {"idle", "read", "replaced", "changed"}
         /\ write[w].at = "idle" <=> write[w] = Idle
         /\ write[w] # Idle =>
              /\ write[w] \in Call
              /\ write[w].path \in Path /\ write[w].wanted \in Content
              /\ write[w].old \in Content \cup {Missing}
              /\ write[w].clean \in BOOLEAN
BY DEF TypeOK, Call, Idle

(* To be come across changes nothing of a call but that it is not clean.   *)
LEMMA CrossedCall ==
  ASSUME TypeOK, NEW path \in Path, NEW w \in Writer
  PROVE  /\ Crossed(path)[w] \in Call \cup {Idle}
         /\ Crossed(path)[w] = Idle <=> write[w] = Idle
         /\ Crossed(path)[w].at = write[w].at
         /\ write[w] # Idle =>
              /\ Crossed(path)[w].path = write[w].path
              /\ Crossed(path)[w].wanted = write[w].wanted
              /\ Crossed(path)[w].old = write[w].old
              /\ Crossed(path)[w].new = write[w].new
              /\ Crossed(path)[w].clean => write[w].clean /\ write[w].path # path
<1>1. CASE Inside(w, path)
  <2>1. write[w] \in Call /\ write[w] # Idle
    BY <1>1, CallType DEF Inside
  <2>2. Crossed(path)[w] = [write[w] EXCEPT !.clean = FALSE]
    BY <1>1 DEF Crossed
  <2> QED BY <2>1, <2>2 DEF Call, Idle
<1>2. CASE ~Inside(w, path)
  <2>1. Crossed(path)[w] = write[w]
    BY <1>2 DEF Crossed
  <2> QED BY <1>2, <2>1, CallType DEF Inside
<1> QED
  BY <1>1, <1>2

LEMMA ReceiptType ==
  ASSUME TypeOK, NEW w \in Writer, write[w].at = "changed"
  PROVE  [path |-> write[w].path, before |-> write[w].old, after |-> write[w].new] \in Receipt
BY CallType DEF TypeOK, Receipt

LEMMA TypeStep ==
  ASSUME TypeOK, Next
  PROVE  TypeOK'
<1>1. ASSUME NEW w \in Writer, Begin(w)
      PROVE  TypeOK'
  <2>1. PICK path \in Path, content \in Content :
          write' = [Crossed(path) EXCEPT ![w] =
                      [at |-> "read", path |-> path, wanted |-> content, old |-> disk[path],
                       new |-> Missing, clean |-> \A v \in Writer : ~Inside(v, path)]]
    BY <1>1 DEF Begin
  <2> DEFINE call == [at |-> "read", path |-> path, wanted |-> content, old |-> disk[path],
                      new |-> Missing, clean |-> \A v \in Writer : ~Inside(v, path)]
  <2>2. call \in Call /\ call.at = "read"
    <3>1. (\A v \in Writer : ~Inside(v, path)) \in BOOLEAN
      OBVIOUS
    <3>2. disk[path] \in Content \cup {Missing}
      BY DEF TypeOK
    <3> QED BY <3>1, <3>2 DEF Call
  <2>3. write' = [Crossed(path) EXCEPT ![w] = call]
    BY <2>1
  <2> HIDE DEF call
  <2>4. Crossed(path) \in [Writer -> Call \cup {Idle}]
    <3>1. Crossed(path) = [v \in Writer |-> Crossed(path)[v]]
      BY DEF Crossed
    <3> QED BY <3>1, CrossedCall
  <2>5. write' \in [Writer -> Call \cup {Idle}]
    BY <2>2, <2>3, <2>4
  <2>6. \A v \in Writer : write'[v].at = "changed" => write'[v].new \in Content
    <3> SUFFICES ASSUME NEW v \in Writer, write'[v].at = "changed"
                 PROVE  write'[v].new \in Content
      OBVIOUS
    <3>1. v # w /\ write'[v] = Crossed(path)[v]
      BY <2>2, <2>3, <2>4
    <3> QED BY <3>1, CrossedCall, CallType DEF TypeOK
  <2> QED BY <1>1, <2>5, <2>6 DEF Begin, TypeOK, disks, scans
<1>2. ASSUME NEW w \in Writer, Replace(w)
      PROVE  TypeOK'
  <2>1. write[w] \in Call
    BY <1>2, CallType DEF Replace
  <2>2. disk' \in [Path -> Content \cup {Missing}]
    BY <1>2, <2>1, CallType DEF Replace, TypeOK, Call
  <2>3. [write[w] EXCEPT !.at = "replaced"] \in Call
    BY <2>1 DEF Call
  <2>4. write' = [write EXCEPT ![w] = [write[w] EXCEPT !.at = "replaced"]]
    BY <1>2 DEF Replace
  <2>5. [write[w] EXCEPT !.at = "replaced"].at = "replaced"
    BY <2>1 DEF Call
  <2>6. write' \in [Writer -> Call \cup {Idle}]
          /\ \A v \in Writer : write'[v].at = "changed" => write'[v].new \in Content
    BY <2>3, <2>4, <2>5 DEF TypeOK
  <2>7. raced' \subseteq Path
    BY <1>2, <2>1 DEF Replace, TypeOK, Call
  <2> QED BY <1>2, <2>2, <2>6, <2>7 DEF Replace, TypeOK, scans
<1>3. ASSUME NEW w \in Writer, Verify(w)
      PROVE  TypeOK'
  <2> DEFINE call == [write[w] EXCEPT !.at = "changed", !.new = disk[write[w].path]]
  <2>1. write[w] \in Call /\ write[w].path \in Path
    BY <1>3, CallType DEF Verify
  <2>2. disk[write[w].path] \in Content
    BY <1>3, <2>1 DEF Verify, Changed, TypeOK
  <2>3. call \in Call /\ call.new \in Content
    BY <2>1, <2>2 DEF Call
  <2>4. write' = [write EXCEPT ![w] = call]
    BY <1>3 DEF Verify
  <2> HIDE DEF call
  <2>5. write' \in [Writer -> Call \cup {Idle}]
          /\ \A v \in Writer : write'[v].at = "changed" => write'[v].new \in Content
    BY <2>3, <2>4 DEF TypeOK
  <2> QED BY <1>3, <2>5 DEF Verify, TypeOK, disks, scans
<1>4. ASSUME NEW w \in Writer, Ended(w), write[w] # Idle, suspects' \subseteq suspects \cup {write[w].path},
             raced' \subseteq raced \cup {write[w].path}, UNCHANGED <<disk, scans>>,
             \/ UNCHANGED receipts
             \/ Receipted(write[w]) /\ write[w].at = "changed"
      PROVE  TypeOK'
  <2>1. write' \in [Writer -> Call \cup {Idle}]
          /\ \A v \in Writer : write'[v].at = "changed" => write'[v].new \in Content
    BY <1>4 DEF Ended, TypeOK, Idle
  <2>2. suspects' \subseteq Path /\ raced' \subseteq Path
    BY <1>4, CallType DEF TypeOK
  <2>3. receipts' \in Seq(Receipt)
    <3>1. CASE UNCHANGED receipts
      BY <3>1 DEF TypeOK
    <3>2. CASE Receipted(write[w]) /\ write[w].at = "changed"
      <4>1. [path |-> write[w].path, before |-> write[w].old, after |-> write[w].new] \in Receipt
        BY <1>4, <3>2, ReceiptType
      <4>2. receipts \in Seq(Receipt)
        BY DEF TypeOK
      <4> QED BY <3>2, <4>1, <4>2 DEF Receipted
    <3> QED BY <1>4, <3>1, <3>2
  <2> QED BY <1>4, <2>1, <2>2, <2>3 DEF TypeOK, scans
<1>5. ASSUME NEW w \in Writer, Unverified(w) \/ AppendVerified(w) \/ Abandon(w) \/ AbandonCut(w)
      PROVE  TypeOK'
  <2>1. write[w] # Idle
    BY <1>5 DEF Unverified, AppendVerified, Abandon, AbandonCut, Idle
  <2>2. suspects' \subseteq suspects \cup {write[w].path} /\ raced' \subseteq raced \cup {write[w].path}
          /\ Ended(w) /\ UNCHANGED <<disk, scans>>
    BY <1>5 DEF Unverified, AppendVerified, Abandon, AbandonCut, disks
  <2>3. UNCHANGED receipts \/ (Receipted(write[w]) /\ write[w].at = "changed")
    BY <1>5 DEF Unverified, AppendVerified, Appended, Abandon, AbandonCut, disks
  <2> QED BY <1>4, <2>1, <2>2, <2>3
<1>6. ASSUME NEW path \in Path, Edit(path)
      PROVE  TypeOK'
  <2>1. disk' \in [Path -> Content \cup {Missing}]
    BY <1>6 DEF Edit, TypeOK
  <2>2. write' = [v \in Writer |-> Crossed(path)[v]]
    BY <1>6 DEF Edit, Crossed
  <2>3. write' \in [Writer -> Call \cup {Idle}]
    BY <2>2, CrossedCall
  <2>4. \A v \in Writer : write'[v].at = "changed" => write'[v].new \in Content
    BY <2>2, CrossedCall, CallType DEF TypeOK, Idle
  <2> QED BY <1>6, <2>1, <2>3, <2>4 DEF Edit, TypeOK, scans
<1>7. ASSUME NEW path \in Path, Compare(path) \/ CompareUnread(path)
      PROVE  TypeOK'
  BY <1>7 DEF Compare, CompareUnread, TypeOK, disks
<1>8. CASE Scan
  <2>1. Busy \subseteq Path /\ {path \in Path : Expected(path) # Unreceipted} \subseteq Path
    BY DEF Busy
  <2> QED BY <1>8, <2>1 DEF Scan, TypeOK, disks
<1>9. CASE Report
  BY <1>9 DEF Report, TypeOK, disks
<1> QED
  BY <1>1, <1>2, <1>3, <1>5, <1>6, <1>7, <1>8, <1>9 DEF Next

(* A call that goes on keeps its path and arguments, and is not cleaner.   *)
Continues(w) ==
  /\ write[w] # Idle
  /\ write'[w].path = write[w].path
  /\ write'[w].wanted = write[w].wanted
  /\ write'[w].old = write[w].old
  /\ write'[w].clean => write[w].clean

(* A call keeps its place too, unless it takes one of two steps of its own. *)
Waits(w) == write'[w].at = write[w].at /\ write'[w].new = write[w].new

LEMMA BeginCrosses ==
  ASSUME TypeOK, NEW w \in Writer, Begin(w)
  PROVE  /\ write'[w] # Idle /\ write'[w].at = "read"
         /\ write'[w].path \in Path
         /\ write'[w].old = disk[write'[w].path]
         /\ write'[w].clean => \A v \in Writer : ~Inside(v, write'[w].path)
         /\ write[w] = Idle
         /\ \A v \in Writer \ {w} : write'[v] # Idle =>
              Continues(v) /\ Waits(v) /\ (write'[v].clean => write[v].path # write'[w].path)
<1>1. PICK path \in Path, content \in Content :
        write' = [Crossed(path) EXCEPT ![w] =
                    [at |-> "read", path |-> path, wanted |-> content, old |-> disk[path],
                     new |-> Missing, clean |-> \A v \in Writer : ~Inside(v, path)]]
  BY DEF Begin
<1>2. DOMAIN Crossed(path) = Writer
  BY DEF Crossed
<1>3. write'[w] = [at |-> "read", path |-> path, wanted |-> content, old |-> disk[path],
                   new |-> Missing, clean |-> \A v \in Writer : ~Inside(v, path)]
  BY <1>1, <1>2
<1>4. \A v \in Writer \ {w} : write'[v] = Crossed(path)[v]
  BY <1>1, <1>2
<1>5. write'[w].path = path /\ write'[w].at = "read" /\ write'[w].old = disk[path]
        /\ (write'[w].clean <=> \A v \in Writer : ~Inside(v, path))
  BY <1>3
<1>6. ASSUME NEW v \in Writer \ {w}, write'[v] # Idle
      PROVE  Continues(v) /\ Waits(v) /\ (write'[v].clean => write[v].path # write'[w].path)
  BY <1>4, <1>5, <1>6, CrossedCall DEF Continues, Waits
<1>7. write'[w] # Idle
  BY <1>5 DEF Idle
<1>8. write[w] = Idle
  BY DEF Begin
<1> QED
  BY <1>5, <1>6, <1>7, <1>8

LEMMA CallsGoOn ==
  ASSUME TypeOK, Next, NEW w \in Writer, write'[w] # Idle, ~Begin(w)
  PROVE  /\ Continues(w)
         /\ Waits(w) \/ Replace(w) \/ Verify(w)
<1>1. ASSUME NEW v \in Writer, Begin(v)
      PROVE  Continues(w) /\ Waits(w)
  BY <1>1, BeginCrosses
<1>2. CASE write'[w] = write[w]
  BY <1>2 DEF Continues, Waits
<1>3. CASE Replace(w) \/ Verify(w)
  <2>1. write[w] \in Call /\ write[w] # Idle
    BY <1>3, CallType DEF Replace, Verify
  <2>2. write'[w] \in {[write[w] EXCEPT !.at = "replaced"],
                       [write[w] EXCEPT !.at = "changed", !.new = disk[write[w].path]]}
    BY <1>3 DEF Replace, Verify, TypeOK
  <2> QED BY <1>3, <2>1, <2>2 DEF Continues, Call
<1>4. ASSUME NEW v \in Writer, Replace(v) \/ Verify(v), v # w
      PROVE  write'[w] = write[w]
  BY <1>4 DEF Replace, Verify, TypeOK
<1>5. ASSUME NEW v \in Writer, Unverified(v) \/ AppendVerified(v) \/ Abandon(v) \/ AbandonCut(v)
      PROVE  write'[w] = write[w]
  <2>1. write' = [write EXCEPT ![v] = Idle]
    BY <1>5 DEF Unverified, AppendVerified, Abandon, AbandonCut, Ended
  <2> QED BY <2>1 DEF TypeOK
<1>6. ASSUME NEW path \in Path, Edit(path)
      PROVE  Continues(w) /\ Waits(w)
  <2>1. write'[w] = Crossed(path)[w]
    BY <1>6 DEF Edit
  <2> QED BY <1>6, <2>1, CrossedCall DEF Continues, Waits
<1>7. ASSUME Scan \/ Report \/ \E path \in Path : Compare(path) \/ CompareUnread(path)
      PROVE  write'[w] = write[w]
  BY <1>7 DEF Scan, Report, Compare, CompareUnread
<1> QED
  BY <1>1, <1>2, <1>3, <1>4, <1>5, <1>6, <1>7 DEF Next

(* What changes a file, *)
LEMMA DiskMoves ==
  ASSUME TypeOK, Next, NEW path \in Path, disk'[path] # disk[path]
  PROVE  \/ Edit(path)
         \/ \E v \in Writer : Replace(v) /\ write[v].path = path
<1>1. ASSUME NEW v \in Writer, Replace(v)
      PROVE  write[v].path = path
  BY <1>1 DEF Replace, TypeOK
<1>2. ASSUME NEW p \in Path, Edit(p)
      PROVE  p = path
  BY <1>2 DEF Edit, TypeOK
<1>3. \/ \E v \in Writer : Replace(v)
      \/ \E p \in Path : Edit(p)
      \/ UNCHANGED disk
  BY DEF Next, Begin, Unverified, Verify, AppendVerified, Abandon, AbandonCut, Compare, CompareUnread, Scan,
         Report, disks
<1> QED
  BY <1>1, <1>2, <1>3

(* and what the ledger says of it, or takes it out of suspicion. *)
LEMMA LedgerMoves ==
  ASSUME TypeOK, Next, NEW path \in Path,
         Expected(path)' # Expected(path) \/ (path \in suspects /\ path \notin suspects')
  PROVE  \E v \in Writer : /\ AppendVerified(v) \/ AbandonCut(v)
                           /\ write[v].at = "changed" /\ write[v].path = path
<1>1. ASSUME NEW v \in Writer, AppendVerified(v) \/ AbandonCut(v), write[v].path # path
      PROVE  FALSE
  <2>1. write[v].at = "changed"
    BY <1>1 DEF AppendVerified, AbandonCut
  <2>2. path \in suspects => path \in suspects'
    BY <1>1 DEF AppendVerified, AbandonCut
  <2>3. UNCHANGED receipts \/ Receipted(write[v])
    BY <1>1 DEF AppendVerified, AbandonCut, Appended
  <2>4. CASE UNCHANGED receipts
    BY <2>2, <2>4 DEF Expected, NamedBy
  <2>5. CASE Receipted(write[v])
    <3> DEFINE r == [path |-> write[v].path, before |-> write[v].old, after |-> write[v].new]
    <3>1. r \in Receipt /\ r.path # path
      BY <1>1, <2>1, ReceiptType
    <3>2. receipts' = Append(receipts, r)
      BY <2>5 DEF Receipted
    <3> HIDE DEF r
    <3>3. Expected(path)' = Expected(path)
      BY <3>1, <3>2, ExpectedAfter DEF TypeOK
    <3> QED BY <2>2, <3>3
  <2> QED BY <2>3, <2>4, <2>5
<1>2. \/ \E v \in Writer : AppendVerified(v) \/ AbandonCut(v)
      \/ UNCHANGED receipts /\ suspects \subseteq suspects'
  BY DEF Next, Begin, Replace, Unverified, Verify, Abandon, Edit, Compare, CompareUnread, Scan, Report,
         disks
<1>3. ASSUME UNCHANGED receipts, suspects \subseteq suspects'
      PROVE  FALSE
  BY <1>3 DEF Expected, NamedBy
<1> QED
  BY <1>1, <1>2, <1>3 DEF AppendVerified, AbandonCut

----------------------------------------------------------------------------
(* The parts of the invariant, one after the other. *)

LEMMA AloneStep ==
  ASSUME TypeOK, Alone, Next
  PROVE  Alone'
<1> SUFFICES ASSUME NEW v \in Writer, NEW w \in Writer, v # w,
                    write'[w] # Idle, write'[w].clean, Inside(v, write[w].path)'
             PROVE  FALSE
  BY DEF Alone
<1>1. write'[v] # Idle /\ write'[v].path = write'[w].path
  BY DEF Inside, Idle
<1>2. CASE Begin(w)
  <2>1. Continues(v) /\ \A u \in Writer : ~Inside(u, write'[w].path)
    BY <1>1, <1>2, BeginCrosses
  <2>2. Inside(v, write'[w].path)
    BY <1>1, <2>1, CallType DEF Continues, Inside
  <2> QED BY <2>1, <2>2
<1>3. CASE Begin(v)
  BY <1>1, <1>3, BeginCrosses DEF Continues
<1>4. CASE ~Begin(w) /\ ~Begin(v)
  <2>1. Continues(v) /\ Continues(w)
    BY <1>1, <1>4, CallsGoOn
  <2>2. Inside(v, write[w].path)
    BY <1>1, <2>1, CallType DEF Continues, Inside
  <2> QED BY <2>1, <2>2 DEF Alone, Continues
<1> QED
  BY <1>2, <1>3, <1>4

(* Whoever replaces the file of a clean call is that call. *)
LEMMA CleanAlone ==
  ASSUME TypeOK, Alone, NEW w \in Writer, write[w] # Idle, write[w].clean,
         NEW v \in Writer, write[v].at # "idle", write[v].path = write[w].path
  PROVE  v = w
BY DEF Alone, Inside

LEMMA KnowingStep ==
  ASSUME TypeOK, Alone, Knowing, Next
  PROVE  Knowing'
<1> SUFFICES ASSUME NEW w \in Writer, write'[w] # Idle, write'[w].clean
             PROVE  disk'[write'[w].path]
                      = CASE write'[w].at = "read" -> write'[w].old
                          [] write'[w].at = "replaced" -> write'[w].wanted
                          [] write'[w].at = "changed" -> write'[w].new
  BY DEF Knowing
<1>1. CASE Begin(w)
  <2>1. disk' = disk
    BY <1>1 DEF Begin, disks
  <2> QED BY <1>1, <2>1, BeginCrosses
<1>2. CASE ~Begin(w)
  <2>1. Continues(w) /\ (Waits(w) \/ Replace(w) \/ Verify(w))
    BY <1>2, CallsGoOn
  <2>2. write[w] \in Call /\ write[w].path \in Path /\ write[w].clean
          /\ write[w].at \in {"read", "replaced", "changed"}
    BY <2>1, CallType DEF Continues, Call
  <2>3. CASE Replace(w)
    <3>1. write'[w] = [write[w] EXCEPT !.at = "replaced"]
      BY <2>3 DEF Replace, TypeOK
    <3>2. write'[w].at = "replaced"
      BY <2>2, <3>1 DEF Call
    <3>3. disk'[write[w].path] = write[w].wanted
      BY <2>2, <2>3 DEF Replace, TypeOK
    <3> QED BY <2>1, <3>2, <3>3 DEF Continues
  <2>4. CASE Verify(w)
    <3>1. write'[w] = [write[w] EXCEPT !.at = "changed", !.new = disk[write[w].path]]
      BY <2>4 DEF Verify, TypeOK
    <3>2. write'[w].at = "changed" /\ write'[w].new = disk[write[w].path]
      BY <2>2, <3>1 DEF Call
    <3>3. disk' = disk
      BY <2>4 DEF Verify, disks
    <3> QED BY <2>1, <3>2, <3>3 DEF Continues
  <2>5. CASE Waits(w) /\ ~Replace(w)
    <3>1. disk'[write[w].path] = disk[write[w].path]
      <4>1. ASSUME NEW v \in Writer, Replace(v), write[v].path = write[w].path
            PROVE  FALSE
        BY <2>1, <2>2, <2>5, <4>1, CleanAlone DEF Continues, Replace
      <4>2. ASSUME Edit(write[w].path)
            PROVE  FALSE
        <5>1. write'[w] = Crossed(write[w].path)[w]
          BY <4>2 DEF Edit
        <5> QED BY <2>1, <2>2, <5>1, CrossedCall DEF Continues
      <4> QED BY <2>2, <4>1, <4>2, DiskMoves
    <3> QED BY <2>1, <2>2, <2>5, <3>1 DEF Knowing, Continues, Waits
  <2> QED BY <2>1, <2>3, <2>4, <2>5
<1> QED
  BY <1>1, <1>2

(* While a clean call goes on, the ledger says nothing new of its path. *)
LEMMA LedgerStill ==
  ASSUME TypeOK, Alone, Next, NEW w \in Writer, Continues(w), write'[w] # Idle, write[w].clean,
         NEW path \in Path, path = write[w].path
  PROVE  Expected(path)' = Expected(path) /\ (path \in suspects => path \in suspects')
<1>1. ASSUME NEW v \in Writer, AppendVerified(v) \/ AbandonCut(v), write[v].at = "changed",
             write[v].path = path
      PROVE  FALSE
  <2>1. v = w
    BY <1>1, CleanAlone DEF Continues
  <2>2. write'[v] = Idle
    BY <1>1 DEF AppendVerified, AbandonCut, Ended, TypeOK
  <2> QED BY <2>1, <2>2
<1> QED
  BY <1>1, LedgerMoves

LEMMA FollowingStep ==
  ASSUME TypeOK, Alone, Following, Settled, Next
  PROVE  Following'
<1> SUFFICES ASSUME NEW w \in Writer, write'[w] # Idle, write'[w].clean,
                    write'[w].path \notin suspects'
             PROVE  Expected(write[w].path)' \in {Unreceipted, write'[w].old}
  BY DEF Following
<1>1. PICK path \in Path : path = write'[w].path
  <2>1. Begin(w) \/ Continues(w)
    BY CallsGoOn
  <2> QED BY <2>1, BeginCrosses, CallType DEF Continues
<1>2. CASE Begin(w)
  <2>1. path \notin Busy /\ path \notin suspects
    BY <1>1, <1>2, BeginCrosses DEF Busy, Begin
  <2>2. Expected(path) \in {Unreceipted, disk[path]}
    BY <2>1 DEF Settled
  <2>3. Expected(path)' = Expected(path)
    BY <1>2 DEF Begin, disks, Expected, NamedBy
  <2>4. Expected(path)' \in {Unreceipted, write'[w].old}
    BY <1>1, <1>2, <2>2, <2>3, BeginCrosses
  <2> QED BY <1>1, <2>4
<1>3. CASE ~Begin(w)
  <2>1. Continues(w)
    BY <1>3, CallsGoOn
  <2>2. Expected(path)' = Expected(path) /\ path \notin suspects
    BY <1>1, <2>1, LedgerStill DEF Continues
  <2>3. Expected(path) \in {Unreceipted, write[w].old}
    BY <1>1, <2>1, <2>2 DEF Following, Continues
  <2>4. Expected(path)' \in {Unreceipted, write'[w].old}
    BY <2>1, <2>2, <2>3 DEF Continues
  <2> QED BY <1>1, <2>4
<1> QED
  BY <1>2, <1>3

(* A call leaves a busy path with a receipt, under suspicion, or with the  *)
(* file as it found it.                                                    *)
LEMMA BusyLeaves ==
  ASSUME TypeOK, Knowing, Following, Next, NEW v \in Writer, NEW path \in Path,
         write[v].at \in {"replaced", "changed"}, write[v].path = path,
         path \notin Busy', path \notin suspects', Expected(path)' = Expected(path),
         path \notin suspects
  PROVE  Expected(path) \in {Unreceipted, disk[path]}
<1>1. write[v] # Idle /\ write[v] \in Call
  BY CallType DEF Idle
<1>2. write'[v] = Idle
  <2> SUFFICES ASSUME write'[v] # Idle PROVE FALSE
    OBVIOUS
  <2>1. ~Begin(v)
    BY <1>1 DEF Begin
  <2>2. Continues(v) /\ (Waits(v) \/ Replace(v) \/ Verify(v))
    BY <2>1, CallsGoOn
  <2>3. write'[v].at \in {"replaced", "changed"}
    BY <1>1, <2>2 DEF Waits, Replace, Verify, TypeOK, Call
  <2>4. path \in Busy'
    BY <2>2, <2>3 DEF Busy, Inside, Continues
  <2> QED BY <2>4
<1>3. Unverified(v) \/ AppendVerified(v) \/ Abandon(v) \/ AbandonCut(v)
  <2>1. ASSUME NEW u \in Writer, u # v,
               \/ Replace(u) \/ Verify(u) \/ Unverified(u) \/ AppendVerified(u)
               \/ Abandon(u) \/ AbandonCut(u)
        PROVE  write'[v] = write[v]
    BY <2>1 DEF Replace, Verify, Unverified, AppendVerified, Abandon, AbandonCut, Ended, TypeOK
  <2>2. ASSUME NEW u \in Writer, Begin(u)
        PROVE  write'[v] # Idle
    <3>1. CASE u = v
      BY <1>1, <2>2, <3>1 DEF Begin
    <3>2. CASE u # v
      <4>1. PICK p \in Path : write'[v] = Crossed(p)[v]
        <5>1. \A p \in Path : DOMAIN Crossed(p) = Writer
          BY DEF Crossed
        <5> QED BY <2>2, <3>2, <5>1 DEF Begin
      <4> QED BY <1>1, <4>1, CrossedCall
    <3> QED BY <3>1, <3>2
  <2>3. ASSUME NEW p \in Path, Edit(p)
        PROVE  write'[v] # Idle
    <3>1. write'[v] = Crossed(p)[v]
      BY <2>3 DEF Edit
    <3> QED BY <1>1, <3>1, CrossedCall
  <2>4. ASSUME Replace(v) \/ Verify(v)
        PROVE  write'[v].at # "idle"
    BY <1>1, <2>4 DEF Replace, Verify, TypeOK, Call
  <2>5. ASSUME Scan \/ Report \/ \E p \in Path : Compare(p) \/ CompareUnread(p)
        PROVE  write'[v] = write[v]
    BY <2>5 DEF Scan, Report, Compare, CompareUnread
  <2> QED BY <1>1, <1>2, <2>1, <2>2, <2>3, <2>4, <2>5 DEF Next, Idle
<1>4. CASE Unverified(v)
  <2>1. write[v].clean /\ write[v].at = "replaced" /\ ~Changed(write[v], disk[path])
    BY <1>4 DEF Unverified
  <2>2. disk[path] = write[v].wanted
    BY <1>1, <2>1 DEF Knowing
  <2>3. disk[path] = write[v].old
    BY <1>1, <2>1, <2>2, CallType, WriteAssumption DEF Changed
  <2> QED BY <1>1, <2>1, <2>3 DEF Following
<1>5. CASE AppendVerified(v)
  <2>1. write[v].clean /\ tail = "line" /\ write[v].at = "changed"
    BY <1>5 DEF AppendVerified
  <2> DEFINE r == [path |-> write[v].path, before |-> write[v].old, after |-> write[v].new]
  <2>2. receipts' = Append(receipts, r)
    BY <1>5, <2>1 DEF AppendVerified, Appended, Receipted
  <2>3. r \in Receipt /\ r.path = path /\ r.after = write[v].new
    BY <2>1, ReceiptType
  <2> HIDE DEF r
  <2>4. Expected(path)' = write[v].new
    BY <2>2, <2>3, ExpectedAfter DEF TypeOK
  <2>5. disk[path] = write[v].new
    BY <1>1, <2>1 DEF Knowing
  <2> QED BY <2>4, <2>5
<1>6. CASE Abandon(v) \/ AbandonCut(v)
  BY <1>6 DEF Abandon, AbandonCut
<1> QED
  BY <1>3, <1>4, <1>5, <1>6

LEMMA SettledStep ==
  ASSUME TypeOK, Knowing, Following, Settled, Next
  PROVE  Settled'
<1> SUFFICES ASSUME NEW path \in Path, path \notin suspects', path \notin Busy'
             PROVE  Expected(path)' \in {Unreceipted, disk'[path]}
  BY DEF Settled
<1>1. CASE Expected(path)' # Expected(path) \/ path \in suspects
  <2>1. PICK v \in Writer : /\ AppendVerified(v) \/ AbandonCut(v)
                            /\ write[v].at = "changed" /\ write[v].path = path
    BY <1>1, LedgerMoves
  <2>2. AppendVerified(v) /\ write[v].clean /\ tail = "line"
    BY <2>1 DEF AppendVerified, AbandonCut
  <2> DEFINE r == [path |-> write[v].path, before |-> write[v].old, after |-> write[v].new]
  <2>3. receipts' = Append(receipts, r)
    BY <2>2 DEF AppendVerified, Appended, Receipted
  <2>4. r \in Receipt /\ r.path = path /\ r.after = write[v].new
    BY <2>1, ReceiptType
  <2> HIDE DEF r
  <2>5. Expected(path)' = write[v].new
    BY <2>3, <2>4, ExpectedAfter DEF TypeOK
  <2>6. disk'[path] = write[v].new
    BY <2>1, <2>2 DEF Knowing, Idle, AppendVerified
  <2> QED BY <2>5, <2>6
<1>2. CASE Expected(path)' = Expected(path) /\ path \notin suspects
  <2>1. disk'[path] = disk[path]
    <3>1. ASSUME NEW v \in Writer, Replace(v), write[v].path = path
          PROVE  FALSE
      <4>1. write[v] \in Call
        BY <3>1, CallType DEF Replace
      <4>2. write'[v] = [write[v] EXCEPT !.at = "replaced"]
        BY <3>1 DEF Replace, TypeOK
      <4>3. write'[v].at = "replaced" /\ write'[v].path = path
        BY <3>1, <4>1, <4>2 DEF Call
      <4> QED BY <4>3 DEF Busy, Inside
    <3>2. ~Edit(path)
      BY DEF Edit
    <3> QED BY <3>1, <3>2, DiskMoves
  <2>2. Expected(path) \in {Unreceipted, disk[path]}
    <3>1. CASE path \notin Busy
      BY <1>2, <3>1 DEF Settled
    <3>2. CASE path \in Busy
      <4>1. PICK v \in Writer : Inside(v, path) /\ write[v].at # "read"
        BY <3>2 DEF Busy
      <4>2. write[v].at \in {"replaced", "changed"} /\ write[v].path = path
        BY <4>1, CallType DEF Inside
      <4> QED BY <1>2, <4>2, BusyLeaves
    <3> QED BY <3>1, <3>2
  <2> QED BY <1>2, <2>1, <2>2
<1> QED
  BY <1>1, <1>2

LEMMA ExplainedStep ==
  ASSUME TypeOK, Settled, Explained, Next
  PROVE  Explained'
<1> SUFFICES ASSUME scanning', NEW path \in Path, path \in todo', path \notin suspects',
                    path \notin raced', TypeOK'
             PROVE  disk'[path] = expected'[path]
  BY TypeStep DEF Explained, TypeOK
<1>1. CASE Scan
  <2>1. Expected(path) # Unreceipted /\ path \notin Busy /\ path \notin suspects
          /\ disk'[path] = disk[path] /\ expected'[path] = Expected(path)
    BY <1>1 DEF Scan, disks
  <2> QED BY <2>1 DEF Settled
<1>2. CASE ~Scan
  <2>1. scanning /\ path \in todo /\ expected' = expected /\ raced \subseteq raced'
    BY <1>2 DEF Next, Begin, Replace, Unverified, Verify, AppendVerified, Abandon, AbandonCut,
                Edit, Compare, CompareUnread, Report, scans
  <2>2. path \notin suspects
    <3>1. ASSUME NEW v \in Writer, AppendVerified(v) \/ AbandonCut(v), write[v].path = path
          PROVE  path \in raced'
      BY <3>1 DEF AppendVerified, AbandonCut
    <3> QED BY <3>1, LedgerMoves
  <2>3. disk'[path] = disk[path]
    <3>1. ASSUME NEW v \in Writer, Replace(v), write[v].path = path
          PROVE  path \in raced'
      BY <3>1 DEF Replace
    <3>2. Edit(path) => path \in suspects'
      BY DEF Edit
    <3> QED BY <3>1, <3>2, DiskMoves
  <2> QED BY <2>1, <2>2, <2>3 DEF Explained
<1> QED
  BY <1>1, <1>2

----------------------------------------------------------------------------
(* The invariant and what follows from it. *)

LEMMA Invariant == Spec => []IInv
<1>1. Init => IInv
  <2> SUFFICES ASSUME Init PROVE IInv
    OBVIOUS
  <2>1. \A w \in Writer : write[w] = Idle
    BY DEF Init
  <2>2. TypeOK
    BY <2>1 DEF Init, TypeOK, Idle
  <2>3. \A path \in Path : Expected(path) = Unreceipted
    BY DEF Init, Expected, NamedBy
  <2> QED BY <2>1, <2>2, <2>3 DEF Init, IInv, Alone, Knowing, Following, Settled, Explained
<1>2. IInv /\ [Next]_vars => IInv'
  <2> SUFFICES ASSUME IInv, [Next]_vars PROVE IInv'
    OBVIOUS
  <2>1. CASE Next
    BY <2>1, TypeStep, AloneStep, KnowingStep, FollowingStep, SettledStep, ExplainedStep
    DEF IInv
  <2>2. CASE UNCHANGED vars
    <3>1. UNCHANGED <<disk, receipts, write, scanning, expected, todo, suspects, raced>>
      BY <2>2 DEF vars, disks, scans
    <3>2. \A path \in Path : Expected(path)' = Expected(path)
      BY <3>1 DEF Expected, NamedBy
    <3>3. Busy' = Busy
      BY <3>1 DEF Busy, Inside
    <3>4. TypeOK' /\ Alone' /\ Knowing' /\ Explained'
      BY <3>1 DEF IInv, TypeOK, Alone, Knowing, Explained, Inside
    <3>5. Following'
      BY <3>1, <3>2, CallType DEF IInv, Following
    <3>6. Settled'
      BY <3>1, <3>2, <3>3 DEF IInv, Settled
    <3> QED BY <3>4, <3>5, <3>6 DEF IInv
  <2> QED BY <2>1, <2>2
<1> QED
  BY <1>1, <1>2, PTL DEF Spec

(* drift.py:20-41 over swd.py:71-139: of whatever a scan reports a path,   *)
(* something happened to it that a receipt could not tell, or the scan did *)
(* not get to see it.                                                      *)
THEOREM ScanCriesNoWolf == Spec => NoFalseAlarm
<1>1. IInv /\ [Next]_vars => [alarms' \ alarms \subseteq suspects \cup raced \cup unread']_vars
  <2> SUFFICES ASSUME IInv, Next
               PROVE  alarms' \ alarms \subseteq suspects \cup raced \cup unread'
    OBVIOUS
  <2>1. ASSUME NEW path \in Path, Compare(path)
        PROVE  alarms' \ alarms \subseteq suspects \cup raced
    BY <2>1 DEF Compare, IInv, Explained, TypeOK
  <2>2. ASSUME NEW path \in Path, CompareUnread(path)
        PROVE  alarms' \ alarms \subseteq unread'
    BY <2>2 DEF CompareUnread
  <2>3. CASE alarms' \subseteq alarms
    BY <2>3
  <2> QED BY <2>1, <2>2, <2>3
          DEF Next, Begin, Replace, Unverified, Verify, AppendVerified, Abandon, AbandonCut,
              Edit, Scan, Report, scans
<1> QED
  BY <1>1, Invariant, PTL DEF Spec, NoFalseAlarm

(* swd.py:71-139: a receipt of a call that nobody came across continues    *)
(* the receipt before it.                                                  *)
THEOREM ReceiptsContinue == Spec => ReceiptsFollow
<1>1. IInv /\ [Next]_vars =>
        [\A w \in Writer :
           write[w].at = "changed" /\ receipts' # receipts /\ write'[w] = Idle /\ write[w].clean =>
             \/ write[w].path \in suspects
             \/ Expected(write[w].path) \in {Unreceipted, write[w].old}]_vars
  BY DEF IInv, Following, Idle
<1> QED
  BY <1>1, Invariant, PTL DEF Spec, ReceiptsFollow
=============================================================================
