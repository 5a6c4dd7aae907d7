----------------------------- MODULE BootOrder -----------------------------
(***************************************************************************)
(* Reordering the boot menus of a written drive (boot_loader.py): every    *)
(* configuration file in turn is read, copied to a fresh backup, rewritten *)
(* and read again.  A menu is a sequence of blocks, each with the title it *)
(* shows; several blocks may have one title.  The program may be stopped   *)
(* and the drive be pulled at any moment.  What was written is in the page *)
(* cache until the drive is unmounted; nothing orders how it gets to the   *)
(* drive before that.                                                      *)
(***************************************************************************)
EXTENDS Integers, SequencesExt

CONSTANTS
    Files,          \* the configuration files, in the order of the globs
    Menus,          \* the menus each of them may hold
    Orders,         \* the orders that may be configured
    Lengths,        \* how much of a file may be there when a write is cut short
    MaxRuns         \* bound on runs

\* The title is that of the menu label, or of the label of a block without one,
\* as _clean_entry_title leaves it; a number stands for the rest of the text.
MenuBlock == [title : STRING \ {""}, labelled : BOOLEAN, body : Nat]

ASSUME BootOrderAssumption ==
    /\ Files \in Seq(STRING) /\ IsInjective(Files)
    /\ \A f \in ToSet(Files) : Menus[f] \subseteq Seq(MenuBlock)
    /\ Orders \subseteq Seq(STRING)
    /\ Lengths \subseteq Nat /\ MaxRuns \in Nat \ {0}

VARIABLES
    menu,           \* what each file holds
    backups,        \* the backups of each file, oldest first
    reached,        \* what of each file may be on the drive itself
    kept,           \* how many of its backups surely are on the drive
    order,          \* the configured order
    next,           \* the file that the run has come to
    before,         \* what that file held when it was read
    step,           \* where in apply_boot_loader_order_to_file
    runs,
    \* history, for the properties only:
    shipped,        \* what each file held at first
    found,          \* what each file held when this run began
    lost            \* the files whose shipped menu went with a drive pulled between
                    \* the write over it and the unmount that would have kept its backup

orderVars == <<menu, backups, reached, kept, order, next, before, step, runs,
               shipped, found, lost>>
onDrive == <<reached, kept>>

File == Files[next]

-----------------------------------------------------------------------------
(***************************************************************************)
(* The algorithm, on sequences.                                            *)
(***************************************************************************)

Titles(m) == [i \in 1..Len(m) |-> m[i].title]

\* The elements of s at the positions in I, in their order.
Nth(I, k) == CHOOSE i \in I : Cardinality({j \in I : j <= i}) = k
Pick(s, I) == [k \in 1..Cardinality(I) |-> s[Nth(I, k)]]

\* unique_entries: the first of each.
FirstsIn(s) == {i \in 1..Len(s) : \A j \in 1..i - 1 : s[j] # s[i]}
Unique(s) == Pick(s, FirstsIn(s))

Among(s, entries) == {i \in 1..Len(s) : Contains(entries, s[i])}

\* What a reader of the file sees: the menu labels, or the bare labels of a
\* file that has no menu label at all.
Entries(m) ==
    LET labelled == {i \in 1..Len(m) : m[i].labelled}
    IN  Unique(Titles(IF labelled = {} THEN m ELSE Pick(m, labelled)))

\* Mutant: the entries that no order names come first.
ReorderUnknownFirst(current, desired) ==
    LET wanted == Unique(desired)
        first == Pick(wanted, Among(wanted, current))
        rest == Unique(current)
    IN  Pick(rest, (1..Len(rest)) \ Among(rest, first)) \o first

\* reorder_entries.
ReorderEntries(current, desired) ==
    LET wanted == Unique(desired)
        first == Pick(wanted, Among(wanted, current))
        rest == Unique(current)
    IN  first \o Pick(rest, (1..Len(rest)) \ Among(rest, first))

\* block_by_title: the last block with a title stands for all of them.
BlockOf(m, title) ==
    CHOOSE i \in 1..Len(m) :
        m[i].title = title /\ \A j \in i + 1..Len(m) : m[j].title # title

\* _rewrite_blocks; a menu that is in order already is left alone.
Rewritten(m, desired) ==
    LET entries == Unique(Titles(m))
        ordered == ReorderEntries(entries, desired)
    IN  IF ordered = entries THEN m
        ELSE [i \in 1..Len(ordered) |-> m[BlockOf(m, ordered[i])]]

Expected(m, desired) == ReorderEntries(Unique(Titles(m)), desired)

-----------------------------------------------------------------------------
OrderInit ==
    /\ menu \in {f \in [ToSet(Files) -> UNION {Menus[f] : f \in ToSet(Files)}] :
                   \A n \in ToSet(Files) : f[n] \in Menus[n]}
    /\ backups = [f \in ToSet(Files) |-> <<>>]
    /\ reached = [f \in ToSet(Files) |-> {menu[f]}]
    /\ kept = [f \in ToSet(Files) |-> 0]
    /\ order \in Orders
    /\ next = 1 /\ before = <<>> /\ step = "read" /\ runs = 1
    /\ shipped = menu /\ found = menu /\ lost = {}

At(s) == /\ step = s /\ next <= Len(Files)
         /\ UNCHANGED <<kept, order, runs, shipped, found, lost>>

Skip == next' = next + 1 /\ step' = "read"

\* apply_boot_loader_order_to_directory, and the rewriting in memory.
ReadFile ==
    /\ At("read")
    /\ before' = menu[File]
    /\ IF Entries(menu[File]) = <<>> \/ Rewritten(menu[File], order) = menu[File]
       THEN Skip ELSE step' = "backup" /\ UNCHANGED next
    /\ UNCHANGED <<menu, backups, reached>>

\* Mutant: the file is rewritten first and copied then.
BackUpAfter ==
    /\ At("backup")
    /\ backups' = [backups EXCEPT ![File] = Append(@, Rewritten(before, order))]
    /\ step' = "write"
    /\ UNCHANGED <<menu, reached, next, before>>

\* _backup_path never names a file that is there already.
BackUp ==
    /\ At("backup")
    /\ backups' = [backups EXCEPT ![File] = Append(@, menu[File])]
    /\ step' = "write"
    /\ UNCHANGED <<menu, reached, next, before>>

\* A copy or a write that is cut short leaves a part of what it was to leave.
Cut(m) == {SubSeq(m, 1, n) : n \in Lengths \cap 0..Len(m)}

\* A file is written in place, so a part of what is written may reach the drive.
Write(f, m) ==
    /\ menu' = [menu EXCEPT ![f] = m]
    /\ reached' = [reached EXCEPT ![f] = @ \cup {m} \cup Cut(m)]

WriteFile ==
    /\ At("write")
    /\ Write(File, Rewritten(before, order))
    /\ step' = "verify"
    /\ UNCHANGED <<backups, next, before>>

Verify ==
    /\ At("verify")
    /\ IF Entries(menu[File]) = Expected(before, order)
       THEN Skip ELSE step' = "restore" /\ UNCHANGED next
    /\ UNCHANGED <<menu, backups, reached, before>>

Restore ==
    /\ At("restore")
    /\ Write(File, Last(backups[File]))
    /\ step' = "failed"
    /\ UNCHANGED <<backups, next, before>>

\* A read, a copy or a write fails, or the program is stopped.
Interrupted ==
    /\ At(step)
    /\ \/ step \in {"read", "verify"} /\ UNCHANGED <<menu, backups, reached>>
       \/ /\ step = "backup" /\ UNCHANGED <<menu, reached>>
          /\ \E m \in Cut(menu[File]) :
               backups' = [backups EXCEPT ![File] = Append(@, m)]
       \/ /\ step = "write" /\ UNCHANGED backups
          /\ \E m \in Cut(Rewritten(before, order)) : Write(File, m)
       \/ /\ step = "restore" /\ UNCHANGED backups
          /\ \E m \in Cut(Last(backups[File])) : Write(File, m)
    /\ step' = "failed"
    /\ UNCHANGED <<next, before>>

Applied == next > Len(Files) /\ step # "pulled"

\* What is on the drive now is all that was written.
Flushed ==
    /\ reached' = [f \in ToSet(Files) |-> {menu'[f]}]
    /\ kept' = [f \in ToSet(Files) |-> Len(backups'[f])]

\* _release_mount, or whoever unmounts the drive where that failed or was never
\* come to.
UnmountDrive ==
    /\ Applied \/ step = "failed"
    /\ step' = "released"
    /\ UNCHANGED <<menu, backups>> /\ Flushed
    /\ UNCHANGED <<order, next, before, runs, shipped, found, lost>>

\* What a pulled drive may hold of the backups of a file: the last one was made
\* since the drive was mounted, or all of them were there.
Surviving(f) ==
    LET safe == SubSeq(backups[f], 1, kept[f])
    IN  IF Len(backups[f]) = kept[f] THEN {safe}
        ELSE {safe} \cup {Append(safe, m) : m \in {Last(backups[f])} \cup Cut(Last(backups[f]))}

ShippedIn(m, saved, f) == m[f] = shipped[f] \/ Contains(saved[f], shipped[f])

WrittenOver(f) == reached[f] # {menu[f]}

\* The drive is pulled, or the machine goes down, before it was unmounted.
Pull ==
    /\ step \notin {"released", "pulled"} /\ step' = "pulled"
    /\ menu' \in {m \in [ToSet(Files) -> UNION {reached[f] : f \in ToSet(Files)}] :
                    \A f \in ToSet(Files) : m[f] \in reached[f]}
    /\ backups' \in {b \in [ToSet(Files) -> UNION {Surviving(f) : f \in ToSet(Files)}] :
                       \A f \in ToSet(Files) : b[f] \in Surviving(f)}
    /\ Flushed
    /\ lost' = lost \cup
         {f \in ToSet(Files) : /\ WrittenOver(f)
                              /\ ~Contains(SubSeq(backups[f], 1, kept[f]), shipped[f])
                              /\ ~ShippedIn(menu', backups', f)}
    /\ UNCHANGED <<order, next, before, runs, shipped, found>>

\* The same or another order is applied to the drive later; a write to it unmounts
\* it first.
RunAgain ==
    /\ runs < MaxRuns /\ runs' = runs + 1
    /\ step \in {"released", "pulled"}
    /\ order' \in Orders
    /\ next' = 1 /\ before' = <<>> /\ step' = "read"
    /\ found' = menu
    /\ UNCHANGED <<menu, backups, onDrive, shipped, lost>>

OrderNext == \/ ReadFile \/ BackUp \/ WriteFile \/ Verify \/ Restore
             \/ Interrupted \/ UnmountDrive \/ Pull \/ RunAgain

OrderSpec == OrderInit /\ [][OrderNext]_orderVars

-----------------------------------------------------------------------------
(***************************************************************************)
(* Properties                                                              *)
(***************************************************************************)

FirstAt(s, e) == CHOOSE i \in 1..Len(s) : s[i] = e /\ \A j \in 1..i - 1 : s[j] # e

\* Where a title belongs: the configured ones first, the others as they were.
Rank(m, desired, title) ==
    IF Contains(desired, title) THEN FirstAt(desired, title)
    ELSE Len(desired) + FirstAt(Titles(m), title)

(* A run that reports success leaves in every file with a menu all its     *)
(* titles and no other, the configured ones first and in that order, the   *)
(* others after them as they were, each once and over a block that had it  *)
(* before: rewriting a file block by block neither loses nor doubles nor   *)
(* mixes up an entry.  Only a file that had its titles in that order is    *)
(* left as it was, with the blocks it may have twice.                      *)
MenuAsConfigured ==
    Applied => \A f \in ToSet(Files) :
      LET titles == Titles(menu[f])
      IN  /\ ToSet(titles) = ToSet(Titles(found[f]))
          /\ \A t, u \in ToSet(titles) :
               Rank(found[f], order, t) < Rank(found[f], order, u)
               => FirstAt(titles, t) < FirstAt(titles, u)
          /\ IsInjective(titles) \/ menu[f] = found[f]
          /\ ToSet(menu[f]) \subseteq ToSet(found[f])

(* The menu that came with a drive is not lost: over failed and stopped    *)
(* runs, drives that were pulled and later runs, the file or one of its    *)
(* backups holds it whole; but for a file whose first rewriting was not    *)
(* unmounted before the drive was pulled, where neither the backup nor the *)
(* file need have reached the drive.                                       *)
ShippedMenuKept ==
    \A f \in ToSet(Files) \ lost : ShippedIn(menu, backups, f)

=============================================================================
