------------------------------ MODULE Patching ------------------------------
(***************************************************************************)
(* The two ways src/feedback.rs changes a file: the hunks of a unified     *)
(* patch, and a suggestion for a range of lines.                           *)
(*                                                                         *)
(* A file is what split('\n') makes of it: a nonempty sequence of lines,   *)
(* the last of them Blank when the file ends with a newline.  A hunk is    *)
(* its header [start, old, new] and its lines, each with its mark.         *)
(***************************************************************************)
EXTENDS Integers, Sequences, SequencesExt

Blank == ""
Marks == {"context", "remove", "add"}
HunkLine(Text) == [mark : Marks, text : Text]

Refused(why) == [ok |-> FALSE, why |-> why]
Repaired(lines) == [ok |-> TRUE, file |-> IF lines = <<>> THEN <<Blank>> ELSE lines]

(* The texts of a hunk without the lines of one mark. *)
Without(mark, hunk) ==
  LET Kept[i \in 0..Len(hunk.lines)] ==
        IF i = 0 THEN <<>>
        ELSE IF hunk.lines[i].mark = mark THEN Kept[i - 1]
        ELSE Append(Kept[i - 1], hunk.lines[i].text)
  IN Kept[Len(hunk.lines)]
Old(hunk) == Without("add", hunk)
New(hunk) == Without("remove", hunk)

-----------------------------------------------------------------------------
(* parse_unified_patch. *)

WellFormed(hunks) ==
  /\ hunks # <<>>
  /\ \A i \in DOMAIN hunks :
       /\ hunks[i].old = Len(Old(hunks[i])) /\ hunks[i].new = Len(New(hunks[i]))
       /\ hunks[i].start = 0 => hunks[i].old = 0

-----------------------------------------------------------------------------
(* apply_hunks. *)

(* Mutated: a hunk that removes nothing begins like the others. *)
StartsBefore(hunk) == IF hunk.start = 0 THEN 0 ELSE hunk.start - 1

(* How many lines stand before the hunk. *)
Starts(hunk) == IF hunk.old = 0 THEN hunk.start ELSE hunk.start - 1

(* The lines at a place of the file are exactly these. *)
Exactly(file, at, lines) ==
  at + Len(lines) <= Len(file) /\ SubSeq(file, at + 1, at + Len(lines)) = lines

(* One hunk: what the hunks so far made of the file up to the cursor, and the next. *)
Hunk(file, done, hunk) ==
  LET start == Starts(hunk) IN
  IF done.stale \/ start < done.cursor \/ start > Len(file) \/ ~Exactly(file, start, Old(hunk))
  THEN [done EXCEPT !.stale = TRUE]
  ELSE [stale |-> FALSE, cursor |-> start + Len(Old(hunk)),
        result |-> done.result \o SubSeq(file, done.cursor + 1, start) \o New(hunk)]

Untouched == [stale |-> FALSE, cursor |-> 0, result |-> <<>>]

ApplyHunks(file, hunks) ==
  LET Done[i \in 0..Len(hunks)] ==
        IF i = 0 THEN Untouched ELSE Hunk(file, Done[i - 1], hunks[i])
      done == Done[Len(hunks)]
  IN IF done.stale THEN Refused("stale")
     ELSE Repaired(done.result \o SubSeq(file, done.cursor + 1, Len(file)))

ApplyPatch(file, hunks) ==
  IF WellFormed(hunks) THEN ApplyHunks(file, hunks) ELSE Refused("malformed")

-----------------------------------------------------------------------------
(* extract_inline_suggestion and apply_inline_suggestion.  The fence holds at least
   one line, and one blank line of it stands for no line at all. *)

Suggested(fence) == IF fence = <<Blank>> THEN <<>> ELSE fence

Ended(file) == Last(file) = Blank
Proper(file) == IF Ended(file) THEN Front(file) ELSE file
ProperLines(file) == IF Proper(file) = <<Blank>> THEN <<>> ELSE Proper(file)

ApplyInline(file, first, last, fence) ==
  LET lines == ProperLines(file)
      left == SubSeq(lines, 1, first - 1) \o Suggested(fence)
                \o SubSeq(lines, last + 1, Len(lines))
  IN IF fence = <<>> \/ first = 0 \/ first > last THEN Refused("malformed")
     ELSE IF last > Len(lines) THEN Refused("stale")
     ELSE Repaired(IF Ended(file) /\ left # <<>> THEN Append(left, Blank) ELSE left)

=============================================================================
