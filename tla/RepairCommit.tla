---------------------------- MODULE RepairCommit ----------------------------
(***************************************************************************)
(* From the patches of a CI repair to the commit: validate_patch_set       *)
(* (src/ci.rs), git apply, git add, the snapshot for the validation and    *)
(* ensure_staged_paths (apply_ci_repair in src/workspace.rs).              *)
(*                                                                         *)
(* A tree maps paths to files; a file has a mode and a text.  A patch has  *)
(* the path it declares, the paths of its ---/+++ header pairs in order,   *)
(* and what git makes of it, sections without such headers (a mode, a      *)
(* rename, an empty file) included.                                        *)
(***************************************************************************)
EXTENDS Integers, Sequences, FiniteSets, SequencesExt

Absent == [mode |-> "absent", text |-> 0]
Denied(why) == [ok |-> FALSE, why |-> why]

Changed(before, after) == {p \in DOMAIN before : before[p] # after[p]}
Declared(patches) == {patches[i].path : i \in DOMAIN patches}

(* validate_patch_set. *)
PatchSetAllowed(patches, allowed) ==
  /\ patches # <<>>
  /\ \A i \in DOMAIN patches :
       patches[i].path \in allowed /\ patches[i].headers = <<patches[i].path>>

(* git apply, patch by patch. *)
GitApply(tree, patches) ==
  FoldLeft(LAMBDA t, patch : [p \in DOMAIN t |-> IF p \in DOMAIN patch.changes
                                                 THEN patch.changes[p] ELSE t[p]],
           tree, patches)

(* git add of the declared paths; one that is nowhere is an error. *)
GitAdd(head, work, paths) == [p \in DOMAIN head |-> IF p \in paths THEN work[p] ELSE head[p]]
Addable(head, work, paths) == \A p \in paths : head[p] # Absent \/ work[p] # Absent

(* git diff --cached, which shows a file that moved under its new name only. *)
Moved(head, index) ==
  {p \in DOMAIN head :
     /\ head[p] # Absent /\ index[p] = Absent
     /\ \E q \in DOMAIN head :
          head[q] = Absent /\ index[q] # Absent /\ index[q].text = head[p].text}
StagedNames(head, index) == Changed(head, index) \ Moved(head, index)

(* copy_changed_path. *)
Copyable(work, paths) == \A p \in paths : work[p].mode # "120000"

(* Mutated: what is staged has to be among the declared paths. *)
StagedAtMost(expected, observed) == observed \subseteq expected

(* validate_staged_paths. *)
StagedAsDeclared(expected, observed) == expected = observed

(* validate_staged_diff_summary.  The lines of git diff --summary are indented: of
   its conditions only the one for a mode change is ever true. *)
SummaryClean(head, index) ==
  \A p \in DOMAIN head :
    head[p] # Absent /\ index[p] # Absent => head[p].mode = index[p].mode

Unstaged(index, work) == {p \in DOMAIN index : index[p] # Absent /\ work[p] # index[p]}
Untracked(index, work, ignored) ==
  {p \in DOMAIN index \ ignored : index[p] = Absent /\ work[p] # Absent}

(* apply_ci_repair up to the commit; valid: the validation commands succeed. *)
CommitRepair(head, ignored, allowed, patches, valid) ==
  LET paths == Declared(patches)
      work == GitApply(head, patches)
      index == GitAdd(head, work, paths)
  IN CASE ~PatchSetAllowed(patches, allowed) -> Denied("patch set")
       [] OTHER ->
            IF ~Addable(head, work, paths) THEN Denied("add")
            ELSE IF ~Copyable(work, paths) THEN Denied("120000")
            ELSE IF ~valid THEN Denied("validation")
            ELSE IF ~StagedAsDeclared(paths, StagedNames(head, index)) THEN Denied("staged")
            ELSE IF ~SummaryClean(head, index) THEN Denied("summary")
            ELSE IF Unstaged(index, work) \union Untracked(index, work, ignored) # {}
            THEN Denied("worktree")
            ELSE [ok |-> TRUE, tree |-> index, work |-> work]

=============================================================================
